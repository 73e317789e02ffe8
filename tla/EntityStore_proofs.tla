------------------------ MODULE EntityStore_proofs ------------------------
(***************************************************************************)
(* Proofs about files, entities and the storage their owner has used, for  *)
(* any files, entities, operations, quota, calls and faults.               *)
(***************************************************************************)
EXTENDS EntityStore, FiniteSetTheorems, TLAPS

(***************************************************************************)
(* Induction over a finite set, without an operator as its parameter:      *)
(* among the subsets of a kind, one has no smaller one of the kind in it.  *)
(***************************************************************************)
LEMMA SmallestSet ==
  ASSUME NEW S, IsFiniteSet(S), NEW K, K \subseteq SUBSET S, K # {}
  PROVE  \E T \in K : \A U \in K : U \subseteq T => U = T
<1>1. IsWellFoundedOn(StrictSubsetOrdering(S), FiniteSubsetsOf(S)) /\ FiniteSubsetsOf(S) = SUBSET S
  BY FS_StrictSubsetOrderingWellFounded, FS_FiniteSubsetsOfFinite
<1>2. PICK T \in K : \A U \in K : ~ (<<U, T>> \in StrictSubsetOrdering(S))
  BY <1>1, WFMin
<1>. QED  BY <1>2 DEF StrictSubsetOrdering

(***************************************************************************)
(* A set of numbers that is not empty has a least one.                     *)
(***************************************************************************)
LEMMA LeastExists ==
  ASSUME NEW S, IsFiniteSet(S), S \subseteq Nat, S # {}
  PROVE  Min(S) \in S /\ \A y \in S : Min(S) <= y
<1>1. \E x \in S : \A y \in S : x <= y
  <2>1. PICK Bad : Bad = {T \in SUBSET S : T # {} /\ ~\E x \in T : \A y \in T : x <= y}
    OBVIOUS
  <2>. SUFFICES ASSUME Bad # {} PROVE FALSE
    BY <2>1
  <2>2. Bad # {}
    OBVIOUS
  <2>8. Bad \subseteq SUBSET S
    BY <2>1
  <2>3. PICK T \in Bad : \A U \in Bad : U \subseteq T => U = T
    <3>1. IsFiniteSet(S)
      OBVIOUS
    <3>. QED  BY ONLY <3>1, <2>2, <2>8, SmallestSet
  <2>4. PICK x \in T : TRUE
    BY <2>1
  <2>5. T \ {x} \notin Bad /\ T \ {x} \in SUBSET S
    BY <2>1, <2>3, <2>4
  <2>6. CASE T \ {x} = {}
    BY <2>1, <2>4, <2>6
  <2>7. CASE T \ {x} # {}
    <3>1. PICK z \in T \ {x} : \A y \in T \ {x} : z <= y
      BY <2>1, <2>5, <2>7
    <3>2. x \in Nat /\ z \in Nat /\ \A y \in T : y \in Nat
      BY <2>1
    <3>3. (\A y \in T : z <= y) \/ (\A y \in T : x <= y)
      BY <3>1, <3>2
    <3>. QED  BY <2>1, <2>4, <3>1, <3>3
  <2>. QED  BY <2>6, <2>7
<1>. QED  BY <1>1, Zenon DEF Min

-----------------------------------------------------------------------------
(***************************************************************************)
(* Sums: MapThenSumSet adds up what a function gives for the elements of a *)
(* set, which it takes one by one.                                         *)
(***************************************************************************)
SumOf(f, S) == MapThenSumSet(LAMBDA x : f[x], S)

Pick(s) == CHOOSE x \in s : TRUE
Step(g, f, s) == IF s = {} THEN 0 ELSE f[Pick(s)] + g[s \ {Pick(s)}]
Adds(g, f, S) == g = [s \in SUBSET S |-> Step(g, f, s)]

LEMMA SumDef ==
  ASSUME NEW f, NEW S
  PROVE  SumOf(f, S) = (CHOOSE g : Adds(g, f, S))[S]
BY Zenon DEF SumOf, MapThenSumSet, MapThenFoldSet, Adds, Step, Pick

LEMMA OneLess ==
  ASSUME NEW S, IsFiniteSet(S), NEW x \in S
  PROVE  Cardinality(S \ {x}) = Cardinality(S) - 1
BY FS_RemoveElement

LEMMA Picked == \A s : s # {} => Pick(s) \in s
BY DEF Pick

LEMMA AddsExists ==
  ASSUME NEW S, IsFiniteSet(S), NEW f \in [S -> Int]
  PROVE  \E g : Adds(g, f, S)
<1>1. Cardinality(S) \in Nat /\ \A s \in SUBSET S : Cardinality(s) \in Nat /\ Cardinality(s) <= Cardinality(S)
  BY FS_CardinalityType, FS_Subset
<1>2. PICK Good : Good = {n \in 0 .. Cardinality(S) :
         \E g \in [SUBSET S -> Int] : \A s \in SUBSET S : Cardinality(s) <= n => g[s] = Step(g, f, s)}
  OBVIOUS
<1>3. 0 \in Good
  <2>1. PICK g : g = [s \in SUBSET S |-> 0]
    OBVIOUS
  <2>2. \A s \in SUBSET S : Cardinality(s) <= 0 => s = {}
    BY <1>1, FS_EmptySet, FS_Subset
  <2>. QED  BY <1>1, <1>2, <2>1, <2>2 DEF Step
<1>4. ASSUME NEW n \in Good, n < Cardinality(S)
      PROVE  n + 1 \in Good
  <2>1. PICK g \in [SUBSET S -> Int] : \A s \in SUBSET S : Cardinality(s) <= n => g[s] = Step(g, f, s)
    BY <1>2
  <2>2. \A s \in SUBSET S : Step(g, f, s) \in Int
    BY Picked DEF Step
  <2>3. PICK h : h = [s \in SUBSET S |-> Step(g, f, s)]
    OBVIOUS
  <2>4. ASSUME NEW s \in SUBSET S, Cardinality(s) <= n + 1
        PROVE  h[s] = Step(h, f, s)
    <3>1. CASE s = {}
      BY <2>3, <3>1 DEF Step
    <3>2. CASE s # {}
      <4>1. PICK x \in s : x = Pick(s)
        BY <3>2, Picked
      <4>2. IsFiniteSet(s) /\ s \ {x} \in SUBSET S
        BY FS_Subset
      <4>3. Cardinality(s \ {x}) = Cardinality(s) - 1
        BY <4>1, <4>2, OneLess
      <4>4. Cardinality(s \ {x}) <= n
        BY <1>1, <1>2, <2>4, <4>3
      <4>5. h[s \ {x}] = g[s \ {x}]
        BY <2>1, <2>3, <4>2, <4>4
      <4>. QED  BY <2>3, <3>2, <4>1, <4>5 DEF Step
    <3>. QED  BY <3>1, <3>2
  <2>5. h \in [SUBSET S -> Int]
    BY <2>2, <2>3
  <2>6. n + 1 \in 0 .. Cardinality(S)
    BY <1>1, <1>2, <1>4
  <2>. QED  BY <1>2, <2>4, <2>5, <2>6
<1>5. Cardinality(S) \in Good
  <2>. SUFFICES ASSUME Cardinality(S) \notin Good PROVE FALSE
    OBVIOUS
  <2>1. PICK Bad : Bad = (0 .. Cardinality(S)) \ Good
    OBVIOUS
  <2>2. Bad # {} /\ Bad \subseteq Nat
    BY <1>1, <2>1
  <2>5. 0 \in Int /\ Cardinality(S) \in Int
    BY <1>1
  <2>6. IsFiniteSet(0 .. Cardinality(S))
    BY <2>5, FS_Interval
  <2>7. IsFiniteSet(Bad)
    BY <2>1, <2>6, FS_Difference
  <2>3. PICK m \in Bad : \A y \in Bad : m <= y
    BY <2>2, <2>7, LeastExists
  <2>4. m - 1 \in 0 .. Cardinality(S) /\ m - 1 \notin Bad
    BY <1>1, <1>3, <2>1, <2>3
  <2>. QED  BY <1>1, <1>4, <2>1, <2>3, <2>4
<1>6. PICK g \in [SUBSET S -> Int] : \A s \in SUBSET S : g[s] = Step(g, f, s)
  BY <1>1, <1>2, <1>5
<1>. QED  BY <1>6 DEF Adds

LEMMA SumAdds ==
  ASSUME NEW S, IsFiniteSet(S), NEW f \in [S -> Int]
  PROVE  \E g \in [SUBSET S -> Int] : (\A s \in SUBSET S : g[s] = Step(g, f, s)) /\ SumOf(f, S) = g[S]
<1>1. PICK g : g = CHOOSE h : Adds(h, f, S)
  OBVIOUS
<1>2. Adds(g, f, S) /\ SumOf(f, S) = g[S]
  BY <1>1, AddsExists, SumDef, Zenon
<1>3. \A s \in SUBSET S : g[s] = Step(g, f, s)
  BY <1>2 DEF Adds
<1>4. \A s \in SUBSET S : g[s] \in Int
  <2>1. PICK Bad : Bad = {s \in SUBSET S : g[s] \notin Int}
    OBVIOUS
  <2>2. ASSUME Bad # {} PROVE FALSE
    <3>1. PICK T \in Bad : \A U \in Bad : U \subseteq T => U = T
      BY <2>1, <2>2, SmallestSet
    <3>2. T \in SUBSET S /\ g[T] = Step(g, f, T) /\ g[T] \notin Int
      BY <1>3, <2>1
    <3>3. T # {}
      BY <3>2 DEF Step
    <3>4. Pick(T) \in T /\ T \ {Pick(T)} \notin Bad
      BY <3>1, <3>3, Picked
    <3>. QED  BY <2>1, <3>2, <3>3, <3>4 DEF Step
  <2>. QED  BY <2>1, <2>2
<1>5. g \in [SUBSET S -> Int]
  BY <1>2, <1>4 DEF Adds
<1>. QED  BY <1>2, <1>3, <1>5

(***************************************************************************)
(* One element changes its value: the sum changes by as much.              *)
(***************************************************************************)
LEMMA SumChange ==
  ASSUME NEW S, IsFiniteSet(S), NEW f \in [S -> Int], NEW h \in [S -> Int], NEW x \in S,
         \A y \in S \ {x} : h[y] = f[y]
  PROVE  SumOf(f, S) \in Int /\ SumOf(h, S) = SumOf(f, S) + (h[x] - f[x])
<1>1. PICK g \in [SUBSET S -> Int] : (\A s \in SUBSET S : g[s] = Step(g, f, s)) /\ SumOf(f, S) = g[S]
  BY SumAdds
<1>2. PICK k \in [SUBSET S -> Int] : (\A s \in SUBSET S : k[s] = Step(k, h, s)) /\ SumOf(h, S) = k[S]
  BY SumAdds
<1>3. PICK Bad : Bad = {s \in SUBSET S : k[s] # g[s] + (IF x \in s THEN h[x] - f[x] ELSE 0)}
  OBVIOUS
<1>4. ASSUME Bad # {} PROVE FALSE
  <2>1. PICK T \in Bad : \A U \in Bad : U \subseteq T => U = T
    BY <1>3, <1>4, SmallestSet
  <2>2. T \in SUBSET S /\ g[T] = Step(g, f, T) /\ k[T] = Step(k, h, T)
        /\ k[T] # g[T] + (IF x \in T THEN h[x] - f[x] ELSE 0)
    BY <1>1, <1>2, <1>3
  <2>3. T # {}
    BY <2>2 DEF Step
  <2>4. PICK y \in T : y = Pick(T)
    BY <2>3, Picked
  <2>5. T \ {y} \notin Bad /\ T \ {y} \in SUBSET S
    BY <2>1, <2>2
  <2>6. k[T \ {y}] = g[T \ {y}] + (IF x \in T \ {y} THEN h[x] - f[x] ELSE 0)
    BY <1>3, <2>5
  <2>7. g[T] = f[y] + g[T \ {y}] /\ k[T] = h[y] + k[T \ {y}]
    BY <2>2, <2>3, <2>4 DEF Step
  <2>8. f[y] \in Int /\ h[y] \in Int /\ f[x] \in Int /\ h[x] \in Int /\ g[T \ {y}] \in Int
    BY <2>2, <2>5
  <2>9. CASE y = x
    BY <2>2, <2>4, <2>6, <2>7, <2>8, <2>9
  <2>10. CASE y # x
    <3>1. h[y] = f[y] /\ (x \in T \ {y} <=> x \in T)
      BY <2>2, <2>10
    <3>. QED  BY <2>2, <2>6, <2>7, <2>8, <3>1
  <2>. QED  BY <2>9, <2>10
<1>. QED  BY <1>1, <1>2, <1>3, <1>4

(***************************************************************************)
(* A sum of nothing but zeros, and one of nothing above zero.              *)
(***************************************************************************)
LEMMA SumZero ==
  ASSUME NEW S, IsFiniteSet(S), NEW f \in [S -> Int], \A y \in S : f[y] = 0
  PROVE  SumOf(f, S) = 0
<1>1. PICK g \in [SUBSET S -> Int] : (\A s \in SUBSET S : g[s] = Step(g, f, s)) /\ SumOf(f, S) = g[S]
  BY SumAdds
<1>2. PICK Bad : Bad = {s \in SUBSET S : g[s] # 0}
  OBVIOUS
<1>3. ASSUME Bad # {} PROVE FALSE
  <2>1. PICK T \in Bad : \A U \in Bad : U \subseteq T => U = T
    BY <1>2, <1>3, SmallestSet
  <2>2. T \in SUBSET S /\ g[T] = Step(g, f, T) /\ g[T] # 0
    BY <1>1, <1>2
  <2>3. T # {}
    BY <2>2 DEF Step
  <2>4. PICK y \in T : y = Pick(T)
    BY <2>3, Picked
  <2>5. T \ {y} \notin Bad /\ T \ {y} \in SUBSET S
    BY <2>1, <2>2
  <2>6. g[T] = f[y] + g[T \ {y}] /\ f[y] = 0
    BY <2>2, <2>3, <2>4 DEF Step
  <2>. QED  BY <1>2, <2>2, <2>5, <2>6
<1>. QED  BY <1>1, <1>2, <1>3

LEMMA SumBelow ==
  ASSUME NEW S, IsFiniteSet(S), NEW f \in [S -> Int], \A y \in S : f[y] <= 0
  PROVE  SumOf(f, S) \in Int /\ SumOf(f, S) <= 0
<1>1. PICK g \in [SUBSET S -> Int] : (\A s \in SUBSET S : g[s] = Step(g, f, s)) /\ SumOf(f, S) = g[S]
  BY SumAdds
<1>2. PICK Bad : Bad = {s \in SUBSET S : ~(g[s] <= 0)}
  OBVIOUS
<1>3. ASSUME Bad # {} PROVE FALSE
  <2>1. PICK T \in Bad : \A U \in Bad : U \subseteq T => U = T
    BY <1>2, <1>3, SmallestSet
  <2>2. T \in SUBSET S /\ g[T] = Step(g, f, T) /\ ~(g[T] <= 0)
    BY <1>1, <1>2
  <2>3. T # {}
    BY <2>2 DEF Step
  <2>4. PICK y \in T : y = Pick(T)
    BY <2>3, Picked
  <2>5. T \ {y} \notin Bad /\ T \ {y} \in SUBSET S
    BY <2>1, <2>2
  <2>6. g[T] = f[y] + g[T \ {y}] /\ f[y] <= 0 /\ g[T \ {y}] <= 0
    BY <1>2, <2>2, <2>3, <2>4, <2>5 DEF Step
  <2>7. f[y] \in Int /\ g[T \ {y}] \in Int
    BY <2>2, <2>5
  <2>. QED  BY <2>2, <2>6, <2>7
<1>. QED  BY <1>1, <1>2, <1>3
-----------------------------------------------------------------------------
(***************************************************************************)
(* Links: what each file links to, and how many links there are.           *)
(***************************************************************************)
Links(s) == {p \in Files \X Entities : p[2] \in s[p[1]]}
Linkers(s, e) == {f \in Files : e \in s[f]}
Entries == [f \in Files |-> file[f].entities]

LEMMA Finite ==
  /\ IsFiniteSet(Files) /\ IsFiniteSet(Ops) /\ IsFiniteSet(Entities) /\ Entities \subseteq Nat
  /\ None \notin Files /\ None \notin Entities /\ None \notin Ops
  /\ \A E \in SUBSET Entities : IsFiniteSet(E) /\ Cardinality(E) \in Nat
  /\ \A F \in SUBSET Files : IsFiniteSet(F) /\ Cardinality(F) \in Nat
<1>1. IsFiniteSet(Files) /\ IsFiniteSet(Ops) /\ IsFiniteSet(Entities) /\ Entities \subseteq Nat
      /\ None \notin Files /\ None \notin Entities /\ None \notin Ops
  BY StoreAssumption DEF StoreAssumption
<1>2. \A E \in SUBSET Entities : IsFiniteSet(E) /\ Cardinality(E) \in Nat
  BY <1>1, FS_Subset, FS_CardinalityType
<1>3. \A F \in SUBSET Files : IsFiniteSet(F) /\ Cardinality(F) \in Nat
  BY <1>1, FS_Subset, FS_CardinalityType
<1>. QED  BY <1>1, <1>2, <1>3

(***************************************************************************)
(* One file links to something else: who links to an entity.               *)
(***************************************************************************)
LEMMA LinkersChange ==
  ASSUME NEW s \in [Files -> SUBSET Entities], NEW t \in [Files -> SUBSET Entities],
         NEW f \in Files, \A g \in Files \ {f} : t[g] = s[g], NEW e \in Entities
  PROVE  Cardinality(Linkers(t, e)) =
           Cardinality(Linkers(s, e)) + (IF e \in t[f] THEN 1 ELSE 0) - (IF e \in s[f] THEN 1 ELSE 0)
<1>1. IsFiniteSet(Linkers(s, e)) /\ Cardinality(Linkers(s, e)) \in Nat
  BY Finite DEF Linkers
<1>2. CASE e \in t[f] /\ e \in s[f]
  <2>1. Linkers(t, e) = Linkers(s, e)
    BY <1>2 DEF Linkers
  <2>. QED  BY <1>1, <1>2, <2>1
<1>3. CASE e \in t[f] /\ e \notin s[f]
  <2>1. Linkers(t, e) = Linkers(s, e) \cup {f} /\ f \notin Linkers(s, e)
    BY <1>3 DEF Linkers
  <2>2. Cardinality(Linkers(t, e)) = Cardinality(Linkers(s, e)) + 1
    BY <1>1, <2>1, FS_AddElement
  <2>. QED  BY <1>1, <1>3, <2>2
<1>4. CASE e \notin t[f] /\ e \in s[f]
  <2>1. Linkers(t, e) = Linkers(s, e) \ {f} /\ f \in Linkers(s, e)
    BY <1>4 DEF Linkers
  <2>3. Cardinality(Linkers(s, e) \ {f}) = Cardinality(Linkers(s, e)) - 1
    BY <1>1, <2>1, FS_RemoveElement
  <2>2. Cardinality(Linkers(t, e)) = Cardinality(Linkers(s, e)) - 1
    BY <2>1, <2>3
  <2>. QED  BY <1>1, <1>4, <2>2
<1>5. CASE e \notin t[f] /\ e \notin s[f]
  <2>1. Linkers(t, e) = Linkers(s, e)
    BY <1>5 DEF Linkers
  <2>. QED  BY <1>1, <1>5, <2>1
<1>. QED  BY <1>2, <1>3, <1>4, <1>5

(***************************************************************************)
(* And how many links there are.                                           *)
(***************************************************************************)
LEMMA LinksOf ==
  ASSUME NEW s \in [Files -> SUBSET Entities], NEW f \in Files
  PROVE  /\ IsFiniteSet(Links(s)) /\ Cardinality(Links(s)) \in Nat
         /\ Cardinality({p \in Links(s) : p[1] # f}) \in Nat
         /\ Cardinality(Links(s)) = Cardinality({p \in Links(s) : p[1] # f}) + Cardinality(s[f])
<1>1. PICK Rest : Rest = {p \in Links(s) : p[1] # f}
  OBVIOUS
<1>2. PICK Own : Own = {f} \X s[f]
  OBVIOUS
<1>3. IsFiniteSet(Files \X Entities)
  BY Finite, FS_Product
<1>4. Links(s) \in SUBSET (Files \X Entities) /\ Rest \in SUBSET (Files \X Entities)
  BY <1>1 DEF Links
<1>5. IsFiniteSet(Links(s)) /\ IsFiniteSet(Rest)
  BY <1>3, <1>4, FS_Subset
<1>6. Cardinality(Links(s)) \in Nat /\ Cardinality(Rest) \in Nat
  BY <1>5, FS_CardinalityType
<1>7. IsFiniteSet(s[f]) /\ Cardinality(s[f]) \in Nat
  BY Finite
<1>8. IsFiniteSet({f}) /\ Cardinality({f}) = 1
  BY FS_Singleton
<1>9. IsFiniteSet(Own) /\ Cardinality(Own) = Cardinality({f}) * Cardinality(s[f])
  BY <1>2, <1>7, <1>8, FS_Product
<1>10. Cardinality(Own) = Cardinality(s[f])
  BY <1>7, <1>8, <1>9
<1>11. Links(s) = Rest \cup Own
  BY <1>1, <1>2 DEF Links
<1>12. Rest \cap Own = {}
  BY <1>1, <1>2
<1>13. Cardinality(Rest \cup Own) = Cardinality(Rest) + Cardinality(Own) - Cardinality(Rest \cap Own)
  BY <1>5, <1>9, FS_Union
<1>14. Cardinality(Rest \cap Own) = 0
  BY <1>12, FS_EmptySet
<1>15. Cardinality(Links(s)) = Cardinality(Rest) + Cardinality(s[f])
  BY <1>6, <1>7, <1>10, <1>11, <1>13, <1>14
<1>. QED  BY <1>1, <1>5, <1>6, <1>15

LEMMA LinksChange ==
  ASSUME NEW s \in [Files -> SUBSET Entities], NEW t \in [Files -> SUBSET Entities],
         NEW f \in Files, \A g \in Files \ {f} : t[g] = s[g]
  PROVE  Cardinality(Links(t)) = Cardinality(Links(s)) + Cardinality(t[f]) - Cardinality(s[f])
<1>0. PICK Rest : Rest = {p \in Links(s) : p[1] # f}
  OBVIOUS
<1>1. {p \in Links(t) : p[1] # f} = Rest
  BY <1>0 DEF Links
<1>2. Cardinality(Links(s)) = Cardinality(Rest) + Cardinality(s[f]) /\ Cardinality(Rest) \in Nat
  BY <1>0, LinksOf
<1>3. Cardinality(Links(t)) = Cardinality(Rest) + Cardinality(t[f])
  BY <1>1, LinksOf
<1>4. Cardinality(s[f]) \in Nat /\ Cardinality(t[f]) \in Nat
  BY Finite
<1>. QED  BY <1>2, <1>3, <1>4

-----------------------------------------------------------------------------
(***************************************************************************)
(* The inductive invariant.                                                *)
(***************************************************************************)
States == {"idle", "lock", "locked", "upload", "complete", "apply", "queue"}
Asked == {"lock", "locked"}
Holding == {"locked", "upload", "complete", "apply"}
Uploading == {"upload", "complete"}

FileRow == [state : {"new", "live", "gone"}, entities : SUBSET Entities,
            primary : Entities \cup {None}]
EntityRow == [exists : BOOLEAN, refs : Int, uploading : BOOLEAN]
Seen == [live : BOOLEAN, entities : SUBSET Entities, primary : Entities \cup {None},
         uploading : SUBSET Entities, abandoned : SUBSET Entities]
Operations == [pc : States, call : Calls \cup {None}, file : Files \cup {None},
               to : Files \cup {None}, seen : Seen, seenUsed : Int,
               version : Entities \cup {None}, diff : Int, stale : SUBSET Entities]
Workers == [pc : {"rest", "delete", "remove", "apply"}, task : SUBSET Entities,
            batch : SUBSET Entities, diff : Int]

Typed ==
  /\ file \in [Files -> FileRow]
  /\ entity \in [Entities -> EntityRow]
  /\ blobs \subseteq born /\ born \subseteq Entities
  /\ used \in Int
  /\ locks \in [Files -> Ops \cup {None}]
  /\ op \in [Ops -> Operations]
  /\ tasks \subseteq SUBSET Entities
  /\ worker \in Workers
  /\ mishaps \subseteq {"outdated", "copied", "resurrected", "unapplied"}
  /\ calls \in 0 .. MaxCalls /\ faults \in 0 .. MaxFaults

(***************************************************************************)
(* What an operation that is under way works on, and the lock it holds.    *)
(***************************************************************************)
Locking ==
  \A o \in Ops :
    /\ op[o].pc \in Asked \cup Holding => op[o].file \in Files /\ Target(o) \in Files
    /\ op[o].pc \in Asked => op[o].call \in {"delete", "copy", "unlink", "revert", "create", "update"}
    /\ op[o].pc \in Uploading => op[o].call # "copy" /\ op[o].version \in born
    /\ op[o].pc \in Holding => locks[Target(o)] = o
    /\ op[o].diff # 0 => op[o].pc \in {"upload", "apply"}

(***************************************************************************)
(* Nothing but a row that was made is linked, and to a live file only.     *)
(***************************************************************************)
Rowed ==
  /\ Rows \subseteq born
  /\ \A f \in Files :
       /\ file[f].entities \subseteq born
       /\ file[f].state # "live" => file[f].entities = {}
  /\ worker.diff # 0 => worker.pc = "apply"

(***************************************************************************)
(* What an operation has read, as far as it stays true.                    *)
(***************************************************************************)
Noted ==
  \A o \in Ops : op[o].pc \in Asked =>
    LET seen == op[o].seen IN
    /\ seen.entities \subseteq born
    /\ seen.abandoned \subseteq seen.uploading
    /\ seen.abandoned \subseteq seen.entities
    /\ op[o].call = "create" => seen = Nothing
    /\ op[o].call # "create" => seen.live
    /\ op[o].call \in {"unlink", "revert"} => op[o].version \in seen.entities \ {seen.primary}
    /\ op[o].call = "revert" => op[o].version \notin seen.uploading
    /\ \A e \in (seen.entities \ seen.uploading) \cap Rows : ~entity[e].uploading

(***************************************************************************)
(* As long as no operation went on with a file read before another one     *)
(* changed it: references are counted, and the file an operation has       *)
(* locked has the entities it read, or what is left of them.               *)
(***************************************************************************)
Counted == \A e \in Rows : entity[e].refs = Cardinality(Linking(e))

HeldRows ==
  \A o \in Ops : op[o].pc = "locked" /\ op[o].call \notin {"copy", "create"} =>
    \A e \in Rows : e \in file[op[o].file].entities <=> e \in op[o].seen.entities

Clean == "outdated" \notin mishaps
CleanInv == Clean => Counted /\ HeldRows

(***************************************************************************)
(* As long as, besides, no copy linked an entity that had lost its last    *)
(* reference: what is taken for recycling stays without links, and a file  *)
(* keeps its versions.                                                     *)
(***************************************************************************)
Dead == {e \in born : \A f \in Files : e \notin file[f].entities}

Doomed ==
  /\ worker.batch \subseteq Dead
  /\ \A t \in tasks : t \subseteq Dead
  /\ \A o \in Ops : op[o].stale \subseteq Dead

Kept ==
  /\ \A f \in Live :
       /\ file[f].entities \subseteq Rows
       /\ \A e \in file[f].entities : entity[e].uploading \/ e \in blobs
       /\ file[f].primary # None =>
            file[f].primary \in file[f].entities /\ ~entity[file[f].primary].uploading
  /\ \A f \in Files : file[f].state = "new" => file[f].primary = None

HeldFile ==
  \A o \in Ops :
    /\ op[o].pc \in Asked =>
         op[o].seen.primary \in (op[o].seen.entities \ op[o].seen.uploading) \cup {None}
    /\ op[o].pc = "locked" /\ op[o].call \notin {"copy", "create"} =>
         LET row == file[op[o].file] IN
         row.state = "live" /\ row.entities = op[o].seen.entities /\ row.primary = op[o].seen.primary
    /\ op[o].pc \in Uploading =>
         LET row == file[op[o].file] IN
         row.state = "live" /\ op[o].version \in row.entities
    /\ op[o].pc = "complete" => op[o].version \in blobs

Safe == mishaps \cap {"outdated", "resurrected"} = {}
SafeInv == Safe => Doomed /\ Kept /\ HeldFile

(***************************************************************************)
(* The storage that is used, once all that is owed has been added.         *)
(***************************************************************************)
Owing == mishaps \subseteq {"copied"} => used + Pending = Linked

Roomy == mishaps = {} => used <= Quota /\ worker.diff <= 0 /\ \A o \in Ops : op[o].diff <= 0

StoreInv == Typed /\ Locking /\ Rowed /\ Noted /\ CleanInv /\ SafeInv

(***************************************************************************)
(* The links of the state are those its rows of files give.                *)
(***************************************************************************)
LEMMA LinksNow ==
  ASSUME Typed, Rowed
  PROVE  /\ Entries \in [Files -> SUBSET Entities]
         /\ \A e : Linking(e) = Linkers(Entries, e)
         /\ Linked = Cardinality(Links(Entries))
<1>1. \A f \in Files : file[f].entities \subseteq Entities /\ (file[f].state # "live" => file[f].entities = {})
  BY DEF Typed, FileRow, Rowed
<1>2. Entries \in [Files -> SUBSET Entities]
  BY <1>1 DEF Entries
<1>3. \A e : Linking(e) = Linkers(Entries, e)
  BY <1>1 DEF Linking, Live, Linkers, Entries
<1>4. {p \in Live \X Entities : p[2] \in file[p[1]].entities} = Links(Entries)
  BY <1>1 DEF Live, Links, Entries
<1>. QED  BY <1>2, <1>3, <1>4 DEF Linked

LEMMA LinksNext ==
  ASSUME Typed', Rowed'
  PROVE  /\ Entries' \in [Files -> SUBSET Entities]
         /\ \A e : Linking(e)' = Linkers(Entries', e)
         /\ Linked' = Cardinality(Links(Entries'))
<1>1. \A f \in Files : file'[f].entities \subseteq Entities /\ (file'[f].state # "live" => file'[f].entities = {})
  BY DEF Typed, FileRow, Rowed
<1>2. Entries' \in [Files -> SUBSET Entities]
  BY <1>1 DEF Entries
<1>3. \A e : Linking(e)' = Linkers(Entries', e)
  BY <1>1 DEF Linking, Live, Linkers, Entries
<1>4. {p \in Live' \X Entities : p[2] \in file'[p[1]].entities} = Links(Entries')
  BY <1>1 DEF Live, Links, Entries
<1>. QED  BY <1>2, <1>3, <1>4 DEF Linked

LEMMA PendingIs ==
  /\ Pending = SumOf(Owed, Ops) + worker.diff
  /\ Pending' = SumOf(Owed', Ops) + worker'.diff
<1>1. Pending = SumOf(Owed, Ops) + worker.diff
  BY Zenon DEF Pending, SumOf
<1>2. Pending' = SumOf(Owed', Ops) + worker'.diff
  BY Zenon DEF Pending, SumOf, MapThenSumSet, MapThenFoldSet
<1>. QED  BY <1>1, <1>2

-----------------------------------------------------------------------------
(***************************************************************************)
(* The shapes of the steps.  An operation goes on without a change of the  *)
(* rows (Quiet); or it writes the row of the file it has locked, and       *)
(* counts references (Wrote).                                              *)
(***************************************************************************)
Aim(x) == IF x.call = "copy" THEN x.to ELSE x.file

Noting(x) ==
  /\ x.seen.entities \subseteq born
  /\ x.seen.abandoned \subseteq x.seen.uploading
  /\ x.seen.abandoned \subseteq x.seen.entities
  /\ x.call = "create" => x.seen = Nothing
  /\ x.call # "create" => x.seen.live
  /\ x.call \in {"unlink", "revert"} => x.version \in x.seen.entities \ {x.seen.primary}
  /\ x.call = "revert" => x.version \notin x.seen.uploading
  /\ \A e \in (x.seen.entities \ x.seen.uploading) \cap Rows : ~entity[e].uploading

Quiet(o, x) ==
  /\ x \in Operations /\ op' = [op EXCEPT ![o] = x]
  /\ UNCHANGED <<file, entity, born, worker>>
  /\ blobs \subseteq blobs' /\ blobs' \subseteq born
  /\ used' \in Int
  /\ locks' \in [Files -> Ops \cup {None}]
  /\ \A p \in Ops \ {o}, f \in Files : locks[f] = p => locks'[f] = p
  /\ tasks' \subseteq tasks \cup {op[o].stale}
  /\ x.stale \subseteq op[o].stale
  /\ mishaps \subseteq mishaps' /\ mishaps' \subseteq mishaps \cup {"outdated", "unapplied"}
  /\ calls' \in 0 .. MaxCalls /\ faults' \in 0 .. MaxFaults
  /\ x.pc \in Asked \cup Holding => x.file \in Files /\ Aim(x) \in Files
  /\ x.pc \in Asked => x.call \in {"delete", "copy", "unlink", "revert", "create", "update"}
  /\ x.pc \in Asked => Noting(x)
  /\ x.pc \in Holding => locks'[Aim(x)] = o
  /\ x.pc \in Uploading => /\ op[o].pc \in Uploading /\ x.file = op[o].file
                           /\ x.version = op[o].version /\ x.call = op[o].call
  /\ x.pc = "complete" => x.version \in blobs'
  /\ x.diff # 0 => x.pc = "apply" /\ x.diff = op[o].diff
  /\ x.pc = "locked" /\ x.call \notin {"copy", "create"} /\ "outdated" \notin mishaps' =>
       /\ file[x.file].state = "live"
       /\ file[x.file].entities = x.seen.entities
       /\ file[x.file].primary = x.seen.primary
  /\ x.pc \in Asked /\ Kept /\ HeldFile =>
       x.seen.primary \in (x.seen.entities \ x.seen.uploading) \cup {None}

LEMMA IdleTyped == Idle \in Operations /\ Idle.pc = "idle" /\ Idle.diff = 0 /\ Idle.stale = {}
BY DEF Idle, Operations, States, Seen, Nothing

(***************************************************************************)
(* A quiet step of an operation keeps the invariant.                       *)
(***************************************************************************)
LEMMA QuietOthers ==
  ASSUME Typed, NEW o \in Ops, NEW x, Quiet(o, x)
  PROVE  /\ op' \in [Ops -> Operations] /\ op'[o] = x
         /\ \A p \in Ops \ {o} : op'[p] = op[p]
BY DEF Typed, Quiet

LEMMA QuietTyped ==
  ASSUME Typed, NEW o \in Ops, NEW x, Quiet(o, x)
  PROVE  Typed'
<1>1. op' \in [Ops -> Operations]
  BY QuietOthers
<1>2. op[o].stale \subseteq Entities
  BY DEF Typed, Operations
<1>3. tasks' \subseteq SUBSET Entities
  BY <1>2 DEF Typed, Quiet
<1>4. /\ file' \in [Files -> FileRow] /\ entity' \in [Entities -> EntityRow]
      /\ blobs' \subseteq born' /\ born' \subseteq Entities
      /\ used' \in Int
      /\ locks' \in [Files -> Ops \cup {None}]
      /\ worker' \in Workers
  BY DEF Typed, Quiet
<1>5. mishaps' \subseteq {"outdated", "copied", "resurrected", "unapplied"}
      /\ calls' \in 0 .. MaxCalls /\ faults' \in 0 .. MaxFaults
  BY DEF Typed, Quiet
<1>. QED  BY <1>1, <1>3, <1>4, <1>5 DEF Typed

LEMMA QuietLocking ==
  ASSUME Typed, Locking, NEW o \in Ops, NEW x, Quiet(o, x)
  PROVE  Locking'
<1>. SUFFICES ASSUME NEW p \in Ops
     PROVE  /\ op'[p].pc \in Asked \cup Holding => op'[p].file \in Files /\ Aim(op'[p]) \in Files
            /\ op'[p].pc \in Asked => op'[p].call \in {"delete", "copy", "unlink", "revert", "create", "update"}
            /\ op'[p].pc \in Uploading => op'[p].call # "copy" /\ op'[p].version \in born'
            /\ op'[p].pc \in Holding => locks'[Aim(op'[p])] = p
            /\ op'[p].diff # 0 => op'[p].pc \in {"upload", "apply"}
  BY Zenon DEF Locking, Target, Aim
<1>1. CASE p = o
  <2>1. op'[p] = x
    BY <1>1, QuietOthers
  <2>2. op[o].pc \in Uploading => op[o].call # "copy" /\ op[o].version \in born
    BY DEF Locking
  <2>. QED  BY <1>1, <2>1, <2>2 DEF Quiet
<1>2. CASE p # o
  <2>1. op'[p] = op[p]
    BY <1>2, QuietOthers
  <2>2. /\ op[p].pc \in Asked \cup Holding => op[p].file \in Files /\ Aim(op[p]) \in Files
        /\ op[p].pc \in Asked => op[p].call \in {"delete", "copy", "unlink", "revert", "create", "update"}
        /\ op[p].pc \in Uploading => op[p].call # "copy" /\ op[p].version \in born
        /\ op[p].pc \in Holding => locks[Aim(op[p])] = p
        /\ op[p].diff # 0 => op[p].pc \in {"upload", "apply"}
    BY Zenon DEF Locking, Target, Aim
  <2>3. \A f \in Files : locks[f] = p => locks'[f] = p
    BY <1>2 DEF Quiet
  <2>4. born' = born
    BY DEF Quiet
  <2>. QED  BY <2>1, <2>2, <2>3, <2>4
<1>. QED  BY <1>1, <1>2

LEMMA QuietRowed ==
  ASSUME Rowed, NEW o, NEW x, Quiet(o, x)
  PROVE  Rowed'
BY DEF Rowed, Rows, Quiet

LEMMA QuietNoted ==
  ASSUME Typed, Noted, NEW o \in Ops, NEW x, Quiet(o, x)
  PROVE  Noted'
<1>. SUFFICES ASSUME NEW p \in Ops, op'[p].pc \in Asked
     PROVE  /\ op'[p].seen.entities \subseteq born
            /\ op'[p].seen.abandoned \subseteq op'[p].seen.uploading
            /\ op'[p].seen.abandoned \subseteq op'[p].seen.entities
            /\ op'[p].call = "create" => op'[p].seen = Nothing
            /\ op'[p].call # "create" => op'[p].seen.live
            /\ op'[p].call \in {"unlink", "revert"} => op'[p].version \in op'[p].seen.entities \ {op'[p].seen.primary}
            /\ op'[p].call = "revert" => op'[p].version \notin op'[p].seen.uploading
            /\ \A e \in (op'[p].seen.entities \ op'[p].seen.uploading) \cap Rows : ~entity[e].uploading
  BY DEF Noted, Rows, Quiet
<1>2. CASE p = o
  <2>1. op'[p] = x
    BY <1>2, QuietOthers
  <2>2. x.pc \in Asked => Noting(x)
    BY DEF Quiet
  <2>. QED  BY <2>1, <2>2 DEF Noting
<1>3. CASE p # o
  <2>1. op'[p] = op[p]
    BY <1>3, QuietOthers
  <2>. QED  BY <2>1 DEF Noted
<1>. QED  BY <1>2, <1>3

LEMMA QuietClean ==
  ASSUME Typed, CleanInv, NEW o \in Ops, NEW x, Quiet(o, x)
  PROVE  CleanInv'
<1>. SUFFICES ASSUME "outdated" \notin mishaps'
     PROVE  Counted' /\ HeldRows'
  BY DEF CleanInv, Clean
<1>1. Counted /\ HeldRows
  BY DEF CleanInv, Clean, Quiet
<1>2. file' = file /\ entity' = entity
  BY DEF Quiet
<1>3. Counted'
  BY <1>1, <1>2 DEF Counted, Rows, Linking, Live
<1>4. HeldRows'
  <2>. SUFFICES ASSUME NEW p \in Ops, op'[p].pc = "locked", op'[p].call \notin {"copy", "create"}, NEW e \in Rows
       PROVE  e \in file[op'[p].file].entities <=> e \in op'[p].seen.entities
    BY <1>2 DEF HeldRows, Rows
  <2>1. CASE p = o
    <3>1. op'[p] = x
      BY <2>1, QuietOthers
    <3>2. x.pc = "locked" /\ x.call \notin {"copy", "create"} => file[x.file].entities = x.seen.entities
      BY DEF Quiet
    <3>. QED  BY <3>1, <3>2
  <2>2. CASE p # o
    BY <1>1, <2>2, QuietOthers DEF HeldRows
  <2>. QED  BY <2>1, <2>2
<1>. QED  BY <1>3, <1>4

LEMMA QuietSafe ==
  ASSUME Typed, SafeInv, NEW o \in Ops, NEW x, Quiet(o, x)
  PROVE  SafeInv'
<1>. SUFFICES ASSUME mishaps' \cap {"outdated", "resurrected"} = {}
     PROVE  Doomed' /\ Kept' /\ HeldFile'
  BY DEF SafeInv, Safe
<1>1. Doomed /\ Kept /\ HeldFile
  BY DEF SafeInv, Safe, Quiet
<1>2. file' = file /\ entity' = entity /\ born' = born /\ worker' = worker /\ blobs \subseteq blobs'
  BY DEF Quiet
<1>3. Kept'
  BY <1>1, <1>2 DEF Kept, Rows, Live
<1>4. Dead' = Dead
  BY <1>2 DEF Dead
<1>5. op[o].stale \subseteq Dead /\ x.stale \subseteq op[o].stale
  BY <1>1 DEF Doomed, Quiet
<1>6. \A t \in tasks' : t \subseteq Dead
  BY <1>1, <1>5 DEF Doomed, Quiet
<1>7. \A p \in Ops : op'[p].stale \subseteq Dead
  BY <1>1, <1>5, QuietOthers DEF Doomed
<1>8. Doomed'
  BY <1>1, <1>2, <1>4, <1>6, <1>7 DEF Doomed
<1>9. HeldFile'
  <2>. SUFFICES ASSUME NEW p \in Ops
       PROVE  /\ op'[p].pc \in Asked =>
                   op'[p].seen.primary \in (op'[p].seen.entities \ op'[p].seen.uploading) \cup {None}
              /\ op'[p].pc = "locked" /\ op'[p].call \notin {"copy", "create"} =>
                   /\ file[op'[p].file].state = "live"
                   /\ file[op'[p].file].entities = op'[p].seen.entities
                   /\ file[op'[p].file].primary = op'[p].seen.primary
              /\ op'[p].pc \in Uploading =>
                   file[op'[p].file].state = "live" /\ op'[p].version \in file[op'[p].file].entities
              /\ op'[p].pc = "complete" => op'[p].version \in blobs'
    BY <1>2 DEF HeldFile
  <2>1. CASE p = o
    <3>1. op'[p] = x /\ "outdated" \notin mishaps'
      BY <2>1, QuietOthers
    <3>2. op[o].pc \in Uploading => file[op[o].file].state = "live" /\ op[o].version \in file[op[o].file].entities
      BY <1>1 DEF HeldFile
    <3>. QED  BY <1>1, <3>1, <3>2 DEF Quiet
  <2>2. CASE p # o
    <3>1. op'[p] = op[p]
      BY <2>2, QuietOthers
    <3>. QED  BY <1>1, <1>2, <3>1 DEF HeldFile
  <2>. QED  BY <2>1, <2>2
<1>. QED  BY <1>3, <1>8, <1>9

LEMMA QuietInv ==
  ASSUME StoreInv, NEW o \in Ops, NEW x, Quiet(o, x)
  PROVE  StoreInv'
BY QuietTyped, QuietLocking, QuietRowed, QuietNoted, QuietClean, QuietSafe DEF StoreInv

-----------------------------------------------------------------------------
(***************************************************************************)
(* The quiet steps.                                                        *)
(***************************************************************************)
LEMMA UnlockedOthers ==
  ASSUME Typed, NEW o \in Ops
  PROVE  /\ Unlocked(o) \in [Files -> Ops \cup {None}]
         /\ \A p \in Ops \ {o}, f \in Files : locks[f] = p => Unlocked(o)[f] = p
BY DEF Typed, Unlocked

(***************************************************************************)
(* An operation ends, or has only its recycling to queue yet.              *)
(***************************************************************************)
LEMMA EndQuiet ==
  ASSUME Typed, NEW o \in Ops, NEW x \in {Idle, [Idle EXCEPT !.pc = "queue", !.stale = op[o].stale]},
         op' = [op EXCEPT ![o] = x], locks' = Unlocked(o) \/ locks' = locks,
         UNCHANGED <<file, entity, born, worker, blobs>>,
         used' \in Int, tasks' \subseteq tasks \cup {op[o].stale},
         mishaps \subseteq mishaps', mishaps' \subseteq mishaps \cup {"outdated", "unapplied"},
         calls' \in 0 .. MaxCalls, faults' \in 0 .. MaxFaults
  PROVE  Quiet(o, x)
<1>1. x \in Operations /\ x.pc \in {"idle", "queue"} /\ x.diff = 0 /\ x.stale \subseteq op[o].stale
  <2>1. op[o].stale \in SUBSET Entities
    BY DEF Typed, Operations
  <2>2. CASE x = Idle
    BY <2>2, IdleTyped
  <2>3. CASE x = [Idle EXCEPT !.pc = "queue", !.stale = op[o].stale]
    <3>1. x = [pc |-> "queue", call |-> None, file |-> None, to |-> None, seen |-> Nothing,
               seenUsed |-> 0, version |-> None, diff |-> 0, stale |-> op[o].stale]
      BY <2>3 DEF Idle
    <3>2. Nothing \in Seen
      BY DEF Nothing, Seen
    <3>. QED  BY <2>1, <3>1, <3>2 DEF Operations, States
  <2>. QED  BY <2>2, <2>3
<1>2. locks' \in [Files -> Ops \cup {None}] /\ \A p \in Ops \ {o}, f \in Files : locks[f] = p => locks'[f] = p
  BY UnlockedOthers DEF Typed
<1>3. x.pc \notin Asked /\ x.pc \notin Holding /\ x.pc \notin Uploading /\ x.pc # "complete" /\ x.pc # "locked"
  BY <1>1 DEF Asked, Holding, Uploading
<1>. QED  BY <1>1, <1>2, <1>3 DEF Quiet, Typed

LEMMA CountersTyped ==
  ASSUME Typed
  PROVE  /\ used \in Int /\ calls \in 0 .. MaxCalls /\ faults \in 0 .. MaxFaults
         /\ \A o \in Ops : op[o].diff \in Int
         /\ (calls < MaxCalls => calls + 1 \in 0 .. MaxCalls)
         /\ (faults < MaxFaults => faults + 1 \in 0 .. MaxFaults)
BY StoreAssumption DEF Typed, Operations, StoreAssumption

LEMMA RefuseQuiet ==
  ASSUME Typed, NEW o \in Ops, Refuse(o), UNCHANGED counters
  PROVE  Quiet(o, Idle)
BY EndQuiet, CountersTyped DEF Refuse, database, recycling, counters

LEMMA AbandonQuiet ==
  ASSUME Typed, NEW o \in Ops, AbandonUpload(o)
  PROVE  Quiet(o, Idle)
BY EndQuiet, CountersTyped DEF AbandonUpload, database, recycling, counters

LEMMA QueueQuiet ==
  ASSUME Typed, NEW o \in Ops, QueueRecycling(o)
  PROVE  Quiet(o, Idle)
BY EndQuiet, CountersTyped DEF QueueRecycling, database, recycling, counters

LEMMA ApplyQuiet ==
  ASSUME Typed, NEW o \in Ops, ApplyStorageDiff(o)
  PROVE  \E x \in {Idle, [Idle EXCEPT !.pc = "queue", !.stale = op[o].stale]} : Quiet(o, x)
<1>1. PICK x \in {Idle, [Idle EXCEPT !.pc = "queue", !.stale = op[o].stale]} : op' = [op EXCEPT ![o] = x]
  BY DEF ApplyStorageDiff
<1>2. used' \in Int
  BY CountersTyped DEF ApplyStorageDiff
<1>3. Quiet(o, x)
  BY <1>1, <1>2, EndQuiet, CountersTyped DEF ApplyStorageDiff, recycling, counters
<1>. QED  BY <1>3

LEMMA ApplyFailsQuiet ==
  ASSUME Typed, NEW o \in Ops, ApplyFails(o)
  PROVE  \E x \in {Idle, [Idle EXCEPT !.pc = "queue", !.stale = op[o].stale]} : Quiet(o, x)
<1>1. PICK x \in {Idle, [Idle EXCEPT !.pc = "queue", !.stale = op[o].stale]} : op' = [op EXCEPT ![o] = x]
  BY DEF ApplyFails
<1>2. faults' \in 0 .. MaxFaults
  BY CountersTyped DEF ApplyFails, Fault
<1>4. mishaps \subseteq mishaps' /\ mishaps' \subseteq mishaps \cup {"unapplied"}
  BY DEF ApplyFails, Mishap
<1>3. Quiet(o, x)
  BY <1>1, <1>2, <1>4, EndQuiet, CountersTyped DEF ApplyFails, database, recycling
<1>. QED  BY <1>3

(***************************************************************************)
(* What is read of a file.                                                 *)
(***************************************************************************)
LEMMA ReadTyped ==
  ASSUME Typed, Rowed, NEW f \in Files
  PROVE  /\ Read(f) \in Seen
         /\ Read(f).live = (file[f].state = "live")
         /\ Read(f).entities = file[f].entities /\ Read(f).primary = file[f].primary
         /\ Read(f).entities \subseteq born
         /\ Read(f).abandoned \subseteq Read(f).uploading /\ Read(f).uploading \subseteq Read(f).entities
         /\ \A e \in Read(f).entities : e \in Read(f).uploading <=> entity[e].uploading
<1>1. file[f].entities \in SUBSET Entities /\ file[f].primary \in Entities \cup {None} /\ file[f].entities \subseteq born
  BY DEF Typed, FileRow, Rowed
<1>. QED  BY <1>1 DEF Read, Seen

LEMMA CallQuiet ==
  ASSUME Typed, Rowed, NEW o \in Ops, NEW c \in Calls, NEW f \in Files, Call(o, c, f)
  PROVE  \E x : Quiet(o, x) /\ x.pc = "lock" /\ x.diff = 0
<1>1. PICK g \in Files, v \in Entities :
        /\ c = "copy" => file[g].state = "new"
        /\ c # "copy" => g = f
        /\ c \in {"unlink", "revert"} => v \in file[f].entities \ {file[f].primary}
        /\ c = "revert" => ~entity[v].uploading
        /\ op' = [op EXCEPT ![o] = [Idle EXCEPT !.pc = "lock", !.call = c, !.file = f,
                                                !.to = g, !.seen = Read(f),
                                                !.seenUsed = used, !.version = v]]
  BY DEF Call
<1>2. PICK x : x = [Idle EXCEPT !.pc = "lock", !.call = c, !.file = f, !.to = g, !.seen = Read(f),
                                !.seenUsed = used, !.version = v]
  OBVIOUS
<1>3. /\ x.pc = "lock" /\ x.call = c /\ x.file = f /\ x.to = g /\ x.seen = Read(f)
      /\ x.version = v /\ x.diff = 0 /\ x.stale = {}
  BY <1>2 DEF Idle
<1>4. x \in Operations
  <2>1. x = [pc |-> "lock", call |-> c, file |-> f, to |-> g, seen |-> Read(f),
             seenUsed |-> used, version |-> v, diff |-> 0, stale |-> {}]
    BY <1>2 DEF Idle
  <2>2. Read(f) \in Seen /\ used \in Int
    BY ReadTyped, CountersTyped
  <2>. QED  BY <2>1, <2>2 DEF Operations, States
<1>5. c \in {"delete", "copy", "unlink", "revert", "create", "update"} /\ c # "create"
  BY StoreAssumption DEF Call, StoreAssumption
<1>6. Noting(x)
  <2>1. file[f].state = "live"
    BY DEF Call
  <2>2. c = "revert" => v \notin Read(f).uploading
    BY <1>1, ReadTyped
  <2>3. c \in {"unlink", "revert"} => v \in Read(f).entities \ {Read(f).primary}
    BY <1>1, ReadTyped
  <2>4. \A e \in (Read(f).entities \ Read(f).uploading) \cap Rows : ~entity[e].uploading
    BY ReadTyped
  <2>. QED  BY <1>3, <1>5, <2>1, <2>2, <2>3, <2>4, ReadTyped DEF Noting
<1>7. Kept => Read(f).primary \in (Read(f).entities \ Read(f).uploading) \cup {None}
  <2>1. f \in Live
    BY DEF Call, Live
  <2>2. SUFFICES ASSUME Kept, file[f].primary # None
        PROVE  file[f].primary \in Read(f).entities \ Read(f).uploading
    BY ReadTyped
  <2>3. file[f].primary \in file[f].entities /\ ~entity[file[f].primary].uploading
    BY <2>1, <2>2 DEF Kept
  <2>. QED  BY <2>3, ReadTyped
<1>8. calls' \in 0 .. MaxCalls /\ UNCHANGED <<file, entity, born, worker, blobs, used, locks, tasks, mishaps, faults>>
  BY CountersTyped DEF Call, database, recycling
<1>9. x.pc \in Asked /\ x.pc \notin Holding /\ x.pc \notin Uploading /\ Aim(x) \in Files
  BY <1>3 DEF Asked, Holding, Uploading, Aim
<1>10. op' = [op EXCEPT ![o] = x]
  BY <1>1, <1>2
<1>11. /\ blobs \subseteq born /\ used \in Int /\ locks \in [Files -> Ops \cup {None}]
       /\ faults' \in 0 .. MaxFaults
  BY CountersTyped DEF Typed, Call
<1>12. Quiet(o, x)
  BY <1>3, <1>4, <1>5, <1>6, <1>7, <1>8, <1>9, <1>10, <1>11 DEF Quiet
<1>. QED  BY <1>3, <1>12

LEMMA CallCreateQuiet ==
  ASSUME Typed, Rowed, NEW o \in Ops, NEW f \in Files, CallCreate(o, f)
  PROVE  \E x : Quiet(o, x) /\ x.pc = "lock" /\ x.diff = 0
<1>2. PICK x : x = [Idle EXCEPT !.pc = "lock", !.call = "create", !.file = f, !.seenUsed = used]
  OBVIOUS
<1>3. x.pc = "lock" /\ x.call = "create" /\ x.file = f /\ x.seen = Nothing /\ x.diff = 0 /\ x.stale = {}
  BY <1>2 DEF Idle
<1>4. x \in Operations
  <2>1. "create" \in Calls
    BY DEF CallCreate
  <2>2. x = [pc |-> "lock", call |-> "create", file |-> f, to |-> None, seen |-> Nothing,
             seenUsed |-> used, version |-> None, diff |-> 0, stale |-> {}]
    BY <1>2 DEF Idle
  <2>3. Nothing \in Seen /\ used \in Int
    BY CountersTyped DEF Nothing, Seen
  <2>. QED  BY <2>1, <2>2, <2>3 DEF Operations, States
<1>5. Noting(x) /\ x.seen.primary = None
  BY <1>3 DEF Noting, Nothing
<1>8. calls' \in 0 .. MaxCalls /\ UNCHANGED <<file, entity, born, worker, blobs, used, locks, tasks, mishaps, faults>>
  BY CountersTyped DEF CallCreate, database, recycling
<1>9. x.pc \in Asked /\ x.pc \notin Holding /\ x.pc \notin Uploading /\ Aim(x) \in Files
  BY <1>3 DEF Asked, Holding, Uploading, Aim
<1>10. op' = [op EXCEPT ![o] = x]
  BY <1>2 DEF CallCreate
<1>. QED  BY <1>3, <1>4, <1>5, <1>8, <1>9, <1>10, CountersTyped DEF Quiet, Typed

LEMMA AcquireQuiet ==
  ASSUME Typed, Rowed, Locking, Noted, NEW o \in Ops, Acquire(o)
  PROVE  \E x : Quiet(o, x) /\ x.pc \in {"idle", "locked"} /\ x.diff = 0
<1>1. op[o].pc = "lock" /\ UNCHANGED <<file, entity, born, worker, blobs, used, tasks, calls, faults>>
  BY DEF Acquire, At, database, recycling, counters
<1>2. CASE locks[Target(o)] # None
  <2>1. op' = [op EXCEPT ![o] = Idle] /\ UNCHANGED <<locks, mishaps>>
    BY <1>2 DEF Acquire
  <2>2. Quiet(o, Idle)
    BY <1>1, <2>1, EndQuiet, CountersTyped
  <2>. QED  BY <2>2, IdleTyped
<1>3. CASE locks[Target(o)] = None
  <2>1. /\ locks' = [locks EXCEPT ![Target(o)] = o]
        /\ op' = [op EXCEPT ![o].pc = "locked"]
        /\ mishaps' = IF Outdated(o) THEN mishaps \cup {"outdated"} ELSE mishaps
    BY <1>3 DEF Acquire, Mishap
  <2>2. op[o] \in Operations
    BY DEF Typed
  <2>3. PICK x : x = [op[o] EXCEPT !.pc = "locked"]
    OBVIOUS
  <2>4. /\ x.pc = "locked" /\ x.call = op[o].call /\ x.file = op[o].file /\ x.to = op[o].to
        /\ x.seen = op[o].seen /\ x.version = op[o].version /\ x.diff = op[o].diff /\ x.stale = op[o].stale
    BY <2>2, <2>3 DEF Operations
  <2>5. x \in Operations /\ op' = [op EXCEPT ![o] = x]
    BY <2>1, <2>2, <2>3 DEF Operations, States
  <2>6. Aim(x) = Target(o)
    BY <2>4 DEF Aim, Target
  <2>7. op[o].file \in Files /\ Target(o) \in Files /\ op[o].diff = 0
        /\ op[o].call \in {"delete", "copy", "unlink", "revert", "create", "update"}
    BY <1>1 DEF Locking, Asked
  <2>8. Noting(x)
    <3>1. Noting(op[o])
      BY <1>1 DEF Noted, Noting, Asked
    <3>. QED  BY <2>4, <3>1 DEF Noting
  <2>9. locks' \in [Files -> Ops \cup {None}] /\ locks'[Target(o)] = o
        /\ \A p \in Ops \ {o}, f \in Files : locks[f] = p => locks'[f] = p
    BY <1>3, <2>1, <2>7, Finite DEF Typed
  <2>10. op[o].call \notin {"copy", "create"} /\ "outdated" \notin mishaps' =>
           /\ file[op[o].file].state = "live"
           /\ file[op[o].file].entities = op[o].seen.entities
           /\ file[op[o].file].primary = op[o].seen.primary
    <3>1. SUFFICES ASSUME op[o].call \notin {"copy", "create"}, "outdated" \notin mishaps'
          PROVE  /\ file[op[o].file].state = "live"
                 /\ file[op[o].file].entities = op[o].seen.entities
                 /\ file[op[o].file].primary = op[o].seen.primary
      OBVIOUS
    <3>2. op[o].seen = Read(op[o].file)
      BY <2>1, <3>1 DEF Outdated
    <3>3. op[o].seen.live
      BY <1>1, <3>1 DEF Noted, Asked
    <3>. QED  BY <2>7, <3>2, <3>3, ReadTyped
  <2>11. HeldFile => op[o].seen.primary \in (op[o].seen.entities \ op[o].seen.uploading) \cup {None}
    BY <1>1 DEF HeldFile, Asked
  <2>12. x.pc \in Asked /\ x.pc \notin Uploading /\ x.pc # "complete"
    BY <2>4 DEF Asked, Uploading
  <2>13. mishaps \subseteq mishaps' /\ mishaps' \subseteq mishaps \cup {"outdated", "unapplied"}
    BY <2>1
  <2>14. /\ x.pc \in Asked \cup Holding => x.file \in Files /\ Aim(x) \in Files
         /\ x.pc \in Asked => x.call \in {"delete", "copy", "unlink", "revert", "create", "update"}
         /\ x.pc \in Holding => locks'[Aim(x)] = o
         /\ x.diff = 0
    BY <2>4, <2>6, <2>7, <2>9
  <2>15. x.pc = "locked" /\ x.call \notin {"copy", "create"} /\ "outdated" \notin mishaps' =>
           /\ file[x.file].state = "live"
           /\ file[x.file].entities = x.seen.entities
           /\ file[x.file].primary = x.seen.primary
    BY <2>4, <2>10
  <2>16. x.pc \in Asked /\ Kept /\ HeldFile =>
           x.seen.primary \in (x.seen.entities \ x.seen.uploading) \cup {None}
    BY <2>4, <2>11
  <2>17. Quiet(o, x)
    BY <1>1, <2>4, <2>5, <2>8, <2>9, <2>12, <2>13, <2>14, <2>15, <2>16, CountersTyped DEF Quiet, Typed
  <2>. QED  BY <2>4, <2>14, <2>17
<1>. QED  BY <1>2, <1>3

LEMMA UploadQuiet ==
  ASSUME Typed, Locking, Rowed, NEW o \in Ops, UploadBlob(o)
  PROVE  \E x : Quiet(o, x) /\ x.pc = "complete" /\ x.diff = 0
<1>1. op[o].pc = "upload" /\ UNCHANGED <<file, entity, born, worker, tasks, locks, mishaps, calls, faults>>
      /\ blobs' = blobs \cup {op[o].version} /\ used' = used + op[o].diff
  BY DEF UploadBlob, At, counters
<1>2. op[o] \in Operations
  BY DEF Typed
<1>3. PICK x : x = [op[o] EXCEPT !.pc = "complete", !.diff = 0]
  OBVIOUS
<1>4. /\ x.pc = "complete" /\ x.call = op[o].call /\ x.file = op[o].file /\ x.to = op[o].to
      /\ x.seen = op[o].seen /\ x.version = op[o].version /\ x.diff = 0 /\ x.stale = op[o].stale
  BY <1>2, <1>3 DEF Operations
<1>5. x \in Operations /\ op' = [op EXCEPT ![o] = x]
  <2>3. x = [pc |-> "complete", call |-> op[o].call, file |-> op[o].file, to |-> op[o].to,
             seen |-> op[o].seen, seenUsed |-> op[o].seenUsed, version |-> op[o].version,
             diff |-> 0, stale |-> op[o].stale]
    BY <1>2, <1>3 DEF Operations
  <2>1. x \in Operations
    BY <1>2, <2>3 DEF Operations, States
  <2>2. op' = [op EXCEPT ![o] = x]
    BY <1>3 DEF UploadBlob
  <2>. QED  BY <2>1, <2>2
<1>6. op[o].file \in Files /\ Target(o) \in Files /\ locks[Target(o)] = o
      /\ op[o].version \in born
  BY <1>1 DEF Locking, Holding, Uploading
<1>7. Aim(x) = Target(o)
  BY <1>4 DEF Aim, Target
<1>8. x.pc \notin Asked /\ x.pc \in Holding /\ x.pc \in Uploading /\ op[o].pc \in Uploading /\ x.pc # "locked"
  BY <1>1, <1>4 DEF Asked, Holding, Uploading
<1>9. used' \in Int
  BY <1>1, CountersTyped
<1>10. blobs \subseteq blobs' /\ blobs' \subseteq born /\ x.version \in blobs'
  BY <1>1, <1>4, <1>6 DEF Typed
<1>11. Quiet(o, x)
  BY <1>1, <1>4, <1>5, <1>6, <1>7, <1>8, <1>9, <1>10, CountersTyped DEF Quiet, Typed
<1>. QED  BY <1>4, <1>11

-----------------------------------------------------------------------------
(***************************************************************************)
(* A step that writes the row y of the file the operation has locked.      *)
(***************************************************************************)
One(b) == IF b THEN 1 ELSE 0

Recounted(f, y) ==
  \A e \in Rows : entity'[e].refs = entity[e].refs + One(e \in y.entities) - One(e \in file[f].entities)

Wrote(o, x, y) ==
  /\ op[o].pc \in {"locked", "complete"}
  /\ x \in Operations /\ op' = [op EXCEPT ![o] = x]
  /\ x.pc \in {"apply", "upload"}
  /\ x.call = op[o].call /\ x.file = op[o].file /\ x.to = op[o].to
  /\ x.pc = "upload" => x.call # "copy" /\ x.version \in y.entities
  /\ y \in FileRow /\ file' = [file EXCEPT ![Target(o)] = y]
  /\ y.state # "live" => y.entities = {}
  /\ y.entities \subseteq born'
  /\ born \subseteq born' /\ born' \subseteq Entities
  /\ entity' \in [Entities -> EntityRow]
  /\ \A e \in Rows : entity'[e].exists /\ (entity'[e].uploading => entity[e].uploading)
  /\ \A e \in Entities \ Rows : entity'[e].exists =>
       e \in born' \ born /\ e \in y.entities /\ entity'[e].refs = 1
  /\ Counted /\ HeldRows => Recounted(Target(o), y)
  /\ UNCHANGED <<blobs, tasks, worker, locks, calls, faults>>
  /\ used' \in Int
  /\ mishaps \subseteq mishaps' /\ mishaps' \subseteq mishaps \cup {"copied", "resurrected"}

(* What the step may do as long as recycling is safe.                      *)
WroteSafe(o, x, y) ==
  /\ \A e \in x.stale : e \in Dead \/ (e \in Rows /\ entity'[e].refs <= 0)
  /\ \A e \in y.entities : e \notin Dead /\ e \in Rows' /\ (entity'[e].uploading \/ e \in blobs)
  /\ y.state = "live" /\ y.primary # None => y.primary \in y.entities /\ ~entity'[y.primary].uploading
  /\ \A e \in Rows : entity[e].uploading /\ ~entity'[e].uploading => e \in blobs
  /\ x.pc = "upload" => y.state = "live"
  /\ y.state = "new" => y.primary = None

LEMMA WroteOthers ==
  ASSUME Typed, Locking, NEW o \in Ops, NEW x, NEW y, Wrote(o, x, y)
  PROVE  /\ op' \in [Ops -> Operations] /\ op'[o] = x
         /\ \A p \in Ops \ {o} : op'[p] = op[p]
         /\ Target(o) \in Files /\ locks[Target(o)] = o /\ Aim(x) = Target(o)
         /\ file' \in [Files -> FileRow] /\ file'[Target(o)] = y
         /\ \A g \in Files \ {Target(o)} : file'[g] = file[g]
         /\ \A p \in Ops \ {o} : op[p].pc \in Holding => Target(p) \in Files \ {Target(o)}
<1>1. op' \in [Ops -> Operations] /\ op'[o] = x /\ \A p \in Ops \ {o} : op'[p] = op[p]
  BY DEF Typed, Wrote
<1>2. op[o].pc \in Holding
  BY DEF Wrote, Holding
<1>3. Target(o) \in Files /\ locks[Target(o)] = o
  BY <1>2 DEF Locking
<1>4. Aim(x) = Target(o)
  BY DEF Wrote, Aim, Target
<1>5. file' \in [Files -> FileRow] /\ file'[Target(o)] = y
      /\ \A g \in Files \ {Target(o)} : file'[g] = file[g]
  BY <1>3 DEF Typed, Wrote
<1>6. \A p \in Ops \ {o} : op[p].pc \in Holding => Target(p) \in Files \ {Target(o)}
  BY <1>3 DEF Locking
<1>. QED  BY <1>1, <1>3, <1>4, <1>5, <1>6

LEMMA WroteTyped ==
  ASSUME Typed, Locking, NEW o \in Ops, NEW x, NEW y, Wrote(o, x, y)
  PROVE  Typed'
<1>1. op' \in [Ops -> Operations] /\ file' \in [Files -> FileRow]
  BY WroteOthers
<1>2. blobs' \subseteq born' /\ born' \subseteq Entities /\ used' \in Int
      /\ entity' \in [Entities -> EntityRow] /\ locks' \in [Files -> Ops \cup {None}]
      /\ tasks' \subseteq SUBSET Entities /\ worker' \in Workers
      /\ calls' \in 0 .. MaxCalls /\ faults' \in 0 .. MaxFaults
  BY DEF Typed, Wrote
<1>3. mishaps' \subseteq {"outdated", "copied", "resurrected", "unapplied"}
  BY DEF Typed, Wrote
<1>. QED  BY <1>1, <1>2, <1>3 DEF Typed

LEMMA WroteLocking ==
  ASSUME Typed, Locking, NEW o \in Ops, NEW x, NEW y, Wrote(o, x, y)
  PROVE  Locking'
<1>. SUFFICES ASSUME NEW p \in Ops
     PROVE  /\ op'[p].pc \in Asked \cup Holding => op'[p].file \in Files /\ Aim(op'[p]) \in Files
            /\ op'[p].pc \in Asked => op'[p].call \in {"delete", "copy", "unlink", "revert", "create", "update"}
            /\ op'[p].pc \in Uploading => op'[p].call # "copy" /\ op'[p].version \in born'
            /\ op'[p].pc \in Holding => locks'[Aim(op'[p])] = p
            /\ op'[p].diff # 0 => op'[p].pc \in {"upload", "apply"}
  BY Zenon DEF Locking, Target, Aim
<1>1. CASE p = o
  <2>1. op'[p] = x /\ Aim(x) \in Files /\ locks[Aim(x)] = o
    BY <1>1, WroteOthers
  <2>2. op[o].pc \in Holding
    BY DEF Wrote, Holding
  <2>3. op[o].file \in Files
    BY <2>2 DEF Locking
  <2>4. x.pc \in {"apply", "upload"} /\ x.file \in Files /\ locks' = locks
        /\ (x.pc = "upload" => x.call # "copy" /\ x.version \in born')
    BY <2>3 DEF Wrote
  <2>. QED  BY <1>1, <2>1, <2>4 DEF Asked, Uploading
<1>2. CASE p # o
  <2>1. op'[p] = op[p]
    BY <1>2, WroteOthers
  <2>2. /\ op[p].pc \in Asked \cup Holding => op[p].file \in Files /\ Aim(op[p]) \in Files
        /\ op[p].pc \in Asked => op[p].call \in {"delete", "copy", "unlink", "revert", "create", "update"}
        /\ op[p].pc \in Uploading => op[p].call # "copy" /\ op[p].version \in born
        /\ op[p].pc \in Holding => locks[Aim(op[p])] = p
        /\ op[p].diff # 0 => op[p].pc \in {"upload", "apply"}
    BY Zenon DEF Locking, Target, Aim
  <2>3. locks' = locks /\ born \subseteq born'
    BY DEF Wrote
  <2>. QED  BY <2>1, <2>2, <2>3
<1>. QED  BY <1>1, <1>2

LEMMA WroteRowed ==
  ASSUME Typed, Locking, Rowed, NEW o \in Ops, NEW x, NEW y, Wrote(o, x, y)
  PROVE  Rowed'
<1>1. Rows' \subseteq born'
  BY DEF Wrote, Rowed, Rows
<1>2. \A f \in Files : file'[f].entities \subseteq born' /\ (file'[f].state # "live" => file'[f].entities = {})
  BY WroteOthers DEF Wrote, Rowed
<1>3. worker'.diff # 0 => worker'.pc = "apply"
  BY DEF Wrote, Rowed
<1>. QED  BY <1>1, <1>2, <1>3 DEF Rowed

LEMMA WroteNoted ==
  ASSUME Typed, Locking, Noted, NEW o \in Ops, NEW x, NEW y, Wrote(o, x, y)
  PROVE  Noted'
<1>. SUFFICES ASSUME NEW p \in Ops, op'[p].pc \in Asked
     PROVE  /\ op'[p].seen.entities \subseteq born'
            /\ op'[p].seen.abandoned \subseteq op'[p].seen.uploading
            /\ op'[p].seen.abandoned \subseteq op'[p].seen.entities
            /\ op'[p].call = "create" => op'[p].seen = Nothing
            /\ op'[p].call # "create" => op'[p].seen.live
            /\ op'[p].call \in {"unlink", "revert"} => op'[p].version \in op'[p].seen.entities \ {op'[p].seen.primary}
            /\ op'[p].call = "revert" => op'[p].version \notin op'[p].seen.uploading
            /\ \A e \in (op'[p].seen.entities \ op'[p].seen.uploading) \cap Rows' : ~entity'[e].uploading
  BY DEF Noted
<1>1. p # o
  <2>1. x.pc \notin Asked
    BY DEF Wrote, Asked
  <2>2. op'[o] = x
    BY WroteOthers
  <2>. QED  BY <2>1, <2>2
<1>2. op'[p] = op[p]
  BY <1>1, WroteOthers
<1>3. /\ op[p].seen.entities \subseteq born
      /\ op[p].seen.abandoned \subseteq op[p].seen.uploading
      /\ op[p].seen.abandoned \subseteq op[p].seen.entities
      /\ op[p].call = "create" => op[p].seen = Nothing
      /\ op[p].call # "create" => op[p].seen.live
      /\ op[p].call \in {"unlink", "revert"} => op[p].version \in op[p].seen.entities \ {op[p].seen.primary}
      /\ op[p].call = "revert" => op[p].version \notin op[p].seen.uploading
      /\ \A e \in (op[p].seen.entities \ op[p].seen.uploading) \cap Rows : ~entity[e].uploading
  BY <1>2 DEF Noted
<1>4. \A e \in (op[p].seen.entities \ op[p].seen.uploading) \cap Rows' : ~entity'[e].uploading
  <2>. SUFFICES ASSUME NEW e \in Rows', e \in op[p].seen.entities, e \notin op[p].seen.uploading
       PROVE  ~entity'[e].uploading
    OBVIOUS
  <2>1. e \in born /\ e \in Entities /\ entity'[e].exists
    BY <1>3 DEF Rows
  <2>2. e \in Rows
    BY <2>1 DEF Wrote
  <2>. QED  BY <1>3, <2>2 DEF Wrote
<1>5. born \subseteq born'
  BY DEF Wrote
<1>. QED  BY <1>2, <1>3, <1>4, <1>5

LEMMA WroteClean ==
  ASSUME StoreInv, Typed', Rowed', NEW o \in Ops, NEW x, NEW y, Wrote(o, x, y)
  PROVE  CleanInv'
<1>. SUFFICES ASSUME "outdated" \notin mishaps'
     PROVE  Counted' /\ HeldRows'
  BY DEF CleanInv, Clean
<1>1. Counted /\ HeldRows /\ Typed /\ Locking /\ Rowed /\ Noted
  BY DEF CleanInv, Clean, Wrote, StoreInv
<1>2. Counted'
  <2>. SUFFICES ASSUME NEW e \in Rows'
       PROVE  entity'[e].refs = Cardinality(Linking(e)')
    BY DEF Counted
  <2>. DEFINE f == Target(o)
  <2>1. f \in Files /\ file'[f] = y /\ \A g \in Files \ {f} : file'[g] = file[g]
    BY <1>1, WroteOthers
  <2>2. Entries \in [Files -> SUBSET Entities] /\ Entries' \in [Files -> SUBSET Entities]
        /\ Linking(e) = Linkers(Entries, e) /\ Linking(e)' = Linkers(Entries', e)
    BY <1>1, LinksNow, LinksNext
  <2>3. Entries[f] = file[f].entities /\ Entries'[f] = y.entities
        /\ \A g \in Files \ {f} : Entries'[g] = Entries[g]
    BY <2>1 DEF Entries
  <2>4. e \in Entities /\ entity'[e].exists
    BY DEF Rows
  <2>5. Cardinality(Linkers(Entries', e)) =
          Cardinality(Linkers(Entries, e)) + One(e \in Entries'[f]) - One(e \in Entries[f])
    <3>. HIDE DEF f
    <3>1. Cardinality(Linkers(Entries', e)) = Cardinality(Linkers(Entries, e))
            + (IF e \in Entries'[f] THEN 1 ELSE 0) - (IF e \in Entries[f] THEN 1 ELSE 0)
      BY <2>1, <2>2, <2>3, <2>4, LinkersChange
    <3>. QED  BY <3>1 DEF One
  <2>6. CASE e \in Rows
    <3>1. entity[e].refs = Cardinality(Linkers(Entries, e))
      BY <1>1, <2>2, <2>6 DEF Counted
    <3>2. entity'[e].refs = entity[e].refs + One(e \in y.entities) - One(e \in file[f].entities)
      BY <1>1, <2>6 DEF Wrote, Recounted
    <3>. QED  BY <2>2, <2>3, <2>5, <3>1, <3>2
  <2>7. CASE e \notin Rows
    <3>1. e \in born' \ born /\ e \in y.entities /\ entity'[e].refs = 1
      BY <2>4, <2>7 DEF Wrote
    <3>2. \A g \in Files : e \notin file[g].entities
      BY <1>1, <3>1 DEF Rowed
    <3>3. Linkers(Entries, e) = {}
      BY <3>2 DEF Linkers, Entries
    <3>4. Cardinality(Linkers(Entries, e)) = 0
      BY <3>3, FS_EmptySet
    <3>5. e \notin Entries[f] /\ e \in Entries'[f]
      BY <2>1, <2>3, <3>1, <3>2
    <3>6. One(e \in Entries'[f]) = 1 /\ One(e \in Entries[f]) = 0
      BY <3>5 DEF One
    <3>. QED  BY <2>2, <2>5, <3>1, <3>4, <3>6
  <2>. QED  BY <2>6, <2>7
<1>3. HeldRows'
  <2>. SUFFICES ASSUME NEW p \in Ops, op'[p].pc = "locked", op'[p].call \notin {"copy", "create"}, NEW e \in Rows'
       PROVE  e \in file'[op'[p].file].entities <=> e \in op'[p].seen.entities
    BY DEF HeldRows
  <2>0. op'[o] = x /\ x.pc # "locked"
    <3>1. x.pc # "locked"
      BY DEF Wrote
    <3>. QED  BY <1>1, <3>1, WroteOthers
  <2>1. p # o
    BY <2>0
  <2>2. op'[p] = op[p]
    BY <1>1, <2>1, WroteOthers
  <2>3. Target(p) = op[p].file /\ op[p].pc \in Holding
    BY <2>2 DEF Target, Holding
  <2>4. op[p].file \in Files /\ file'[op[p].file] = file[op[p].file]
    BY <1>1, <2>1, <2>3, WroteOthers
  <2>5. CASE e \in Rows
    BY <1>1, <2>2, <2>4, <2>5 DEF HeldRows
  <2>6. CASE e \notin Rows
    <3>1. e \notin born
      BY <2>6 DEF Wrote, Rows
    <3>2. op[p].seen.entities \subseteq born
      BY <1>1, <2>2 DEF Noted, Asked
    <3>3. file[op[p].file].entities \subseteq born
      BY <1>1, <2>4 DEF Rowed
    <3>. QED  BY <2>2, <2>4, <3>1, <3>2, <3>3
  <2>. QED  BY <2>5, <2>6
<1>. QED  BY <1>2, <1>3

LEMMA WroteSafely ==
  ASSUME StoreInv, Typed', Rowed', CleanInv', NEW o \in Ops, NEW x, NEW y, Wrote(o, x, y),
         Safe' /\ Counted /\ HeldRows /\ Doomed /\ Kept /\ HeldFile => WroteSafe(o, x, y)
  PROVE  SafeInv'
<1>. SUFFICES ASSUME Safe'
     PROVE  Doomed' /\ Kept' /\ HeldFile'
  BY DEF SafeInv
<1>1. Safe /\ Clean /\ Clean'
  BY DEF Safe, Clean, Wrote
<1>2. Typed /\ Locking /\ Rowed /\ Noted /\ Counted /\ HeldRows /\ Doomed /\ Kept /\ HeldFile /\ Counted'
  BY <1>1 DEF StoreInv, CleanInv, SafeInv
<1>3. WroteSafe(o, x, y)
  BY <1>2
<1>4. PICK f : f = Target(o)
  OBVIOUS
<1>5. f \in Files /\ file'[f] = y /\ \A g \in Files \ {f} : file'[g] = file[g]
  BY <1>2, <1>4, WroteOthers
<1>6. Dead \subseteq Dead'
  BY <1>3, <1>5 DEF Dead, Wrote, WroteSafe
<1>7. x.stale \subseteq Dead'
  <2>. SUFFICES ASSUME NEW e \in x.stale, e \notin Dead
       PROVE  e \in Dead'
    BY <1>6
  <2>1. e \in Rows /\ entity'[e].refs <= 0 /\ e \in Entities
    BY <1>3 DEF WroteSafe, Rows
  <2>2. e \in Rows'
    BY <2>1 DEF Wrote, Rows
  <2>3. Cardinality(Linkers(Entries', e)) <= 0 /\ Entries' \in [Files -> SUBSET Entities]
    BY <1>2, <2>1, <2>2, LinksNext DEF Counted
  <2>4. Linkers(Entries', e) \in SUBSET Files
    BY DEF Linkers
  <2>5. IsFiniteSet(Linkers(Entries', e)) /\ Cardinality(Linkers(Entries', e)) \in Nat
    BY <2>4, Finite
  <2>6. Linkers(Entries', e) = {}
    BY <2>3, <2>5, FS_EmptySet
  <2>7. \A g \in Files : e \notin file'[g].entities
    BY <2>6 DEF Linkers, Entries
  <2>8. e \in born'
    BY <2>2 DEF Rowed
  <2>. QED  BY <2>7, <2>8 DEF Dead
<1>8. Doomed'
  <2>1. worker' = worker /\ tasks' = tasks
    BY DEF Wrote
  <2>2. \A p \in Ops : op'[p].stale \subseteq Dead'
    BY <1>2, <1>6, <1>7, WroteOthers DEF Doomed
  <2>. QED  BY <1>2, <1>6, <2>1, <2>2 DEF Doomed
<1>11. \A g \in Files : file'[g].state = "new" => file'[g].primary = None
  BY <1>2, <1>3, <1>5 DEF Kept, WroteSafe
<1>9. Kept'
  <2>. SUFFICES ASSUME NEW g \in Live'
       PROVE  /\ file'[g].entities \subseteq Rows'
              /\ \A e \in file'[g].entities : entity'[e].uploading \/ e \in blobs'
              /\ file'[g].primary # None =>
                   file'[g].primary \in file'[g].entities /\ ~entity'[file'[g].primary].uploading
    BY <1>11 DEF Kept
  <2>1. blobs' = blobs /\ g \in Files /\ file'[g].state = "live"
    BY DEF Wrote, Live
  <2>2. CASE g = f
    <3>1. file'[g] = y
      BY <1>5, <2>2
    <3>. QED  BY <1>3, <2>1, <3>1 DEF WroteSafe
  <2>3. CASE g # f
    <3>1. file'[g] = file[g] /\ g \in Live
      BY <1>5, <2>1, <2>3 DEF Live
    <3>2. /\ file[g].entities \subseteq Rows
          /\ \A e \in file[g].entities : entity[e].uploading \/ e \in blobs
          /\ file[g].primary # None =>
               file[g].primary \in file[g].entities /\ ~entity[file[g].primary].uploading
      BY <1>2, <3>1 DEF Kept
    <3>3. \A e \in Rows : e \in Rows' /\ (entity'[e].uploading => entity[e].uploading)
      BY DEF Wrote, Rows
    <3>4. \A e \in Rows : entity[e].uploading /\ ~entity'[e].uploading => e \in blobs
      BY <1>3 DEF WroteSafe
    <3>. QED  BY <2>1, <3>1, <3>2, <3>3, <3>4
  <2>. QED  BY <2>2, <2>3
<1>10. HeldFile'
  <2>. SUFFICES ASSUME NEW p \in Ops
       PROVE  /\ op'[p].pc \in Asked =>
                   op'[p].seen.primary \in (op'[p].seen.entities \ op'[p].seen.uploading) \cup {None}
              /\ op'[p].pc = "locked" /\ op'[p].call \notin {"copy", "create"} =>
                   /\ file'[op'[p].file].state = "live"
                   /\ file'[op'[p].file].entities = op'[p].seen.entities
                   /\ file'[op'[p].file].primary = op'[p].seen.primary
              /\ op'[p].pc \in Uploading =>
                   file'[op'[p].file].state = "live" /\ op'[p].version \in file'[op'[p].file].entities
              /\ op'[p].pc = "complete" => op'[p].version \in blobs'
    BY DEF HeldFile
  <2>1. CASE p = o
    <3>0. x.pc \in {"apply", "upload"}
      BY <1>2 DEF Wrote
    <3>1. op'[p] = x /\ x.pc \in {"apply", "upload"} /\ x.pc \notin Asked
      BY <1>2, <2>1, <3>0, WroteOthers DEF Asked
    <3>2. x.pc = "upload" => x.file = f /\ x.version \in y.entities /\ y.state = "live"
      BY <1>3, <1>4 DEF Wrote, WroteSafe, Target
    <3>. QED  BY <1>5, <3>1, <3>2 DEF Uploading
  <2>2. CASE p # o
    <3>1. op'[p] = op[p] /\ blobs' = blobs
      BY <1>2, <2>2, WroteOthers DEF Wrote
    <3>2. /\ op[p].pc = "locked" /\ op[p].call \notin {"copy", "create"} => Target(p) = op[p].file /\ op[p].pc \in Holding
          /\ op[p].pc \in Uploading => Target(p) = op[p].file /\ op[p].pc \in Holding
      BY <1>2 DEF Target, Holding, Uploading, Locking
    <3>3. op[p].pc \in Holding => file'[Target(p)] = file[Target(p)]
      BY <1>2, <1>4, <1>5, <2>2, WroteOthers
    <3>. QED  BY <1>2, <3>1, <3>2, <3>3 DEF HeldFile
  <2>. QED  BY <2>1, <2>2
<1>. QED  BY <1>8, <1>9, <1>10

LEMMA WroteInv ==
  ASSUME StoreInv, NEW o \in Ops, NEW x, NEW y, Wrote(o, x, y),
         Safe' /\ Counted /\ HeldRows /\ Doomed /\ Kept /\ HeldFile => WroteSafe(o, x, y)
  PROVE  StoreInv'
<1>1. Typed /\ Locking /\ Rowed /\ Noted
  BY DEF StoreInv
<1>2. Typed' /\ Locking' /\ Rowed' /\ Noted'
  BY <1>1, WroteTyped, WroteLocking, WroteRowed, WroteNoted
<1>3. CleanInv'
  BY <1>2, WroteClean
<1>4. SafeInv'
  BY <1>2, <1>3, WroteSafely
<1>. QED  BY <1>2, <1>3, <1>4 DEF StoreInv

-----------------------------------------------------------------------------
(***************************************************************************)
(* The transactions.                                                       *)
(***************************************************************************)
LEMMA Referred ==
  ASSUME Typed, NEW E, NEW n \in Int
  PROVE  /\ Refer(E, n) \in [Entities -> EntityRow]
         /\ \A e \in Entities : /\ Refer(E, n)[e].exists = entity[e].exists
                                /\ Refer(E, n)[e].uploading = entity[e].uploading
                                /\ Refer(E, n)[e].refs = IF e \in E \cap Rows THEN entity[e].refs + n
                                                         ELSE entity[e].refs
<1>. SUFFICES ASSUME NEW e \in Entities
     PROVE  /\ Refer(E, n)[e] \in EntityRow
            /\ Refer(E, n)[e].exists = entity[e].exists
            /\ Refer(E, n)[e].uploading = entity[e].uploading
            /\ Refer(E, n)[e].refs = IF e \in E \cap Rows THEN entity[e].refs + n
                                     ELSE entity[e].refs
  BY DEF Refer
<1>1. entity[e] \in EntityRow
  BY DEF Typed
<1>2. CASE e \in E \cap Rows
  <2>1. PICK z : z = [entity[e] EXCEPT !.refs = @ + n]
    OBVIOUS
  <2>2. Refer(E, n)[e] = z
    BY <1>2, <2>1 DEF Refer
  <2>. QED  BY <1>1, <1>2, <2>1, <2>2 DEF EntityRow
<1>3. CASE e \notin E \cap Rows
  <2>1. Refer(E, n)[e] = entity[e]
    BY <1>3 DEF Refer
  <2>. QED  BY <1>1, <1>3, <2>1
<1>. QED  BY <1>2, <1>3

LEMMA CommittedTo ==
  ASSUME Typed, NEW o \in Ops, NEW d \in Int, NEW E \in SUBSET Entities, Committed(o, d, E)
  PROVE  \E x \in Operations : /\ op' = [op EXCEPT ![o] = x]
                               /\ x.pc = "apply" /\ x.diff = d /\ x.stale = E
                               /\ x.call = op[o].call /\ x.file = op[o].file /\ x.to = op[o].to
<1>1. PICK x : x = [op[o] EXCEPT !.pc = "apply", !.diff = d, !.stale = E]
  OBVIOUS
<1>2. op[o] \in Operations
  BY DEF Typed
<1>3. x = [pc |-> "apply", call |-> op[o].call, file |-> op[o].file, to |-> op[o].to,
           seen |-> op[o].seen, seenUsed |-> op[o].seenUsed, version |-> op[o].version,
           diff |-> d, stale |-> E]
  BY <1>1, <1>2 DEF Operations
<1>4. x \in Operations
  BY <1>2, <1>3 DEF Operations, States
<1>5. op' = [op EXCEPT ![o] = x]
  BY <1>1 DEF Committed
<1>. QED  BY <1>3, <1>4, <1>5

(* What every transaction starts from.                                     *)
LEMMA LockedFile ==
  ASSUME StoreInv, NEW o \in Ops, op[o].pc \in {"locked", "complete"}
  PROVE  /\ Typed /\ Locking /\ Rowed /\ Noted
         /\ op[o] \in Operations /\ op[o].seen \in Seen
         /\ Target(o) \in Files /\ file[Target(o)] \in FileRow /\ op[o].file \in Files
         /\ file[Target(o)].entities \subseteq born
         /\ file[Target(o)].state # "live" => file[Target(o)].entities = {}
         /\ born \subseteq Entities /\ Rows \subseteq born /\ entity \in [Entities -> EntityRow]
         /\ used \in Int
<1>1. Typed /\ Locking /\ Rowed /\ Noted
  BY DEF StoreInv
<1>2. op[o].pc \in Holding
  BY DEF Holding
<1>3. Target(o) \in Files /\ op[o].file \in Files
  BY <1>1, <1>2 DEF Locking
<1>4. op[o] \in Operations /\ op[o].seen \in Seen
  BY <1>1 DEF Typed, Operations
<1>. QED  BY <1>1, <1>3, <1>4 DEF Typed, Rowed

(* Counting down the references of what is in E.                           *)
LEMMA CountedDown ==
  ASSUME Typed, Rowed, NEW E, NEW f \in Files, NEW y \in FileRow,
         \A e \in Rows : e \in E <=> e \in file[f].entities /\ e \notin y.entities,
         y.entities \subseteq file[f].entities,
         NEW row, row = Refer(E, -1)
  PROVE  \A e \in Rows : row[e].refs = entity[e].refs + One(e \in y.entities) - One(e \in file[f].entities)
<1>. SUFFICES ASSUME NEW e \in Rows
     PROVE  row[e].refs = entity[e].refs + One(e \in y.entities) - One(e \in file[f].entities)
  OBVIOUS
<1>1. -1 \in Int /\ e \in Entities
  BY DEF Rows
<1>2. row[e].refs = IF e \in E \cap Rows THEN entity[e].refs + (-1) ELSE entity[e].refs
  BY <1>1, Referred
<1>3. entity[e].refs \in Int
  BY <1>1 DEF Typed, EntityRow
<1>4. CASE e \in E
  <2>1. One(e \in y.entities) = 0 /\ One(e \in file[f].entities) = 1
    BY <1>4 DEF One
  <2>. QED  BY <1>2, <1>3, <1>4, <2>1
<1>5. CASE e \notin E
  <2>1. e \in y.entities <=> e \in file[f].entities
    BY <1>5
  <2>2. One(e \in y.entities) \in Int /\ One(e \in y.entities) = One(e \in file[f].entities)
    BY <2>1 DEF One
  <2>. QED  BY <1>2, <1>3, <1>5, <2>2
<1>. QED  BY <1>4, <1>5

LEMMA DeleteWrites ==
  ASSUME StoreInv, NEW o \in Ops, DeleteTx(o)
  PROVE  \E x, y : /\ Wrote(o, x, y)
                   /\ Safe' /\ Counted /\ HeldRows /\ Doomed /\ Kept /\ HeldFile => WroteSafe(o, x, y)
                   /\ x.diff = -Cardinality(op[o].seen.entities) /\ used' = used /\ mishaps' = mishaps
                   /\ y.entities = {} /\ op[o].call = "delete" /\ op[o].pc = "locked"
<1>1. op[o].pc = "locked" /\ op[o].call = "delete" /\ Target(o) = op[o].file
  BY DEF DeleteTx, At, Target
<1>2. PICK seen : seen = op[o].seen.entities
  OBVIOUS
<1>3. seen \in SUBSET Entities /\ Cardinality(seen) \in Nat
  BY <1>1, <1>2, LockedFile, Finite DEF Seen
<1>4. PICK f : f = op[o].file
  OBVIOUS
<1>5. PICK stale : stale = {e \in seen \cap Rows : entity'[e].refs <= 0}
  OBVIOUS
<1>6. entity' = Refer(seen, -1) /\ Committed(o, -Cardinality(seen), stale)
      /\ file' = [file EXCEPT ![f] = [NoFile EXCEPT !.state = "gone"]]
      /\ UNCHANGED <<used, born, blobs, tasks, worker, locks, mishaps, calls, faults>>
  BY <1>2, <1>4, <1>5 DEF DeleteTx, recycling, counters
<1>7. -Cardinality(seen) \in Int /\ stale \in SUBSET Entities
  BY <1>3, <1>5
<1>8. PICK x \in Operations :
        /\ op' = [op EXCEPT ![o] = x]
        /\ x.pc = "apply" /\ x.diff = -Cardinality(seen) /\ x.stale = stale
        /\ x.call = op[o].call /\ x.file = op[o].file /\ x.to = op[o].to
  BY <1>1, <1>6, <1>7, CommittedTo, LockedFile
<1>9. PICK y : y = [NoFile EXCEPT !.state = "gone"]
  OBVIOUS
<1>10. y.state = "gone" /\ y.entities = {} /\ y.primary = None /\ y \in FileRow
  BY <1>9 DEF NoFile, FileRow
<1>11. entity' \in [Entities -> EntityRow]
       /\ \A e \in Entities : entity'[e].exists = entity[e].exists /\ entity'[e].uploading = entity[e].uploading
  BY <1>1, <1>6, Referred, LockedFile
<1>12. HeldRows => Recounted(f, y)
  <2>. SUFFICES ASSUME HeldRows
       PROVE  Recounted(f, y)
    OBVIOUS
  <2>1. \A e \in Rows : e \in seen <=> e \in file[f].entities /\ e \notin y.entities
    BY <1>1, <1>2, <1>4, <1>10 DEF HeldRows
  <2>. QED  BY <1>1, <1>4, <1>6, <1>10, <2>1, LockedFile, CountedDown DEF Recounted
<1>13. Wrote(o, x, y)
  <2>1. \A e \in Rows : entity'[e].exists /\ (entity'[e].uploading => entity[e].uploading)
    BY <1>11 DEF Rows
  <2>2. \A e \in Entities \ Rows : ~entity'[e].exists
    BY <1>11 DEF Rows
  <2>. QED  BY <1>1, <1>4, <1>6, <1>8, <1>9, <1>10, <1>11, <1>12, <2>1, <2>2, LockedFile DEF Wrote
<1>14. WroteSafe(o, x, y)
  <2>1. \A e \in x.stale : e \in Rows /\ entity'[e].refs <= 0
    BY <1>5, <1>8
  <2>2. \A e \in Rows : ~(entity[e].uploading /\ ~entity'[e].uploading)
    BY <1>11 DEF Rows
  <2>. QED  BY <1>8, <1>10, <2>1, <2>2 DEF WroteSafe
<1>. QED  BY <1>1, <1>2, <1>6, <1>8, <1>10, <1>13, <1>14

LEMMA CopyWrites ==
  ASSUME StoreInv, NEW o \in Ops, CopyTx(o)
  PROVE  \/ Quiet(o, Idle) /\ op[o].pc = "locked" /\ used' = used /\ op' = [op EXCEPT ![o] = Idle]
         \/ \E x, y : /\ Wrote(o, x, y)
                      /\ Safe' /\ Counted /\ HeldRows /\ Doomed /\ Kept /\ HeldFile => WroteSafe(o, x, y)
                      /\ used' = used /\ "copied" \in mishaps' /\ op[o].pc = "locked"
                      /\ Safe' => /\ file[Target(o)].entities = {}
                                  /\ x.diff = Cardinality(y.entities)
<1>1. op[o].pc = "locked" /\ op[o].call = "copy" /\ Target(o) = op[o].to /\ UNCHANGED counters
  BY DEF CopyTx, At, Target
<1>2. CASE Refuse(o)
  <2>1. op[o].pc = "locked" /\ Quiet(o, Idle)
    BY <1>1, <1>2, RefuseQuiet, LockedFile
  <2>. QED  BY <1>2, <2>1 DEF Refuse, database
<1>3. CASE ~Refuse(o)
  <2>1. PICK seen : seen = op[o].seen
    OBVIOUS
  <2>2. PICK linked : linked = seen.entities \ seen.uploading
    OBVIOUS
  <2>3. linked \in SUBSET Entities /\ Cardinality(linked) \in Nat /\ {} \in SUBSET Entities
        /\ seen.primary \in Entities \cup {None}
    BY <1>1, <2>1, <2>2, LockedFile, Finite DEF Seen
  <2>4. PICK f : f = op[o].to
    OBVIOUS
  <2>5. /\ file[f].state = "new"
        /\ file' = [file EXCEPT ![f] = [state |-> "live", entities |-> linked \cap Rows, primary |-> seen.primary]]
        /\ entity' = Refer(linked, 1)
        /\ Committed(o, Cardinality(linked), {})
        /\ mishaps' = mishaps \cup {"copied"} \cup (IF linked \subseteq Rows \ Stale THEN {} ELSE {"resurrected"})
        /\ UNCHANGED <<used, born, blobs, tasks, worker, locks, calls, faults>>
    BY <1>1, <1>3, <2>1, <2>2, <2>4 DEF CopyTx, LinkedOnce, recycling, counters
  <2>6. PICK x \in Operations :
          /\ op' = [op EXCEPT ![o] = x]
          /\ x.pc = "apply" /\ x.diff = Cardinality(linked) /\ x.stale = {}
          /\ x.call = op[o].call /\ x.file = op[o].file /\ x.to = op[o].to
    BY <1>1, <2>3, <2>5, CommittedTo, LockedFile
  <2>7. PICK y : y = [state |-> "live", entities |-> linked \cap Rows, primary |-> seen.primary]
    OBVIOUS
  <2>8. y.state = "live" /\ y.entities = linked \cap Rows /\ y.primary = seen.primary /\ y \in FileRow
    BY <2>3, <2>7 DEF FileRow
  <2>9. 1 \in Int /\ Typed /\ Rowed /\ Noted
    BY <1>1, LockedFile
  <2>10. entity' \in [Entities -> EntityRow]
         /\ \A e \in Entities : /\ entity'[e].exists = entity[e].exists /\ entity'[e].uploading = entity[e].uploading
                                /\ entity'[e].refs = IF e \in linked \cap Rows THEN entity[e].refs + 1
                                                     ELSE entity[e].refs
    BY <2>5, <2>9, Referred
  <2>11. file[f].entities = {} /\ f \in Files
    BY <1>1, <2>4, <2>5, LockedFile
  <2>12. Recounted(f, y)
    <3>. SUFFICES ASSUME NEW e \in Rows
         PROVE  entity'[e].refs = entity[e].refs + One(e \in y.entities) - One(e \in file[f].entities)
      BY DEF Recounted
    <3>1. e \in Entities /\ entity[e].refs \in Int
      BY <2>9 DEF Rows, Typed, EntityRow
    <3>2. One(e \in file[f].entities) = 0
      BY <2>11 DEF One
    <3>3. CASE e \in linked
      <4>1. One(e \in y.entities) = 1
        BY <2>8, <3>3 DEF One
      <4>. QED  BY <2>10, <3>1, <3>2, <3>3, <4>1
    <3>4. CASE e \notin linked
      <4>1. One(e \in y.entities) = 0
        BY <2>8, <3>4 DEF One
      <4>. QED  BY <2>10, <3>1, <3>2, <3>4, <4>1
    <3>. QED  BY <3>3, <3>4
  <2>13. Wrote(o, x, y)
    <3>1. \A e \in Rows : entity'[e].exists /\ (entity'[e].uploading => entity[e].uploading)
      BY <2>10 DEF Rows
    <3>2. \A e \in Entities \ Rows : ~entity'[e].exists
      BY <2>10 DEF Rows
    <3>3. y.entities \subseteq born'
      BY <2>5, <2>8, <2>9 DEF Rowed
    <3>4. mishaps \subseteq mishaps' /\ mishaps' \subseteq mishaps \cup {"copied", "resurrected"}
      BY <2>5
    <3>. QED  BY <1>1, <2>4, <2>5, <2>6, <2>7, <2>8, <2>10, <2>12, <3>1, <3>2, <3>3, <3>4, LockedFile DEF Wrote
  <2>14. Safe' => linked \subseteq Rows \ Stale
    BY <2>5 DEF Safe
  <2>15. Safe' /\ Counted /\ HeldRows /\ Doomed /\ Kept /\ HeldFile => WroteSafe(o, x, y)
    <3>. SUFFICES ASSUME Safe', Counted, Kept, HeldFile
         PROVE  WroteSafe(o, x, y)
      OBVIOUS
    <3>1. \A e \in y.entities : e \notin Dead /\ e \in Rows' /\ (entity'[e].uploading \/ e \in blobs)
      <4>. SUFFICES ASSUME NEW e \in y.entities
           PROVE  e \notin Dead /\ e \in Rows' /\ (entity'[e].uploading \/ e \in blobs)
        OBVIOUS
      <4>1. e \in linked /\ e \in Rows /\ e \notin Stale /\ e \in Entities
        BY <2>8, <2>14 DEF Rows
      <4>2. ~(entity[e].refs <= 0) /\ entity[e].refs = Cardinality(Linkers(Entries, e))
        BY <2>9, <4>1, LinksNow DEF Stale, Counted
      <4>3. Linkers(Entries, e) # {}
        BY <4>2, FS_EmptySet
      <4>4. PICK g \in Files : e \in file[g].entities
        BY <4>3 DEF Linkers, Entries
      <4>5. g \in Live
        BY <2>9, <4>4 DEF Rowed, Live
      <4>6. entity[e].uploading \/ e \in blobs
        BY <4>4, <4>5 DEF Kept
      <4>. QED  BY <2>10, <4>1, <4>4, <4>6 DEF Dead, Rows
    <3>2. y.primary # None => y.primary \in y.entities /\ ~entity'[y.primary].uploading
      <4>. SUFFICES ASSUME y.primary # None
           PROVE  y.primary \in y.entities /\ ~entity'[y.primary].uploading
        OBVIOUS
      <4>1. y.primary \in linked
        BY <1>1, <2>1, <2>2, <2>8 DEF HeldFile, Asked
      <4>2. y.primary \in y.entities /\ y.primary \in Rows /\ y.primary \in Entities
        BY <2>8, <2>14, <4>1 DEF Rows
      <4>3. ~entity[y.primary].uploading
        BY <1>1, <2>1, <2>2, <2>9, <4>1, <4>2 DEF Noted, Asked
      <4>. QED  BY <2>10, <4>2, <4>3
    <3>3. \A e \in Rows : ~(entity[e].uploading /\ ~entity'[e].uploading)
      BY <2>10 DEF Rows
    <3>. QED  BY <2>6, <2>8, <3>1, <3>2, <3>3 DEF WroteSafe
  <2>16. Safe' => x.diff = Cardinality(y.entities)
    <3>1. Safe' => y.entities = linked
      BY <2>8, <2>14
    <3>. QED  BY <2>6, <3>1
  <2>17. file[Target(o)].entities = {} /\ "copied" \in mishaps' /\ used' = used
    BY <1>1, <2>4, <2>5, <2>11
  <2>. QED  BY <1>1, <2>13, <2>15, <2>16, <2>17
<1>. QED  BY <1>2, <1>3

LEMMA UnlinkWrites ==
  ASSUME StoreInv, NEW o \in Ops, UnlinkTx(o)
  PROVE  \/ Quiet(o, Idle) /\ op[o].pc = "locked" /\ used' = used /\ op' = [op EXCEPT ![o] = Idle] /\ mishaps' = mishaps
         \/ \E x, y : /\ Wrote(o, x, y)
                      /\ Safe' /\ Counted /\ HeldRows /\ Doomed /\ Kept /\ HeldFile => WroteSafe(o, x, y)
                      /\ x.diff = -1 /\ used' = used /\ mishaps' = mishaps /\ op[o].pc = "locked"
                      /\ HeldRows => op[o].version \in file[Target(o)].entities
                      /\ y.entities = file[Target(o)].entities \ {op[o].version}
<1>1. op[o].pc = "locked" /\ op[o].call = "unlink" /\ Target(o) = op[o].file /\ UNCHANGED counters
  BY DEF UnlinkTx, At, Target
<1>2. CASE Refuse(o)
  <2>1. Quiet(o, Idle)
    BY <1>1, <1>2, RefuseQuiet, LockedFile
  <2>. QED  BY <1>1, <1>2, <2>1 DEF Refuse, database
<1>3. CASE ~Refuse(o)
  <2>1. PICK f, v : f = op[o].file /\ v = op[o].version
    OBVIOUS
  <2>2. v \in Rows /\ entity' = Refer({v}, -1) /\ file' = [file EXCEPT ![f].entities = @ \ {v}]
        /\ Committed(o, -1, {})
        /\ UNCHANGED <<used, born, blobs, tasks, worker, locks, mishaps, calls, faults>>
    BY <1>1, <1>3, <2>1 DEF UnlinkTx, recycling, counters
  <2>3. -1 \in Int /\ {} \in SUBSET Entities /\ Typed /\ Rowed /\ Noted /\ v \in Entities
    BY <1>1, <2>2, LockedFile DEF Rows
  <2>4. PICK x \in Operations :
          /\ op' = [op EXCEPT ![o] = x]
          /\ x.pc = "apply" /\ x.diff = -1 /\ x.stale = {}
          /\ x.call = op[o].call /\ x.file = op[o].file /\ x.to = op[o].to
    BY <2>2, <2>3, CommittedTo
  <2>5. PICK y : y = [file[f] EXCEPT !.entities = @ \ {v}]
    OBVIOUS
  <2>6. file[f] \in FileRow /\ f \in Files
    BY <1>1, <2>1, LockedFile
  <2>7. y \in FileRow /\ y.state = file[f].state /\ y.entities = file[f].entities \ {v}
        /\ y.primary = file[f].primary /\ file' = [file EXCEPT ![f] = y]
    <3>1. y \in FileRow /\ y.state = file[f].state /\ y.entities = file[f].entities \ {v}
          /\ y.primary = file[f].primary
      BY <2>5, <2>6 DEF FileRow
    <3>2. file' = [file EXCEPT ![f] = y]
      BY <2>2, <2>5
    <3>. QED  BY <3>1, <3>2
  <2>8. entity' \in [Entities -> EntityRow]
        /\ \A e \in Entities : entity'[e].exists = entity[e].exists /\ entity'[e].uploading = entity[e].uploading
    BY <2>2, <2>3, Referred
  <2>9. v \in op[o].seen.entities /\ v # op[o].seen.primary
    BY <1>1, <2>1, <2>3 DEF Noted, Asked
  <2>10. HeldRows => v \in file[f].entities
    BY <1>1, <2>1, <2>2, <2>9 DEF HeldRows
  <2>11. HeldRows => Recounted(f, y)
    <3>. SUFFICES ASSUME HeldRows PROVE Recounted(f, y)
      OBVIOUS
    <3>1. \A e \in Rows : e \in {v} <=> e \in file[f].entities /\ e \notin y.entities
      BY <2>7, <2>10
    <3>2. y.entities \subseteq file[f].entities
      BY <2>7
    <3>. QED  BY <2>2, <2>3, <2>6, <2>7, <3>1, <3>2, CountedDown DEF Recounted
  <2>12. Wrote(o, x, y)
    <3>1. \A e \in Rows : entity'[e].exists /\ (entity'[e].uploading => entity[e].uploading)
      BY <2>8 DEF Rows
    <3>2. \A e \in Entities \ Rows : ~entity'[e].exists
      BY <2>8 DEF Rows
    <3>3. y.entities \subseteq born' /\ (y.state # "live" => y.entities = {})
      BY <1>1, <2>1, <2>2, <2>7, LockedFile
    <3>. QED  BY <1>1, <2>1, <2>2, <2>4, <2>7, <2>8, <2>11, <3>1, <3>2, <3>3, LockedFile DEF Wrote
  <2>13. Counted /\ HeldRows /\ Doomed /\ Kept /\ HeldFile => WroteSafe(o, x, y)
    <3>. SUFFICES ASSUME Kept, HeldFile
         PROVE  WroteSafe(o, x, y)
      OBVIOUS
    <3>1. file[f].state = "live" /\ file[f].primary = op[o].seen.primary /\ f \in Live
      BY <1>1, <2>1, <2>6 DEF HeldFile, Live
    <3>2. /\ file[f].entities \subseteq Rows
          /\ \A e \in file[f].entities : entity[e].uploading \/ e \in blobs
          /\ file[f].primary # None =>
               file[f].primary \in file[f].entities /\ ~entity[file[f].primary].uploading
      BY <3>1 DEF Kept
    <3>3. \A e \in Rows : e \in Rows' /\ e \in Entities /\ entity'[e].uploading = entity[e].uploading
      BY <2>8 DEF Rows
    <3>4. \A e \in y.entities : e \notin Dead
      BY <2>6, <2>7 DEF Dead
    <3>5. y.primary # None => y.primary \in y.entities /\ ~entity'[y.primary].uploading
      BY <2>7, <2>9, <3>1, <3>2, <3>3
    <3>. QED  BY <2>4, <2>7, <3>1, <3>2, <3>3, <3>4, <3>5 DEF WroteSafe
  <2>. QED  BY <1>1, <2>1, <2>2, <2>4, <2>7, <2>10, <2>12, <2>13
<1>. QED  BY <1>2, <1>3

LEMMA RevertWrites ==
  ASSUME StoreInv, NEW o \in Ops, RevertTx(o)
  PROVE  \/ Quiet(o, Idle) /\ op[o].pc = "locked" /\ used' = used /\ op' = [op EXCEPT ![o] = Idle] /\ mishaps' = mishaps
         \/ \E x, y : /\ Wrote(o, x, y)
                      /\ Safe' /\ Counted /\ HeldRows /\ Doomed /\ Kept /\ HeldFile => WroteSafe(o, x, y)
                      /\ x.diff = 0 /\ used' = used /\ mishaps' = mishaps /\ op[o].pc = "locked"
                      /\ y.entities = file[Target(o)].entities
<1>1. op[o].pc = "locked" /\ op[o].call = "revert" /\ Target(o) = op[o].file /\ UNCHANGED counters
  BY DEF RevertTx, At, Target
<1>2. CASE Refuse(o)
  <2>1. Quiet(o, Idle)
    BY <1>1, <1>2, RefuseQuiet, LockedFile
  <2>. QED  BY <1>1, <1>2, <2>1 DEF Refuse, database
<1>3. CASE ~Refuse(o)
  <2>1. PICK f, v : f = op[o].file /\ v = op[o].version
    OBVIOUS
  <2>2. file[f].state = "live" /\ file' = [file EXCEPT ![f].primary = v]
        /\ Committed(o, 0, {})
        /\ UNCHANGED <<entity, used, born, blobs, tasks, worker, locks, mishaps, calls, faults>>
    BY <1>1, <1>3, <2>1 DEF RevertTx, recycling, counters
  <2>3. 0 \in Int /\ {} \in SUBSET Entities /\ Typed /\ Rowed /\ Noted
    BY <1>1, LockedFile
  <2>4. PICK x \in Operations :
          /\ op' = [op EXCEPT ![o] = x]
          /\ x.pc = "apply" /\ x.diff = 0 /\ x.stale = {}
          /\ x.call = op[o].call /\ x.file = op[o].file /\ x.to = op[o].to
    BY <2>2, <2>3, CommittedTo
  <2>5. PICK y : y = [file[f] EXCEPT !.primary = v]
    OBVIOUS
  <2>6. file[f] \in FileRow /\ f \in Files
    BY <1>1, <2>1, LockedFile
  <2>9. v \in op[o].seen.entities /\ v \notin op[o].seen.uploading /\ op[o].seen.entities \subseteq born
    BY <1>1, <2>1, <2>3 DEF Noted, Asked
  <2>7. y \in FileRow /\ y.state = file[f].state /\ y.entities = file[f].entities
        /\ y.primary = v /\ file' = [file EXCEPT ![f] = y]
    <3>0. v \in Entities
      BY <2>3, <2>9 DEF Typed
    <3>1. y \in FileRow /\ y.state = file[f].state /\ y.entities = file[f].entities
          /\ y.primary = v
      BY <2>5, <2>6, <3>0 DEF FileRow
    <3>2. file' = [file EXCEPT ![f] = y]
      BY <2>2, <2>5
    <3>. QED  BY <3>1, <3>2
  <2>11. Recounted(f, y)
    <3>. SUFFICES ASSUME NEW e \in Rows
         PROVE  entity[e].refs = entity[e].refs + One(e \in file[f].entities) - One(e \in file[f].entities)
      BY <2>2, <2>7 DEF Recounted
    <3>1. entity[e].refs \in Int /\ One(e \in file[f].entities) \in Int
      BY <2>3 DEF Typed, EntityRow, Rows, One
    <3>. QED  BY <3>1
  <2>12. Wrote(o, x, y)
    <3>1. \A e \in Rows : entity'[e].exists /\ (entity'[e].uploading => entity[e].uploading)
      BY <2>2 DEF Rows
    <3>2. \A e \in Entities \ Rows : ~entity'[e].exists
      BY <2>2 DEF Rows
    <3>3. y.entities \subseteq born' /\ (y.state # "live" => y.entities = {})
      BY <1>1, <2>1, <2>2, <2>7, LockedFile
    <3>. QED  BY <1>1, <2>1, <2>2, <2>4, <2>7, <2>11, <3>1, <3>2, <3>3, LockedFile DEF Wrote
  <2>13. Kept /\ HeldFile => WroteSafe(o, x, y)
    <3>. SUFFICES ASSUME Kept, HeldFile
         PROVE  WroteSafe(o, x, y)
      OBVIOUS
    <3>1. file[f].entities = op[o].seen.entities /\ f \in Live
      BY <1>1, <2>1, <2>2, <2>6 DEF HeldFile, Live
    <3>2. /\ file[f].entities \subseteq Rows
          /\ \A e \in file[f].entities : entity[e].uploading \/ e \in blobs
      BY <3>1 DEF Kept
    <3>3. Rows' = Rows /\ entity' = entity
      BY <2>2 DEF Rows
    <3>4. \A e \in y.entities : e \notin Dead
      BY <2>6, <2>7 DEF Dead
    <3>5. v \in file[f].entities /\ v \in Rows
      BY <2>9, <3>1, <3>2
    <3>6. ~entity[v].uploading
      BY <1>1, <2>3, <2>9, <3>5 DEF Noted, Asked
    <3>. QED  BY <2>2, <2>4, <2>7, <3>2, <3>3, <3>4, <3>5, <3>6 DEF WroteSafe
  <2>. QED  BY <1>1, <2>1, <2>2, <2>4, <2>7, <2>12, <2>13
<1>. QED  BY <1>2, <1>3

LEMMA PrepareWrites ==
  ASSUME StoreInv, NEW o \in Ops, PrepareTx(o)
  PROVE  \/ Quiet(o, Idle) /\ op[o].pc = "locked" /\ used' = used /\ op' = [op EXCEPT ![o] = Idle] /\ mishaps' = mishaps
         \/ \E x, y, e, rest :
              /\ Wrote(o, x, y)
              /\ Safe' /\ Counted /\ HeldRows /\ Doomed /\ Kept /\ HeldFile => WroteSafe(o, x, y)
              /\ rest \in SUBSET Entities /\ x.diff = -Cardinality(rest)
              /\ used' = used + 1 /\ used + 1 <= Quota /\ mishaps' = mishaps /\ op[o].pc = "locked"
              /\ y.entities = (file[Target(o)].entities \ rest) \cup {e}
              /\ e \notin file[Target(o)].entities
              /\ HeldFile => rest \subseteq file[Target(o)].entities
<1>1. op[o].pc = "locked" /\ op[o].call \in {"create", "update"} /\ Target(o) = op[o].file /\ UNCHANGED counters
  BY DEF PrepareTx, At, Target
<1>2. CASE Refuse(o)
  <2>1. Quiet(o, Idle)
    BY <1>1, <1>2, RefuseQuiet, LockedFile
  <2>. QED  BY <1>1, <1>2, <2>1 DEF Refuse, database
<1>3. CASE ~Refuse(o)
  <2>1. PICK f, rest, e : f = op[o].file /\ rest = op[o].seen.abandoned /\ e = Min(Entities \ born)
    OBVIOUS
  <2>2. /\ used + 1 <= Quota
        /\ file[f].state = IF op[o].call = "create" THEN "new" ELSE "live"
        /\ Entities \ born # {}
        /\ Insert(f, e, rest) /\ used' = used + 1
        /\ op' = [op EXCEPT ![o].pc = "upload", ![o].version = e, ![o].diff = -Cardinality(rest)]
        /\ UNCHANGED <<blobs, tasks, worker, locks, mishaps, calls, faults>>
    BY <1>1, <1>3, <2>1 DEF PrepareTx, Reserved, recycling, counters
  <2>3. Typed /\ Rowed /\ Noted /\ op[o] \in Operations /\ file[f] \in FileRow /\ f \in Files
    BY <1>1, <2>1, LockedFile
  <2>4. e \in Entities /\ e \notin born
    <3>1. IsFiniteSet(Entities \ born) /\ Entities \ born \subseteq Nat
      BY Finite, FS_Difference
    <3>. QED  BY <2>1, <2>2, <3>1, LeastExists
  <2>5. rest \in SUBSET Entities /\ Cardinality(rest) \in Nat /\ -Cardinality(rest) \in Int
    BY <1>1, <2>1, LockedFile, Finite DEF Seen
  <2>6. PICK x : x = [op[o] EXCEPT !.pc = "upload", !.version = e, !.diff = -Cardinality(rest)]
    OBVIOUS
  <2>7. x = [pc |-> "upload", call |-> op[o].call, file |-> op[o].file, to |-> op[o].to,
             seen |-> op[o].seen, seenUsed |-> op[o].seenUsed, version |-> e,
             diff |-> -Cardinality(rest), stale |-> op[o].stale]
    BY <2>3, <2>6 DEF Operations
  <2>8. x \in Operations /\ op' = [op EXCEPT ![o] = x]
    <3>1. x \in Operations
      BY <2>3, <2>4, <2>5, <2>7 DEF Operations, States
    <3>2. op' = [op EXCEPT ![o] = x]
      BY <2>2, <2>6
    <3>. QED  BY <3>1, <3>2
  <2>9. PICK y : y = [file[f] EXCEPT !.state = "live", !.entities = (@ \ rest) \cup {e}]
    OBVIOUS
  <2>10. y \in FileRow /\ y.state = "live" /\ y.entities = (file[f].entities \ rest) \cup {e}
         /\ y.primary = file[f].primary /\ file' = [file EXCEPT ![f] = y]
    <3>1. y \in FileRow /\ y.state = "live" /\ y.entities = (file[f].entities \ rest) \cup {e}
          /\ y.primary = file[f].primary
      BY <2>3, <2>4, <2>9 DEF FileRow
    <3>2. file' = [file EXCEPT ![f].state = "live", ![f].entities = (@ \ rest) \cup {e}]
      BY <2>2 DEF Insert
    <3>3. file' = [file EXCEPT ![f] = y]
      BY <2>3, <2>9, <3>2 DEF Typed
    <3>. QED  BY <3>1, <3>3
  <2>11. born' = born \cup {e} /\ entity' = [Refer(rest, -1) EXCEPT ![e] = Row(1, TRUE)]
    BY <2>2 DEF Insert
  <2>12. PICK counted : counted = Refer(rest, -1)
    OBVIOUS
  <2>13. -1 \in Int
    OBVIOUS
  <2>14. counted \in [Entities -> EntityRow]
         /\ \A d \in Entities : counted[d].exists = entity[d].exists /\ counted[d].uploading = entity[d].uploading
    BY <2>3, <2>12, <2>13, Referred
  <2>15. entity' = [counted EXCEPT ![e] = Row(1, TRUE)]
    BY <2>11, <2>12
  <2>16. entity' \in [Entities -> EntityRow] /\ entity'[e] = Row(1, TRUE)
         /\ \A d \in Entities \ {e} : entity'[d] = counted[d]
    BY <2>4, <2>14, <2>15 DEF EntityRow, Row
  <2>17. entity'[e].exists /\ entity'[e].refs = 1 /\ entity'[e].uploading
    BY <2>16 DEF Row
  <2>18. \A d \in Rows : d \in Entities /\ d # e /\ entity'[d] = counted[d]
    BY <2>3, <2>4, <2>16 DEF Rowed, Rows
  <2>19. file[f].entities \subseteq born /\ e \notin file[f].entities
    BY <2>3, <2>4 DEF Rowed
  <2>20. rest \subseteq op[o].seen.entities /\ rest \subseteq op[o].seen.uploading
         /\ (op[o].call = "create" => rest = {})
    BY <1>1, <2>1, <2>3 DEF Noted, Asked, Nothing
  <2>21. HeldRows => Recounted(f, y)
    <3>. SUFFICES ASSUME HeldRows, NEW d \in Rows
         PROVE  entity'[d].refs = entity[d].refs + One(d \in y.entities) - One(d \in file[f].entities)
      BY DEF Recounted
    <3>1. PICK z : z = [y EXCEPT !.entities = file[f].entities \ rest]
      OBVIOUS
    <3>2. z \in FileRow /\ z.entities = file[f].entities \ rest
      BY <2>3, <2>10, <3>1 DEF FileRow
    <3>3. \A c \in Rows : c \in rest <=> c \in file[f].entities /\ c \notin z.entities
      BY <1>1, <2>1, <2>20, <3>2 DEF HeldRows
    <3>4. counted[d].refs = entity[d].refs + One(d \in z.entities) - One(d \in file[f].entities)
      BY <2>3, <2>12, <3>2, <3>3, CountedDown
    <3>5. d \in z.entities <=> d \in y.entities
      BY <2>10, <2>18, <3>2
    <3>6. One(d \in z.entities) = One(d \in y.entities)
      BY <3>5 DEF One
    <3>. QED  BY <2>18, <3>4, <3>6
  <2>22. Wrote(o, x, y)
    <3>1. \A d \in Rows : entity'[d].exists /\ (entity'[d].uploading => entity[d].uploading)
      BY <2>14, <2>18 DEF Rows
    <3>2. \A d \in Entities \ Rows : entity'[d].exists => d = e
      BY <2>14, <2>16 DEF Rows
    <3>3. \A d \in Entities \ Rows : entity'[d].exists =>
            d \in born' \ born /\ d \in y.entities /\ entity'[d].refs = 1
      BY <2>4, <2>10, <2>11, <2>17, <3>2
    <3>4. y.entities \subseteq born' /\ (y.state # "live" => y.entities = {})
          /\ born \subseteq born' /\ born' \subseteq Entities
      BY <2>3, <2>4, <2>10, <2>11, <2>19 DEF Typed
    <3>5. x.pc = "upload" /\ x.call = op[o].call /\ x.file = op[o].file /\ x.to = op[o].to
          /\ x.call # "copy" /\ x.version \in y.entities
      BY <1>1, <2>7, <2>10
    <3>6. used' \in Int
      BY <1>1, <2>2, LockedFile
    <3>. QED  BY <1>1, <2>1, <2>2, <2>8, <2>10, <2>16, <2>21, <3>1, <3>3, <3>4, <3>5, <3>6 DEF Wrote
  <2>23. HeldFile => op[o].call = "create" \/ (file[f].state = "live" /\ file[f].entities = op[o].seen.entities
                                               /\ file[f].primary = op[o].seen.primary)
    BY <1>1, <2>1 DEF HeldFile
  <2>24. HeldFile => rest \subseteq file[f].entities
    BY <2>20, <2>23
  <2>25. Doomed /\ Kept /\ HeldFile => WroteSafe(o, x, y)
    <3>. SUFFICES ASSUME Doomed, Kept, HeldFile
         PROVE  WroteSafe(o, x, y)
      OBVIOUS
    <3>1. \A d \in x.stale : d \in Dead
      BY <2>7 DEF Doomed
    <3>2. file[f].state = "live" => f \in Live
      BY <2>3 DEF Live
    <3>3. \A d \in file[f].entities : d \in Rows /\ (entity[d].uploading \/ d \in blobs)
      BY <2>3, <3>2 DEF Kept, Rowed
    <3>4. \A d \in file[f].entities : d \notin Dead
      BY <2>3 DEF Dead
    <3>5. e \notin Dead /\ e \in Rows'
      BY <2>4, <2>17 DEF Dead, Rows
    <3>6. \A d \in Rows : d \in Rows' /\ entity'[d].uploading = entity[d].uploading
      BY <2>14, <2>18 DEF Rows
    <3>7. \A d \in y.entities : d \notin Dead /\ d \in Rows' /\ (entity'[d].uploading \/ d \in blobs)
      <4>. SUFFICES ASSUME NEW d \in y.entities
           PROVE  d \notin Dead /\ d \in Rows' /\ (entity'[d].uploading \/ d \in blobs)
        OBVIOUS
      <4>1. CASE d = e
        BY <2>17, <3>5, <4>1
      <4>2. CASE d # e
        <5>1. d \in file[f].entities
          BY <2>10, <4>2
        <5>. QED  BY <3>3, <3>4, <3>6, <5>1
      <4>. QED  BY <4>1, <4>2
    <3>8. y.primary # None => y.primary \in y.entities /\ ~entity'[y.primary].uploading
      <4>. SUFFICES ASSUME y.primary # None
           PROVE  y.primary \in y.entities /\ ~entity'[y.primary].uploading
        OBVIOUS
      <4>1. file[f].state = "live" /\ op[o].call # "create"
        BY <2>2, <2>3, <2>10 DEF Kept
      <4>2. y.primary \in file[f].entities /\ ~entity[y.primary].uploading
        BY <2>10, <3>2, <4>1 DEF Kept
      <4>3. y.primary \notin op[o].seen.uploading
        BY <1>1, <2>10, <2>23, <4>1 DEF HeldFile, Asked
      <4>4. y.primary \in y.entities /\ y.primary \in Rows
        BY <2>10, <2>20, <3>3, <4>2, <4>3
      <4>. QED  BY <3>6, <4>2, <4>4
    <3>9. \A d \in Rows : ~(entity[d].uploading /\ ~entity'[d].uploading)
      BY <3>6
    <3>. QED  BY <2>10, <3>1, <3>7, <3>8, <3>9 DEF WroteSafe
  <2>26. /\ Wrote(o, x, y)
         /\ Safe' /\ Counted /\ HeldRows /\ Doomed /\ Kept /\ HeldFile => WroteSafe(o, x, y)
         /\ rest \in SUBSET Entities /\ x.diff = -Cardinality(rest)
         /\ used' = used + 1 /\ used + 1 <= Quota /\ mishaps' = mishaps /\ op[o].pc = "locked"
         /\ y.entities = (file[Target(o)].entities \ rest) \cup {e}
         /\ e \notin file[Target(o)].entities
         /\ HeldFile => rest \subseteq file[Target(o)].entities
    <3>1. x.diff = -Cardinality(rest)
      BY <2>7
    <3>2. f = Target(o)
      BY <1>1, <2>1
    <3>3. UNCHANGED mishaps
      BY <2>2
    <3>. QED  BY <1>1, <2>2, <2>5, <2>10, <2>19, <2>22, <2>24, <2>25, <3>1, <3>2, <3>3
  <2>. QED  BY <2>26, Zenon
<1>. QED  BY <1>2, <1>3

LEMMA CompleteWrites ==
  ASSUME StoreInv, NEW o \in Ops, CompleteTx(o)
  PROVE  \E x, y, capped :
           /\ Wrote(o, x, y)
           /\ Safe' /\ Counted /\ HeldRows /\ Doomed /\ Kept /\ HeldFile => WroteSafe(o, x, y)
           /\ capped \subseteq file[Target(o)].entities /\ x.diff = -Cardinality(capped)
           /\ y.entities = file[Target(o)].entities \ capped
           /\ used' = used /\ mishaps' = mishaps /\ op[o].pc = "complete"
<1>1. op[o].pc = "complete" /\ UNCHANGED counters
  BY DEF CompleteTx, At
<1>2. Typed /\ Rowed /\ Locking /\ op[o] \in Operations /\ Target(o) \in Files /\ file[Target(o)] \in FileRow
  BY <1>1, LockedFile
<1>3. op[o].call # "copy" /\ op[o].version \in born /\ Target(o) = op[o].file
  BY <1>1, <1>2 DEF Locking, Uploading, Target
<1>4. PICK f, e : f = op[o].file /\ e = op[o].version
  OBVIOUS
<1>5. PICK capped : /\ capped \in {{}, file[f].entities \ {e}}
                    /\ entity' = [Refer(capped, -1) EXCEPT ![e].uploading = FALSE]
                    /\ file' = [file EXCEPT ![f].entities = @ \ capped, ![f].primary = e]
                    /\ Committed(o, -Cardinality(capped), {})
  BY <1>4 DEF CompleteTx
<1>6. UNCHANGED <<used, born, blobs, tasks, worker, locks, mishaps, calls, faults>>
  BY DEF CompleteTx, recycling, counters
<1>7. file[f] \in FileRow /\ f \in Files /\ e \in Entities /\ f = Target(o)
  BY <1>2, <1>3, <1>4 DEF Typed
<1>8. capped \subseteq file[f].entities /\ e \notin capped /\ capped \in SUBSET Entities
  BY <1>5, <1>7 DEF FileRow
<1>9. Cardinality(capped) \in Nat /\ -Cardinality(capped) \in Int /\ {} \in SUBSET Entities /\ -1 \in Int
  BY <1>8, Finite
<1>10. PICK x \in Operations :
         /\ op' = [op EXCEPT ![o] = x]
         /\ x.pc = "apply" /\ x.diff = -Cardinality(capped) /\ x.stale = {}
         /\ x.call = op[o].call /\ x.file = op[o].file /\ x.to = op[o].to
  BY <1>2, <1>5, <1>9, CommittedTo
<1>11. PICK y : y = [file[f] EXCEPT !.entities = @ \ capped, !.primary = e]
  OBVIOUS
<1>12. y \in FileRow /\ y.state = file[f].state /\ y.entities = file[f].entities \ capped /\ y.primary = e
  BY <1>7, <1>11 DEF FileRow
<1>13. file' = [file EXCEPT ![f] = y]
  BY <1>2, <1>5, <1>7, <1>11 DEF Typed
<1>14. PICK counted : counted = Refer(capped, -1)
  OBVIOUS
<1>15. counted \in [Entities -> EntityRow]
       /\ \A d \in Entities : counted[d].exists = entity[d].exists /\ counted[d].uploading = entity[d].uploading
  BY <1>2, <1>9, <1>14, Referred
<1>16. entity' = [counted EXCEPT ![e].uploading = FALSE]
  BY <1>5, <1>14
<1>17. entity' \in [Entities -> EntityRow]
       /\ \A d \in Entities : /\ entity'[d].exists = entity[d].exists /\ entity'[d].refs = counted[d].refs
                              /\ entity'[d].uploading = (d # e /\ entity[d].uploading)
  <2>1. PICK z : z = [counted[e] EXCEPT !.uploading = FALSE]
    OBVIOUS
  <2>2. z \in EntityRow /\ z.exists = counted[e].exists /\ z.refs = counted[e].refs /\ z.uploading = FALSE
    BY <1>7, <1>15, <2>1 DEF EntityRow
  <2>3. entity' = [counted EXCEPT ![e] = z]
    BY <1>16, <2>1
  <2>4. entity' \in [Entities -> EntityRow] /\ entity'[e] = z /\ \A d \in Entities \ {e} : entity'[d] = counted[d]
    BY <1>7, <1>15, <2>2, <2>3
  <2>5. \A d \in Entities : entity[d].uploading \in BOOLEAN
    BY <1>2 DEF Typed, EntityRow
  <2>. QED  BY <1>15, <2>2, <2>4, <2>5
<1>18. Recounted(f, y)
  <2>1. \A d \in Rows : d \in capped <=> d \in file[f].entities /\ d \notin y.entities
    BY <1>8, <1>12
  <2>2. \A d \in Rows : counted[d].refs = entity[d].refs + One(d \in y.entities) - One(d \in file[f].entities)
    BY <1>2, <1>7, <1>12, <1>14, <2>1, CountedDown
  <2>. QED  BY <1>17, <2>2 DEF Recounted, Rows
<1>19. Wrote(o, x, y)
  <2>1. \A d \in Rows : entity'[d].exists /\ (entity'[d].uploading => entity[d].uploading)
    BY <1>17 DEF Rows
  <2>2. \A d \in Entities \ Rows : ~entity'[d].exists
    BY <1>17 DEF Rows
  <2>3. y.entities \subseteq born' /\ (y.state # "live" => y.entities = {})
    BY <1>2, <1>6, <1>7, <1>12 DEF Rowed
  <2>. QED  BY <1>1, <1>2, <1>6, <1>7, <1>10, <1>12, <1>13, <1>17, <1>18, <2>1, <2>2, <2>3 DEF Wrote, Typed
<1>20. Kept /\ HeldFile => WroteSafe(o, x, y)
  <2>. SUFFICES ASSUME Kept, HeldFile
       PROVE  WroteSafe(o, x, y)
    OBVIOUS
  <2>1. file[f].state = "live" /\ e \in file[f].entities /\ e \in blobs /\ f \in Live
    BY <1>1, <1>4, <1>7 DEF HeldFile, Uploading, Live
  <2>2. \A d \in file[f].entities : d \in Rows /\ (entity[d].uploading \/ d \in blobs)
    BY <2>1 DEF Kept
  <2>3. \A d \in Rows : d \in Rows' /\ d \in Entities
    BY <1>17 DEF Rows
  <2>4. \A d \in y.entities : d \notin Dead /\ d \in Rows' /\ (entity'[d].uploading \/ d \in blobs)
    <3>. SUFFICES ASSUME NEW d \in y.entities
         PROVE  d \notin Dead /\ d \in Rows' /\ (entity'[d].uploading \/ d \in blobs)
      OBVIOUS
    <3>1. d \in file[f].entities
      BY <1>12
    <3>2. d \in Rows /\ d \in Rows' /\ d \in Entities
      BY <2>2, <2>3, <3>1
    <3>3. entity'[d].uploading \/ d \in blobs
      <4>1. CASE d = e
        BY <2>1, <4>1
      <4>2. CASE d # e
        BY <1>17, <2>2, <3>1, <3>2, <4>2
      <4>. QED  BY <4>1, <4>2
    <3>. QED  BY <1>7, <3>1, <3>2, <3>3 DEF Dead
  <2>5. y.primary \in y.entities /\ ~entity'[y.primary].uploading
    BY <1>7, <1>8, <1>12, <1>17, <2>1
  <2>6. \A d \in Rows : entity[d].uploading /\ ~entity'[d].uploading => d \in blobs
    BY <1>17, <2>1, <2>3
  <2>. QED  BY <1>10, <1>12, <2>1, <2>4, <2>5, <2>6 DEF WroteSafe
<1>. QED  BY <1>1, <1>6, <1>7, <1>8, <1>10, <1>12, <1>19, <1>20

-----------------------------------------------------------------------------
(***************************************************************************)
(* The worker of the recycle queue, as long as it removes no rows.         *)
(***************************************************************************)
Worked(B) ==
  /\ UNCHANGED <<file, entity, born, op, locks, mishaps, calls>>
  /\ blobs' = blobs \ B
  /\ tasks' \subseteq tasks
  /\ used' \in Int /\ faults' \in 0 .. MaxFaults
  /\ worker' \in Workers
  /\ worker'.diff = 0
  /\ Counted /\ Doomed => B \subseteq Dead /\ worker'.batch \subseteq Dead

LEMMA WorkedInv ==
  ASSUME StoreInv, NEW B, Worked(B)
  PROVE  StoreInv'
<1>1. Typed'
  BY DEF StoreInv, Typed, Worked
<1>2. Locking'
  BY DEF StoreInv, Locking, Target, Worked
<1>3. Rowed'
  BY DEF StoreInv, Rowed, Rows, Worked
<1>4. Noted'
  BY DEF StoreInv, Noted, Rows, Worked
<1>5. CleanInv'
  BY DEF StoreInv, CleanInv, Clean, Counted, HeldRows, Rows, Linking, Live, Worked
<1>6. SafeInv'
  <2>. SUFFICES ASSUME Safe'
       PROVE  Doomed' /\ Kept' /\ HeldFile'
    BY DEF SafeInv
  <2>1. Safe /\ Clean
    BY DEF Safe, Clean, Worked
  <2>2. Counted /\ Doomed /\ Kept /\ HeldFile /\ Rowed
    BY <2>1 DEF StoreInv, SafeInv, CleanInv
  <2>3. file' = file /\ entity' = entity /\ born' = born /\ op' = op
    BY DEF Worked
  <2>4. Dead' = Dead
    BY <2>3 DEF Dead
  <2>5. B \subseteq Dead /\ worker'.batch \subseteq Dead
    BY <2>2 DEF Worked
  <2>6. Doomed'
    BY <2>2, <2>3, <2>4, <2>5 DEF Doomed, Worked
  <2>7. \A f \in Files : \A e \in file[f].entities : e \in blobs => e \in blobs'
    BY <2>5 DEF Worked, Dead
  <2>8. Kept'
    BY <2>2, <2>3, <2>7 DEF Kept, Rows, Live
  <2>9. HeldFile'
    <3>1. \A p \in Ops : op[p].pc = "complete" =>
            op[p].version \in file[op[p].file].entities /\ op[p].file \in Files /\ op[p].version \in blobs
      BY <2>2 DEF StoreInv, HeldFile, Locking, Uploading, Holding
    <3>2. \A p \in Ops : op[p].pc = "complete" => op[p].version \in blobs'
      BY <2>7, <3>1
    <3>. QED  BY <2>2, <2>3, <3>2 DEF HeldFile
  <2>. QED  BY <2>6, <2>8, <2>9
<1>. QED  BY <1>1, <1>2, <1>3, <1>4, <1>5, <1>6 DEF StoreInv

LEMMA WorkerTyped ==
  ASSUME StoreInv
  PROVE  /\ worker.pc \in {"rest", "delete", "remove", "apply"}
         /\ worker.task \in SUBSET Entities /\ worker.batch \in SUBSET Entities /\ worker.diff \in Int
         /\ worker \in Workers /\ tasks \subseteq SUBSET Entities /\ Rows \subseteq born
         /\ worker.diff # 0 => worker.pc = "apply"
         /\ used \in Int /\ calls \in 0 .. MaxCalls /\ faults \in 0 .. MaxFaults
         /\ (faults < MaxFaults => faults + 1 \in 0 .. MaxFaults)
<1>1. Typed /\ Rowed
  BY DEF StoreInv
<1>2. /\ worker.pc \in {"rest", "delete", "remove", "apply"}
      /\ worker.task \in SUBSET Entities /\ worker.batch \in SUBSET Entities /\ worker.diff \in Int
      /\ worker \in Workers /\ tasks \subseteq SUBSET Entities
  BY <1>1 DEF Typed, Workers
<1>. QED  BY <1>1, <1>2, CountersTyped DEF Rowed

LEMMA TakeExplicitWorks ==
  ASSUME StoreInv, TakeExplicit
  PROVE  Worked({}) /\ used' = used
<1>1. PICK t \in tasks : worker' = [Resting EXCEPT !.pc = "delete", !.task = t, !.batch = t \cap Rows]
  BY DEF TakeExplicit
<1>2. worker' = [pc |-> "delete", task |-> t, batch |-> t \cap Rows, diff |-> 0]
  BY <1>1 DEF Resting
<1>3. t \in SUBSET Entities
  BY <1>1, WorkerTyped
<1>4. worker' \in Workers /\ worker'.diff = 0 /\ worker'.batch \subseteq t
  BY <1>2, <1>3 DEF Workers
<1>5. Doomed => t \subseteq Dead
  BY <1>1 DEF Doomed
<1>6. UNCHANGED <<file, entity, born, op, locks, mishaps, calls, faults, blobs, tasks, used>>
  BY DEF TakeExplicit, database, counters
<1>. QED  BY <1>4, <1>5, <1>6, WorkerTyped DEF Worked

LEMMA TakeRoutineWorks ==
  ASSUME StoreInv, TakeRoutine
  PROVE  Worked({}) /\ used' = used
<1>1. worker' = [Resting EXCEPT !.pc = "delete", !.batch = Stale]
  BY DEF TakeRoutine
<1>2. worker' = [pc |-> "delete", task |-> {}, batch |-> Stale, diff |-> 0]
  BY <1>1 DEF Resting
<1>3. worker' \in Workers /\ worker'.diff = 0 /\ worker'.batch = Stale
  BY <1>2 DEF Workers, Stale, Rows
<1>4. Counted => Stale \subseteq Dead
  <2>. SUFFICES ASSUME Counted, NEW e \in Stale
       PROVE  e \in Dead
    OBVIOUS
  <2>1. Typed /\ Rowed
    BY DEF StoreInv
  <2>2. e \in Rows /\ entity[e].refs <= 0 /\ e \in born
    BY <2>1 DEF Stale, Rowed
  <2>3. Cardinality(Linkers(Entries, e)) <= 0
    BY <2>1, <2>2, LinksNow DEF Counted
  <2>4. Linkers(Entries, e) \in SUBSET Files
    BY DEF Linkers
  <2>5. Linkers(Entries, e) = {}
    <3>1. IsFiniteSet(Linkers(Entries, e)) /\ Cardinality(Linkers(Entries, e)) \in Nat
      BY <2>4, Finite
    <3>. QED  BY <2>3, <3>1, FS_EmptySet
  <2>6. \A g \in Files : e \notin file[g].entities
    BY <2>5 DEF Linkers, Entries
  <2>. QED  BY <2>2, <2>6 DEF Dead
<1>5. UNCHANGED <<file, entity, born, op, locks, mishaps, calls, faults, blobs, tasks, used>>
  BY DEF TakeRoutine, database, counters
<1>. QED  BY <1>3, <1>4, <1>5, WorkerTyped DEF Worked

LEMMA DeleteBlobsWorks ==
  ASSUME StoreInv, DeleteBlobs
  PROVE  (\E B : Worked(B)) /\ used' = used /\ worker.diff = 0
<1>1. PICK failed \in SUBSET worker.batch :
        /\ IF failed = {} THEN UNCHANGED faults ELSE Fault
        /\ blobs' = blobs \ (worker.batch \ failed)
        /\ worker' = [worker EXCEPT !.pc = "remove", !.batch = @ \ failed]
  BY DEF DeleteBlobs
<1>2. worker.pc = "delete" /\ worker.diff = 0
  BY WorkerTyped DEF DeleteBlobs
<1>3. worker' \in Workers /\ worker'.diff = 0 /\ worker'.batch \subseteq worker.batch
  BY <1>1, <1>2, WorkerTyped DEF Workers
<1>4. faults' \in 0 .. MaxFaults
  BY <1>1, WorkerTyped DEF Fault
<1>5. UNCHANGED <<file, entity, born, op, locks, mishaps, calls, tasks, used>>
  BY DEF DeleteBlobs, database
<1>6. Worked(worker.batch \ failed)
  BY <1>1, <1>3, <1>4, <1>5, WorkerTyped DEF Worked, Doomed
<1>. QED  BY <1>2, <1>5, <1>6

LEMMA EndTaskWorks ==
  ASSUME StoreInv, EndTask
  PROVE  Worked({}) /\ used' = used + worker.diff
<1>1. worker' = Resting /\ used' = used + worker.diff /\ tasks' = tasks \ {worker.task}
      /\ UNCHANGED <<file, entity, born, op, locks, mishaps, calls, faults, blobs>>
  BY DEF EndTask, counters
<1>2. worker' \in Workers /\ worker'.diff = 0 /\ worker'.batch = {}
  BY <1>1 DEF Resting, Workers
<1>. QED  BY <1>1, <1>2, WorkerTyped DEF Worked

(***************************************************************************)
(* Rows are removed, and with them what links to them.                     *)
(***************************************************************************)
LEMMA RemoveInv ==
  ASSUME StoreInv, RemoveRows
  PROVE  /\ StoreInv'
         /\ Safe => file' = file /\ worker'.diff = 0
         /\ worker.diff = 0 /\ UNCHANGED <<op, used, mishaps>>
<1>1. PICK gone, counted :
        /\ gone = worker.batch /\ counted = {e \in gone : entity[e].exists /\ entity[e].refs > 0}
        /\ entity' = [e \in Entities |-> IF e \in gone THEN NoRow ELSE entity[e]]
        /\ file' = [f \in Files |-> [file[f] EXCEPT !.entities = @ \ gone]]
        /\ worker' = [worker EXCEPT !.pc = "apply",
                        !.diff = -Cardinality({p \in Files \X counted : p[2] \in file[p[1]].entities})]
  BY DEF RemoveRows
<1>2. UNCHANGED <<used, born, blobs, tasks, locks, op, mishaps, calls, faults>>
  BY DEF RemoveRows, counters
<1>3. Typed /\ Locking /\ Rowed /\ Noted
  BY DEF StoreInv
<1>4. worker.pc = "remove" /\ worker.diff = 0 /\ worker \in Workers /\ gone \in SUBSET Entities
  BY <1>1, WorkerTyped DEF RemoveRows
<1>5. PICK P : P = {p \in Files \X counted : p[2] \in file[p[1]].entities}
  OBVIOUS
<1>6. Cardinality(P) \in Nat /\ (counted = {} => Cardinality(P) = 0)
  <2>1. counted \subseteq Entities
    BY <1>1, <1>4
  <2>2. IsFiniteSet(Files \X Entities)
    BY Finite, FS_Product
  <2>3. P \in SUBSET (Files \X Entities)
    BY <1>5, <2>1
  <2>4. Cardinality(P) \in Nat
    BY <2>2, <2>3, FS_Subset, FS_CardinalityType
  <2>5. counted = {} => P = {}
    BY <1>5
  <2>. QED  BY <2>4, <2>5, FS_EmptySet
<1>7. worker' = [pc |-> "apply", task |-> worker.task, batch |-> gone, diff |-> -Cardinality(P)]
  BY <1>1, <1>4, <1>5 DEF Workers
<1>8. worker' \in Workers
  BY <1>4, <1>6, <1>7 DEF Workers
<1>9. file' \in [Files -> FileRow]
      /\ \A f \in Files : /\ file'[f].state = file[f].state /\ file'[f].primary = file[f].primary
                          /\ file'[f].entities = file[f].entities \ gone
  <2>. SUFFICES ASSUME NEW f \in Files
       PROVE  /\ file'[f] \in FileRow
              /\ file'[f].state = file[f].state /\ file'[f].primary = file[f].primary
              /\ file'[f].entities = file[f].entities \ gone
    BY <1>1
  <2>1. file[f] \in FileRow
    BY <1>3 DEF Typed
  <2>2. PICK y : y = [file[f] EXCEPT !.entities = @ \ gone]
    OBVIOUS
  <2>3. y \in FileRow /\ y.state = file[f].state /\ y.primary = file[f].primary
        /\ y.entities = file[f].entities \ gone
    BY <2>1, <2>2 DEF FileRow
  <2>. QED  BY <1>1, <2>2, <2>3
<1>10. /\ entity' \in [Entities -> EntityRow]
       /\ \A e \in Entities \ gone : entity'[e] = entity[e]
       /\ \A e \in gone : ~entity'[e].exists
  BY <1>1, <1>3, <1>4 DEF Typed, EntityRow, NoRow
<1>11. Rows' = Rows \ gone
  BY <1>4, <1>10 DEF Rows
<1>12. Typed'
  BY <1>2, <1>3, <1>8, <1>9, <1>10 DEF Typed
<1>13. Locking'
  BY <1>2, <1>3 DEF Locking, Target
<1>14. Rowed'
  BY <1>2, <1>3, <1>7, <1>9, <1>11 DEF Rowed
<1>15. Noted'
  <2>1. \A e \in Rows' : e \in Rows /\ entity'[e] = entity[e]
    BY <1>10, <1>11 DEF Rows
  <2>. QED  BY <1>2, <1>3, <2>1 DEF Noted
<1>16. CleanInv'
  <2>. SUFFICES ASSUME Clean'
       PROVE  Counted' /\ HeldRows'
    BY DEF CleanInv
  <2>1. Counted /\ HeldRows
    BY <1>2 DEF StoreInv, CleanInv, Clean
  <2>2. \A e \in Rows' : e \in Rows /\ e \notin gone /\ entity'[e] = entity[e]
    BY <1>10, <1>11 DEF Rows
  <2>3. \A e \in Rows' : Linking(e)' = Linking(e)
    BY <1>9, <2>2 DEF Linking, Live
  <2>4. Counted'
    BY <2>1, <2>2, <2>3 DEF Counted
  <2>5. HeldRows'
    <3>. SUFFICES ASSUME NEW p \in Ops, op[p].pc = "locked", op[p].call \notin {"copy", "create"}, NEW e \in Rows'
         PROVE  e \in file'[op[p].file].entities <=> e \in op[p].seen.entities
      BY <1>2 DEF HeldRows
    <3>1. op[p].file \in Files
      BY <1>3 DEF Locking, Asked
    <3>. QED  BY <1>9, <2>1, <2>2, <3>1 DEF HeldRows
  <2>. QED  BY <2>4, <2>5
<1>17. Safe => file' = file /\ counted = {} /\ \A f \in Files : file[f].entities \cap gone = {}
  <2>. SUFFICES ASSUME Safe
       PROVE  file' = file /\ counted = {} /\ \A f \in Files : file[f].entities \cap gone = {}
    OBVIOUS
  <2>1. gone \subseteq Dead /\ Counted
    BY <1>1 DEF Safe, StoreInv, SafeInv, Doomed, CleanInv, Clean
  <2>2. \A f \in Files : file[f].entities \cap gone = {}
    BY <2>1 DEF Dead
  <2>3. file' = file
    <3>1. \A f \in Files : file'[f] = file[f]
      <4>. SUFFICES ASSUME NEW f \in Files PROVE file'[f] = file[f]
        OBVIOUS
      <4>1. file[f].entities \ gone = file[f].entities
        BY <2>2
      <4>2. file[f] = [state |-> file[f].state, entities |-> file[f].entities, primary |-> file[f].primary]
        BY <1>3 DEF Typed, FileRow
      <4>3. file'[f] = [state |-> file'[f].state, entities |-> file'[f].entities, primary |-> file'[f].primary]
        BY <1>9 DEF FileRow
      <4>4. file'[f].state = file[f].state /\ file'[f].primary = file[f].primary
            /\ file'[f].entities = file[f].entities
        BY <1>9, <4>1
      <4>. QED  BY <4>2, <4>3, <4>4
    <3>. QED  BY <1>3, <1>9, <3>1 DEF Typed
  <2>4. ASSUME NEW e \in counted
        PROVE  FALSE
    <3>1. e \in gone /\ e \in Rows /\ entity[e].refs > 0
      BY <1>1, <1>4 DEF Rows
    <3>2. entity[e].refs = Cardinality(Linking(e))
      BY <2>1, <3>1 DEF Counted
    <3>3. Linking(e) = {}
      BY <2>2, <3>1 DEF Linking, Live
    <3>. QED  BY <3>1, <3>2, <3>3, FS_EmptySet
  <2>. QED  BY <2>2, <2>3, <2>4
<1>18. SafeInv'
  <2>. SUFFICES ASSUME Safe'
       PROVE  Doomed' /\ Kept' /\ HeldFile'
    BY DEF SafeInv
  <2>1. Safe /\ Doomed /\ Kept /\ HeldFile /\ file' = file /\ \A f \in Files : file[f].entities \cap gone = {}
    BY <1>2, <1>17 DEF Safe, StoreInv, SafeInv
  <2>2. Dead' = Dead
    BY <1>2, <2>1 DEF Dead
  <2>3. Doomed'
    BY <1>1, <1>2, <1>7, <2>1, <2>2 DEF Doomed
  <2>4. Kept'
    <3>1. \A f \in Live : /\ file[f].entities \subseteq Rows
                          /\ \A e \in file[f].entities : entity[e].uploading \/ e \in blobs
                          /\ file[f].primary # None =>
                               file[f].primary \in file[f].entities /\ ~entity[file[f].primary].uploading
      BY <2>1 DEF Kept
    <3>2. \A f \in Live : \A e \in file[f].entities : e \in Rows' /\ entity'[e] = entity[e]
      BY <1>10, <1>11, <2>1, <3>1 DEF Live, Rows
    <3>3. Live' = Live /\ blobs' = blobs
      BY <1>2, <2>1 DEF Live
    <3>4. \A f \in Files : file'[f].state = "new" => file'[f].primary = None
      BY <2>1 DEF Kept
    <3>5. \A f \in Live : /\ file[f].entities \subseteq Rows'
                          /\ \A e \in file[f].entities : entity'[e].uploading \/ e \in blobs
                          /\ file[f].primary # None =>
                               file[f].primary \in file[f].entities /\ ~entity'[file[f].primary].uploading
      BY <3>1, <3>2
    <3>. QED  BY <2>1, <3>3, <3>4, <3>5 DEF Kept
  <2>5. HeldFile'
    BY <1>2, <2>1 DEF HeldFile
  <2>. QED  BY <2>3, <2>4, <2>5
<1>19. StoreInv'
  BY <1>12, <1>13, <1>14, <1>15, <1>16, <1>18 DEF StoreInv
<1>20. Safe => worker'.diff = 0
  BY <1>6, <1>7, <1>17
<1>. QED  BY <1>2, <1>4, <1>17, <1>19, <1>20

(***************************************************************************)
(* The process stops and starts again.                                     *)
(***************************************************************************)
LEMMA RestartInv ==
  ASSUME StoreInv, Restart
  PROVE  StoreInv'
<1>1. UNCHANGED <<file, entity, born, blobs, tasks, used, calls>>
      /\ locks' = [f \in Files |-> None] /\ op' = [o \in Ops |-> Idle] /\ worker' = Resting
      /\ mishaps \subseteq mishaps' /\ mishaps' \subseteq mishaps \cup {"unapplied"}
  BY DEF Restart, database, Mishap
<1>2. faults' \in 0 .. MaxFaults
  BY WorkerTyped DEF Restart, Fault
<1>3. op' \in [Ops -> Operations] /\ worker' \in Workers /\ locks' \in [Files -> Ops \cup {None}]
      /\ worker'.diff = 0 /\ worker'.batch = {}
      /\ \A o \in Ops : op'[o].pc = "idle" /\ op'[o].diff = 0 /\ op'[o].stale = {}
  BY <1>1, IdleTyped DEF Resting, Workers
<1>4. Typed'
  BY <1>1, <1>2, <1>3 DEF StoreInv, Typed
<1>5. Locking'
  BY <1>3 DEF Locking, Asked, Holding, Uploading
<1>6. Rowed'
  BY <1>1, <1>3 DEF StoreInv, Rowed, Rows
<1>7. Noted'
  BY <1>3 DEF Noted, Asked
<1>8. CleanInv'
  BY <1>1, <1>3 DEF StoreInv, CleanInv, Clean, Counted, HeldRows, Rows, Linking, Live
<1>9. SafeInv'
  <2>. SUFFICES ASSUME Safe'
       PROVE  Doomed' /\ Kept' /\ HeldFile'
    BY DEF SafeInv
  <2>1. Doomed /\ Kept
    BY <1>1 DEF Safe, StoreInv, SafeInv
  <2>2. Dead' = Dead
    BY <1>1 DEF Dead
  <2>3. Doomed'
    BY <1>1, <1>3, <2>1, <2>2 DEF Doomed
  <2>4. Kept'
    BY <1>1, <2>1 DEF Kept, Live, Rows
  <2>5. HeldFile'
    BY <1>3 DEF HeldFile, Asked, Uploading
  <2>. QED  BY <2>3, <2>4, <2>5
<1>. QED  BY <1>4, <1>5, <1>6, <1>7, <1>8, <1>9 DEF StoreInv

-----------------------------------------------------------------------------
(***************************************************************************)
(* Every step keeps the invariant.                                         *)
(***************************************************************************)
LEMMA FirstFile ==
  ASSUME Init
  PROVE  \E f \in Files, e \in Entities :
           /\ file \in [Files -> FileRow]
           /\ file[f].state = "live" /\ file[f].entities = {e} /\ file[f].primary = e
           /\ \A g \in Files \ {f} : file[g] = NoFile
           /\ entity \in [Entities -> EntityRow] /\ entity[e] = Row(1, FALSE)
           /\ \A d \in Entities \ {e} : entity[d] = NoRow
           /\ blobs = {e} /\ born = {e}
<1>1. PICK f \in Files, e \in Entities :
        /\ file = [g \in Files |-> IF g = f THEN [state |-> "live", entities |-> {e}, primary |-> e]
                                   ELSE NoFile]
        /\ entity = [d \in Entities |-> IF d = e THEN Row(1, FALSE) ELSE NoRow]
        /\ blobs = {e} /\ born = {e}
  BY DEF Init
<1>2. NoFile \in FileRow /\ [state |-> "live", entities |-> {e}, primary |-> e] \in FileRow
  BY DEF NoFile, FileRow
<1>3. NoRow \in EntityRow /\ Row(1, FALSE) \in EntityRow
  BY DEF NoRow, Row, EntityRow
<1>4. file \in [Files -> FileRow] /\ entity \in [Entities -> EntityRow]
  BY <1>1, <1>2, <1>3
<1>5. file[f] = [state |-> "live", entities |-> {e}, primary |-> e] /\ entity[e] = Row(1, FALSE)
      /\ (\A g \in Files \ {f} : file[g] = NoFile) /\ (\A d \in Entities \ {e} : entity[d] = NoRow)
  BY <1>1
<1>. QED  BY <1>1, <1>4, <1>5

LEMMA StoreInit == Init => StoreInv
<1>. SUFFICES ASSUME Init
     PROVE  StoreInv
  OBVIOUS
<1>1. PICK f \in Files, e \in Entities :
        /\ file \in [Files -> FileRow]
        /\ file[f].state = "live" /\ file[f].entities = {e} /\ file[f].primary = e
        /\ \A g \in Files \ {f} : file[g] = NoFile
        /\ entity \in [Entities -> EntityRow] /\ entity[e] = Row(1, FALSE)
        /\ \A d \in Entities \ {e} : entity[d] = NoRow
        /\ blobs = {e} /\ born = {e}
  BY FirstFile
<1>2. used = 1 /\ locks = [g \in Files |-> None] /\ op = [o \in Ops |-> Idle] /\ tasks = {}
      /\ worker = Resting /\ mishaps = {} /\ calls = 0 /\ faults = 0
  BY DEF Init
<1>3. \A g \in Files \ {f} : file[g].state = "new" /\ file[g].entities = {} /\ file[g].primary = None
  BY <1>1 DEF NoFile
<1>4. entity[e].exists /\ entity[e].refs = 1 /\ ~entity[e].uploading
      /\ \A d \in Entities \ {e} : ~entity[d].exists
  BY <1>1 DEF Row, NoRow
<1>5. Rows = {e} /\ Live = {f}
  BY <1>1, <1>3, <1>4 DEF Rows, Live
<1>6. op \in [Ops -> Operations] /\ worker \in Workers /\ worker.diff = 0 /\ worker.batch = {}
      /\ \A o \in Ops : op[o].pc = "idle" /\ op[o].diff = 0 /\ op[o].stale = {}
  BY <1>2, IdleTyped DEF Resting, Workers
<1>7. Typed
  BY <1>1, <1>2, <1>6, StoreAssumption DEF Typed, StoreAssumption
<1>8. Locking
  BY <1>6 DEF Locking, Asked, Holding, Uploading
<1>9. Rowed
  BY <1>1, <1>3, <1>5, <1>6 DEF Rowed
<1>10. Noted
  BY <1>6 DEF Noted, Asked
<1>11. CleanInv
  <2>1. Linking(e) = {f}
    BY <1>1, <1>5 DEF Linking
  <2>2. Counted
    BY <1>4, <1>5, <2>1, FS_Singleton DEF Counted
  <2>3. HeldRows
    BY <1>6 DEF HeldRows
  <2>. QED  BY <2>2, <2>3 DEF CleanInv
<1>12. SafeInv
  <2>1. Doomed
    BY <1>2, <1>6 DEF Doomed
  <2>2. Kept
    BY <1>1, <1>3, <1>4, <1>5 DEF Kept
  <2>3. HeldFile
    BY <1>6 DEF HeldFile, Asked, Uploading
  <2>. QED  BY <2>1, <2>2, <2>3 DEF SafeInv
<1>. QED  BY <1>7, <1>8, <1>9, <1>10, <1>11, <1>12 DEF StoreInv

LEMMA StoreStutter == StoreInv /\ UNCHANGED vars => StoreInv'
<1>. SUFFICES ASSUME StoreInv, UNCHANGED vars
     PROVE  StoreInv'
  OBVIOUS
<1>1. UNCHANGED <<file, entity, blobs, used, locks, op, tasks, worker, born, mishaps, calls, faults>>
  BY DEF vars
<1>2. Typed' /\ Locking' /\ Rowed' /\ Noted'
  BY <1>1 DEF StoreInv, Typed, Locking, Rowed, Noted, Target, Rows
<1>3. CleanInv'
  BY <1>1 DEF StoreInv, CleanInv, Clean, Counted, HeldRows, Rows, Linking, Live
<1>4. SafeInv'
  BY <1>1 DEF StoreInv, SafeInv, Safe, Doomed, Kept, HeldFile, Dead, Rows, Live
<1>. QED  BY <1>2, <1>3, <1>4 DEF StoreInv

LEMMA StoreNext ==
  ASSUME StoreInv, [Next]_vars
  PROVE  StoreInv'
<1>1. Typed /\ Locking /\ Rowed /\ Noted
  BY DEF StoreInv
<1>2. ASSUME NEW o \in Ops, Operation(o)
      PROVE  StoreInv'
  <2>1. CASE \E f \in Files : (\E c \in Calls : Call(o, c, f)) \/ CallCreate(o, f)
    BY <1>1, <2>1, CallQuiet, CallCreateQuiet, QuietInv
  <2>2. CASE Acquire(o)
    BY <1>1, <2>2, AcquireQuiet, QuietInv
  <2>3. CASE DeleteTx(o)
    <3>1. PICK x, y : /\ Wrote(o, x, y)
                      /\ Safe' /\ Counted /\ HeldRows /\ Doomed /\ Kept /\ HeldFile => WroteSafe(o, x, y)
      BY <2>3, DeleteWrites
    <3>. QED  BY <3>1, WroteInv
  <2>4. CASE CopyTx(o)
    <3>1. CASE Quiet(o, Idle)
      BY <3>1, QuietInv
    <3>2. CASE ~Quiet(o, Idle)
      <4>1. PICK x, y : /\ Wrote(o, x, y)
                        /\ Safe' /\ Counted /\ HeldRows /\ Doomed /\ Kept /\ HeldFile => WroteSafe(o, x, y)
        BY <2>4, <3>2, CopyWrites
      <4>. QED  BY <4>1, WroteInv
    <3>. QED  BY <3>1, <3>2
  <2>5. CASE UnlinkTx(o)
    <3>1. CASE Quiet(o, Idle)
      BY <3>1, QuietInv
    <3>2. CASE ~Quiet(o, Idle)
      <4>1. PICK x, y : /\ Wrote(o, x, y)
                        /\ Safe' /\ Counted /\ HeldRows /\ Doomed /\ Kept /\ HeldFile => WroteSafe(o, x, y)
        BY <2>5, <3>2, UnlinkWrites
      <4>. QED  BY <4>1, WroteInv
    <3>. QED  BY <3>1, <3>2
  <2>6. CASE RevertTx(o)
    <3>1. CASE Quiet(o, Idle)
      BY <3>1, QuietInv
    <3>2. CASE ~Quiet(o, Idle)
      <4>1. PICK x, y : /\ Wrote(o, x, y)
                        /\ Safe' /\ Counted /\ HeldRows /\ Doomed /\ Kept /\ HeldFile => WroteSafe(o, x, y)
        BY <2>6, <3>2, RevertWrites
      <4>. QED  BY <4>1, WroteInv
    <3>. QED  BY <3>1, <3>2
  <2>7. CASE PrepareTx(o)
    <3>1. CASE Quiet(o, Idle)
      BY <3>1, QuietInv
    <3>2. CASE ~Quiet(o, Idle)
      <4>1. PICK x, y : /\ Wrote(o, x, y)
                        /\ Safe' /\ Counted /\ HeldRows /\ Doomed /\ Kept /\ HeldFile => WroteSafe(o, x, y)
        BY <2>7, <3>2, PrepareWrites
      <4>. QED  BY <4>1, WroteInv
    <3>. QED  BY <3>1, <3>2
  <2>8. CASE UploadBlob(o)
    BY <1>1, <2>8, UploadQuiet, QuietInv
  <2>9. CASE CompleteTx(o)
    <3>1. PICK x, y : /\ Wrote(o, x, y)
                      /\ Safe' /\ Counted /\ HeldRows /\ Doomed /\ Kept /\ HeldFile => WroteSafe(o, x, y)
      BY <2>9, CompleteWrites
    <3>. QED  BY <3>1, WroteInv
  <2>10. CASE AbandonUpload(o)
    BY <1>1, <2>10, AbandonQuiet, QuietInv
  <2>11. CASE ApplyStorageDiff(o)
    BY <1>1, <2>11, ApplyQuiet, QuietInv
  <2>12. CASE ApplyFails(o)
    BY <1>1, <2>12, ApplyFailsQuiet, QuietInv
  <2>13. CASE QueueRecycling(o)
    BY <1>1, <2>13, QueueQuiet, QuietInv
  <2>. QED  BY <1>2, <2>1, <2>2, <2>3, <2>4, <2>5, <2>6, <2>7, <2>8, <2>9, <2>10, <2>11, <2>12, <2>13
            DEF Operation, Transaction
<1>3. CASE Recycle
  <2>1. CASE TakeExplicit
    BY <2>1, TakeExplicitWorks, WorkedInv
  <2>2. CASE TakeRoutine
    BY <2>2, TakeRoutineWorks, WorkedInv
  <2>3. CASE DeleteBlobs
    BY <2>3, DeleteBlobsWorks, WorkedInv
  <2>4. CASE RemoveRows
    BY <2>4, RemoveInv
  <2>5. CASE EndTask
    BY <2>5, EndTaskWorks, WorkedInv
  <2>. QED  BY <1>3, <2>1, <2>2, <2>3, <2>4, <2>5 DEF Recycle
<1>4. CASE Restart
  BY <1>4, RestartInv
<1>5. CASE UNCHANGED vars
  BY <1>5, StoreStutter
<1>. QED  BY <1>2, <1>3, <1>4, <1>5 DEF Next

LEMMA StoreInvariant == Spec => []StoreInv
<1>1. StoreInv /\ [Next]_vars => StoreInv'
  BY StoreNext
<1>. QED  BY <1>1, StoreInit, PTL DEF Spec

(***************************************************************************)
(* The rows, the links and the recycling have their types: what a          *)
(* transaction writes, and what the worker takes (inventory/file.go,       *)
(* manager/recycle.go).                                                    *)
(***************************************************************************)
THEOREM StoreTypeCorrect == Spec => []TypeOK
<1>1. StoreInv => TypeOK
  BY DEF StoreInv, Typed, TypeOK, FileRow, EntityRow, Operations, States, Workers
<1>. QED  BY <1>1, StoreInvariant, PTL

(***************************************************************************)
(* reference_count of an entity is the number of files that link to it,    *)
(* whatever is copied, deleted, unlinked, uploaded and recycled at once    *)
(* (inventory/file.go), unless an operation went on with a file it had     *)
(* read before another one changed it.                                     *)
(***************************************************************************)
THEOREM ReferencesAreLinks == Spec => []RefsCountLinks
<1>1. StoreInv => RefsCountLinks
  BY DEF StoreInv, CleanInv, Clean, Counted, RefsCountLinks
<1>. QED  BY <1>1, StoreInvariant, PTL

(***************************************************************************)
(* Recycling takes nothing a file needs (manager/recycle.go): a file's     *)
(* versions have their rows and, once uploaded, their blobs, and the       *)
(* current one is among them, unless an operation went on with a file that *)
(* had changed or a copy linked an entity that had no reference any more.  *)
(***************************************************************************)
THEOREM VersionsAreKept == Spec => []VersionsKept
<1>1. StoreInv => VersionsKept
  <2>. SUFFICES ASSUME StoreInv, mishaps \cap {"outdated", "resurrected"} = {}
       PROVE  \A f \in Live : /\ file[f].entities \subseteq Rows
                              /\ \A e \in file[f].entities : entity[e].uploading \/ e \in blobs
                              /\ file[f].primary \in file[f].entities \cup {None}
    BY DEF VersionsKept
  <2>1. Kept
    BY DEF StoreInv, SafeInv, Safe
  <2>. QED  BY <2>1 DEF Kept
<1>. QED  BY <1>1, StoreInvariant, PTL

-----------------------------------------------------------------------------
(***************************************************************************)
(* The storage that is used.                                               *)
(***************************************************************************)
LEMMA OwedNow ==
  ASSUME Typed
  PROVE  Owed \in [Ops -> Int] /\ SumOf(Owed, Ops) \in Int
<1>1. Owed \in [Ops -> Int]
  BY DEF Typed, Operations, Owed
<1>2. CASE Ops = {}
  <2>1. SumOf(Owed, Ops) = 0
    BY <1>1, <1>2, Finite, SumZero
  <2>. QED  BY <1>1, <2>1
<1>3. CASE Ops # {}
  <2>1. PICK o \in Ops : TRUE
    BY <1>3
  <2>2. \A y \in Ops \ {o} : Owed[y] = Owed[y]
    OBVIOUS
  <2>3. SumOf(Owed, Ops) \in Int
    BY <1>1, <2>2, Finite, SumChange
  <2>. QED  BY <1>1, <2>3
<1>. QED  BY <1>2, <1>3

LEMMA OwedChange ==
  ASSUME Typed, Typed', NEW o \in Ops, NEW x, op' = [op EXCEPT ![o] = x]
  PROVE  /\ x.diff \in Int /\ op[o].diff \in Int /\ SumOf(Owed, Ops) \in Int
         /\ SumOf(Owed', Ops) = SumOf(Owed, Ops) + (x.diff - op[o].diff)
<1>1. op'[o] = x /\ \A p \in Ops \ {o} : op'[p] = op[p]
  BY DEF Typed
<1>2. Owed' \in [Ops -> Int] /\ Owed \in [Ops -> Int]
  BY DEF Typed, Operations, Owed
<1>3. Owed'[o] = x.diff /\ Owed[o] = op[o].diff /\ \A p \in Ops \ {o} : Owed'[p] = Owed[p]
  BY <1>1 DEF Owed
<1>4. SumOf(Owed, Ops) \in Int /\ SumOf(Owed', Ops) = SumOf(Owed, Ops) + (Owed'[o] - Owed[o])
  BY <1>2, <1>3, Finite, SumChange
<1>5. x.diff \in Int /\ op[o].diff \in Int
  BY <1>2, <1>3
<1>. QED  BY <1>3, <1>4, <1>5

LEMMA NothingOwed ==
  ASSUME Typed, \A o \in Ops : op[o].diff = 0
  PROVE  SumOf(Owed, Ops) = 0
<1>1. Owed \in [Ops -> Int] /\ \A o \in Ops : Owed[o] = 0
  BY OwedNow DEF Owed
<1>. QED  BY <1>1, Finite, SumZero

LEMMA NothingOwedNext ==
  ASSUME Typed', \A o \in Ops : op'[o].diff = 0
  PROVE  SumOf(Owed', Ops) = 0
<1>1. Owed' \in [Ops -> Int] /\ \A o \in Ops : Owed'[o] = 0
  BY DEF Typed, Operations, Owed
<1>. QED  BY <1>1, Finite, SumZero

Money == Owing /\ Roomy

(***************************************************************************)
(* What a quiet step spends, and what a transaction does.                  *)
(***************************************************************************)
LEMMA QuietMoney ==
  ASSUME StoreInv, StoreInv', Money, NEW o \in Ops, NEW x, Quiet(o, x),
         used' \in {used, used + op[o].diff},
         mishaps' \subseteq {"copied"} => used' = used + (op[o].diff - x.diff)
  PROVE  Money'
<1>1. Typed /\ Typed' /\ Rowed /\ Rowed'
  BY DEF StoreInv
<1>2. used \in Int /\ worker.diff \in Int /\ worker' = worker /\ file' = file /\ mishaps \subseteq mishaps'
      /\ op' = [op EXCEPT ![o] = x] /\ (x.diff # 0 => x.diff = op[o].diff)
  BY <1>1, WorkerTyped DEF Quiet
<1>3. x.diff \in Int /\ op[o].diff \in Int /\ SumOf(Owed, Ops) \in Int
      /\ SumOf(Owed', Ops) = SumOf(Owed, Ops) + (x.diff - op[o].diff)
  BY <1>1, <1>2, OwedChange
<1>4. Owing'
  <2>. SUFFICES ASSUME mishaps' \subseteq {"copied"}
       PROVE  used' + Pending' = Linked'
    BY DEF Owing
  <2>1. used + Pending = Linked
    BY <1>2 DEF Money, Owing
  <2>2. Linked' = Linked
    BY <1>2 DEF Linked, Live
  <2>3. Pending = SumOf(Owed, Ops) + worker.diff /\ Pending' = SumOf(Owed', Ops) + worker.diff
    BY <1>2, PendingIs
  <2>4. used' = used + (op[o].diff - x.diff)
    OBVIOUS
  <2>. QED  BY <1>2, <1>3, <2>1, <2>2, <2>3, <2>4
<1>5. Roomy'
  <2>. SUFFICES ASSUME mishaps' = {}
       PROVE  used' <= Quota /\ worker'.diff <= 0 /\ \A p \in Ops : op'[p].diff <= 0
    BY DEF Roomy
  <2>1. used <= Quota /\ worker.diff <= 0 /\ \A p \in Ops : op[p].diff <= 0
    BY <1>2 DEF Money, Roomy
  <2>2. Quota \in Int
    BY StoreAssumption DEF StoreAssumption
  <2>3. used' <= Quota
    BY <1>2, <1>3, <2>1, <2>2
  <2>4. x.diff <= 0
    BY <1>2, <2>1
  <2>5. \A p \in Ops : op'[p].diff <= 0
    BY <1>1, <2>1, <2>4, QuietOthers
  <2>. QED  BY <1>2, <2>1, <2>3, <2>5
<1>. QED  BY <1>4, <1>5 DEF Money

LEMMA WroteMoney ==
  ASSUME StoreInv, StoreInv', Money, NEW o \in Ops, NEW x, NEW y, Wrote(o, x, y),
         Safe' => used' + x.diff = used + (Cardinality(y.entities) - Cardinality(file[Target(o)].entities)),
         mishaps' = {} => used' <= Quota /\ x.diff <= 0
  PROVE  Money'
<1>1. Typed /\ Typed' /\ Rowed /\ Rowed' /\ Locking
  BY DEF StoreInv
<1>2. used \in Int /\ used' \in Int /\ worker.diff \in Int /\ worker' = worker /\ mishaps \subseteq mishaps'
      /\ op' = [op EXCEPT ![o] = x]
  BY <1>1, WorkerTyped DEF Wrote
<1>3. op[o].diff = 0
  BY <1>1 DEF Wrote, Locking
<1>4. x.diff \in Int /\ SumOf(Owed, Ops) \in Int /\ SumOf(Owed', Ops) = SumOf(Owed, Ops) + x.diff
  <2>1. x.diff \in Int /\ op[o].diff \in Int /\ SumOf(Owed, Ops) \in Int
        /\ SumOf(Owed', Ops) = SumOf(Owed, Ops) + (x.diff - op[o].diff)
    BY <1>1, <1>2, OwedChange
  <2>. QED  BY <1>3, <2>1
<1>5. PICK f : f = Target(o)
  OBVIOUS
<1>6. f \in Files /\ file'[f] = y /\ \A g \in Files \ {f} : file'[g] = file[g]
  BY <1>1, <1>5, WroteOthers
<1>7. Owing'
  <2>. SUFFICES ASSUME mishaps' \subseteq {"copied"}
       PROVE  used' + Pending' = Linked'
    BY DEF Owing
  <2>1. used + Pending = Linked
    BY <1>2 DEF Money, Owing
  <2>2. used' + x.diff = used + (Cardinality(y.entities) - Cardinality(file[f].entities))
    BY <1>5 DEF Safe
  <2>3. Entries \in [Files -> SUBSET Entities] /\ Entries' \in [Files -> SUBSET Entities]
        /\ Linked = Cardinality(Links(Entries)) /\ Linked' = Cardinality(Links(Entries'))
    BY <1>1, LinksNow, LinksNext
  <2>4. Entries[f] = file[f].entities /\ Entries'[f] = y.entities
        /\ \A g \in Files \ {f} : Entries'[g] = Entries[g]
    BY <1>6 DEF Entries
  <2>5. Linked' = Linked + Cardinality(y.entities) - Cardinality(file[f].entities)
    <3>1. Cardinality(Links(Entries')) =
            Cardinality(Links(Entries)) + Cardinality(Entries'[f]) - Cardinality(Entries[f])
      BY <1>6, <2>3, <2>4, LinksChange
    <3>. QED  BY <2>3, <2>4, <3>1
  <2>6. Pending = SumOf(Owed, Ops) + worker.diff /\ Pending' = SumOf(Owed', Ops) + worker.diff
    BY <1>2, PendingIs
  <2>7. Cardinality(y.entities) \in Nat /\ Cardinality(file[f].entities) \in Nat /\ Linked \in Int
    <3>1. y.entities \in SUBSET Entities /\ file[f].entities \in SUBSET Entities
      BY <1>6, <2>3, <2>4
    <3>2. Linked \in Int
      <4>1. Cardinality(Links(Entries)) \in Nat
        BY <1>6, <2>3, LinksOf
      <4>. QED  BY <2>3, <4>1
    <3>. QED  BY <3>1, <3>2, Finite
  <2>8. PICK a, b, l, s : a = Cardinality(y.entities) /\ b = Cardinality(file[f].entities)
                          /\ l = Linked /\ s = SumOf(Owed, Ops)
    OBVIOUS
  <2>9. a \in Int /\ b \in Int /\ l \in Int /\ s \in Int
    BY <1>4, <2>7, <2>8
  <2>10. used + (s + worker.diff) = l /\ used' + x.diff = used + (a - b)
    BY <2>1, <2>2, <2>6, <2>8
  <2>11. Linked' = l + a - b /\ Pending' = (s + x.diff) + worker.diff
    BY <1>4, <2>5, <2>6, <2>8
  <2>12. used' + ((s + x.diff) + worker.diff) = l + a - b
    BY <1>2, <1>4, <2>9, <2>10
  <2>. QED  BY <2>11, <2>12
<1>8. Roomy'
  <2>. SUFFICES ASSUME mishaps' = {}
       PROVE  used' <= Quota /\ worker'.diff <= 0 /\ \A p \in Ops : op'[p].diff <= 0
    BY DEF Roomy
  <2>1. worker.diff <= 0 /\ \A p \in Ops : op[p].diff <= 0
    BY <1>2 DEF Money, Roomy
  <2>2. \A p \in Ops : op'[p].diff <= 0
    BY <1>1, <2>1, WroteOthers
  <2>. QED  BY <1>2, <2>1, <2>2
<1>. QED  BY <1>7, <1>8 DEF Money

LEMMA DeleteMoney ==
  ASSUME StoreInv, StoreInv', Money, NEW o \in Ops, DeleteTx(o)
  PROVE  Money'
<1>1. PICK x, y : /\ Wrote(o, x, y)
                  /\ x.diff = -Cardinality(op[o].seen.entities) /\ used' = used /\ mishaps' = mishaps
                  /\ y.entities = {} /\ op[o].call = "delete" /\ op[o].pc = "locked"
  BY DeleteWrites
<1>2. op[o].seen.entities \in SUBSET Entities /\ used \in Int /\ Target(o) = op[o].file
  BY <1>1, LockedFile DEF Seen, Target
<1>3. Cardinality(op[o].seen.entities) \in Nat /\ Cardinality({}) = 0
  BY <1>2, Finite, FS_EmptySet
<1>4. Safe' => file[Target(o)].entities = op[o].seen.entities
  BY <1>1, <1>2 DEF Safe, StoreInv, SafeInv, HeldFile
<1>5. mishaps' = {} => used' <= Quota /\ x.diff <= 0
  BY <1>1, <1>3 DEF Money, Roomy
<1>6. Safe' => used' + x.diff = used + (Cardinality(y.entities) - Cardinality(file[Target(o)].entities))
  BY <1>1, <1>2, <1>3, <1>4
<1>. QED  BY <1>1, <1>5, <1>6, WroteMoney

LEMMA RefusedMoney ==
  ASSUME StoreInv, StoreInv', Money, NEW o \in Ops, Quiet(o, Idle), op[o].pc = "locked", used' = used
  PROVE  Money'
<1>1. op[o].diff = 0 /\ used \in Int
  BY DEF StoreInv, Locking, Typed
<1>. QED  BY <1>1, IdleTyped, QuietMoney

LEMMA CopyMoney ==
  ASSUME StoreInv, StoreInv', Money, NEW o \in Ops, CopyTx(o)
  PROVE  Money'
<1>1. CASE Quiet(o, Idle) /\ op[o].pc = "locked" /\ used' = used
  BY <1>1, RefusedMoney
<1>2. CASE ~(Quiet(o, Idle) /\ op[o].pc = "locked" /\ used' = used)
  <2>1. PICK x, y : /\ Wrote(o, x, y)
                    /\ used' = used /\ "copied" \in mishaps' /\ op[o].pc = "locked"
                    /\ Safe' => /\ file[Target(o)].entities = {}
                                /\ x.diff = Cardinality(y.entities)
    BY <1>2, CopyWrites
  <2>2. Cardinality({}) = 0 /\ used \in Int
    BY <2>1, LockedFile, FS_EmptySet
  <2>3. y.entities \in SUBSET Entities
    BY <2>1 DEF Wrote, FileRow
  <2>4. Cardinality(y.entities) \in Nat
    BY <2>3, Finite
  <2>5. Safe' => used' + x.diff = used + (Cardinality(y.entities) - Cardinality(file[Target(o)].entities))
    <3>1. Safe' => Cardinality(file[Target(o)].entities) = 0
      BY <2>1, <2>2
    <3>2. Safe' => used' + x.diff = used + Cardinality(y.entities)
      BY <2>1
    <3>. QED  BY <2>2, <2>4, <3>1, <3>2
  <2>6. mishaps' # {}
    BY <2>1
  <2>. QED  BY <2>1, <2>5, <2>6, WroteMoney
<1>. QED  BY <1>1, <1>2

LEMMA UnlinkMoney ==
  ASSUME StoreInv, StoreInv', Money, NEW o \in Ops, UnlinkTx(o)
  PROVE  Money'
<1>1. CASE Quiet(o, Idle) /\ op[o].pc = "locked" /\ used' = used
  BY <1>1, RefusedMoney
<1>2. CASE ~(Quiet(o, Idle) /\ op[o].pc = "locked" /\ used' = used)
  <2>1. PICK x, y : /\ Wrote(o, x, y)
                    /\ x.diff = -1 /\ used' = used /\ mishaps' = mishaps /\ op[o].pc = "locked"
                    /\ HeldRows => op[o].version \in file[Target(o)].entities
                    /\ y.entities = file[Target(o)].entities \ {op[o].version}
    BY <1>2, UnlinkWrites
  <2>2. Safe' => HeldRows
    BY <2>1 DEF Safe, Clean, StoreInv, CleanInv
  <2>3. used \in Int /\ file[Target(o)].entities \in SUBSET Entities
    BY <2>1, LockedFile DEF FileRow
  <2>4. IsFiniteSet(file[Target(o)].entities) /\ Cardinality(file[Target(o)].entities) \in Nat
    BY <2>3, Finite
  <2>5. Safe' => Cardinality(y.entities) = Cardinality(file[Target(o)].entities) - 1
    <3>. SUFFICES ASSUME Safe'
         PROVE  Cardinality(y.entities) = Cardinality(file[Target(o)].entities) - 1
      OBVIOUS
    <3>1. op[o].version \in file[Target(o)].entities
      BY <2>1, <2>2
    <3>2. Cardinality(file[Target(o)].entities \ {op[o].version}) = Cardinality(file[Target(o)].entities) - 1
      BY <2>4, <3>1, FS_RemoveElement
    <3>. QED  BY <2>1, <3>2
  <2>6. Safe' => used' + x.diff = used + (Cardinality(y.entities) - Cardinality(file[Target(o)].entities))
    BY <2>1, <2>3, <2>4, <2>5
  <2>7. mishaps' = {} => used' <= Quota /\ x.diff <= 0
    BY <2>1 DEF Money, Roomy
  <2>. QED  BY <2>1, <2>6, <2>7, WroteMoney
<1>. QED  BY <1>1, <1>2

LEMMA RevertMoney ==
  ASSUME StoreInv, StoreInv', Money, NEW o \in Ops, RevertTx(o)
  PROVE  Money'
<1>1. CASE Quiet(o, Idle) /\ op[o].pc = "locked" /\ used' = used
  BY <1>1, RefusedMoney
<1>2. CASE ~(Quiet(o, Idle) /\ op[o].pc = "locked" /\ used' = used)
  <2>1. PICK x, y : /\ Wrote(o, x, y)
                    /\ x.diff = 0 /\ used' = used /\ mishaps' = mishaps /\ op[o].pc = "locked"
                    /\ y.entities = file[Target(o)].entities
    BY <1>2, RevertWrites
  <2>3. used \in Int /\ file[Target(o)].entities \in SUBSET Entities
    BY <2>1, LockedFile DEF FileRow
  <2>4. Cardinality(file[Target(o)].entities) \in Nat
    BY <2>3, Finite
  <2>6. used' + x.diff = used + (Cardinality(y.entities) - Cardinality(file[Target(o)].entities))
    BY <2>1, <2>3, <2>4
  <2>7. mishaps' = {} => used' <= Quota /\ x.diff <= 0
    BY <2>1 DEF Money, Roomy
  <2>. QED  BY <2>1, <2>6, <2>7, WroteMoney
<1>. QED  BY <1>1, <1>2

LEMMA PrepareMoney ==
  ASSUME StoreInv, StoreInv', Money, NEW o \in Ops, PrepareTx(o)
  PROVE  Money'
<1>1. CASE Quiet(o, Idle) /\ op[o].pc = "locked" /\ used' = used
  BY <1>1, RefusedMoney
<1>2. CASE ~(Quiet(o, Idle) /\ op[o].pc = "locked" /\ used' = used)
  <2>1. PICK x, y, e, rest :
          /\ Wrote(o, x, y)
          /\ rest \in SUBSET Entities /\ x.diff = -Cardinality(rest)
          /\ used' = used + 1 /\ used + 1 <= Quota /\ mishaps' = mishaps /\ op[o].pc = "locked"
          /\ y.entities = (file[Target(o)].entities \ rest) \cup {e}
          /\ e \notin file[Target(o)].entities
          /\ HeldFile => rest \subseteq file[Target(o)].entities
    BY <1>2, PrepareWrites
  <2>2. Safe' => HeldFile
    BY <2>1 DEF Safe, StoreInv, SafeInv
  <2>3. used \in Int /\ file[Target(o)].entities \in SUBSET Entities
    BY <2>1, LockedFile DEF FileRow
  <2>4. IsFiniteSet(file[Target(o)].entities) /\ Cardinality(file[Target(o)].entities) \in Nat
        /\ Cardinality(rest) \in Nat
    BY <2>1, <2>3, Finite
  <2>5. Safe' => Cardinality(y.entities) = Cardinality(file[Target(o)].entities) - Cardinality(rest) + 1
    <3>. SUFFICES ASSUME Safe'
         PROVE  Cardinality(y.entities) = Cardinality(file[Target(o)].entities) - Cardinality(rest) + 1
      OBVIOUS
    <3>1. PICK had, kept : had = file[Target(o)].entities /\ kept = had \ rest
      OBVIOUS
    <3>2. had \cap rest = rest
      BY <2>1, <2>2, <3>1
    <3>6. IsFiniteSet(had) /\ Cardinality(had \cap rest) = Cardinality(rest)
      BY <2>4, <3>1, <3>2
    <3>7. IsFiniteSet(had \ rest) /\ Cardinality(had \ rest) = Cardinality(had) - Cardinality(had \cap rest)
      BY <3>6, FS_Difference
    <3>3. IsFiniteSet(kept) /\ Cardinality(kept) = Cardinality(had) - Cardinality(rest)
      BY <3>1, <3>6, <3>7
    <3>4. e \notin kept
      BY <2>1, <3>1
    <3>5. Cardinality(kept \cup {e}) = Cardinality(kept) + 1
      BY <3>3, <3>4, FS_AddElement
    <3>. QED  BY <2>1, <3>1, <3>3, <3>5
  <2>6. Safe' => used' + x.diff = used + (Cardinality(y.entities) - Cardinality(file[Target(o)].entities))
    BY <2>1, <2>3, <2>4, <2>5
  <2>7. mishaps' = {} => used' <= Quota /\ x.diff <= 0
    BY <2>1, <2>4
  <2>. QED  BY <2>1, <2>6, <2>7, WroteMoney
<1>. QED  BY <1>1, <1>2

LEMMA CompleteMoney ==
  ASSUME StoreInv, StoreInv', Money, NEW o \in Ops, CompleteTx(o)
  PROVE  Money'
<1>1. PICK x, y, capped :
        /\ Wrote(o, x, y)
        /\ capped \subseteq file[Target(o)].entities /\ x.diff = -Cardinality(capped)
        /\ y.entities = file[Target(o)].entities \ capped
        /\ used' = used /\ mishaps' = mishaps /\ op[o].pc = "complete"
  BY CompleteWrites
<1>2. used \in Int /\ file[Target(o)].entities \in SUBSET Entities /\ capped \in SUBSET Entities
  BY <1>1, LockedFile DEF FileRow
<1>3. PICK had : had = file[Target(o)].entities
  OBVIOUS
<1>4. IsFiniteSet(had) /\ Cardinality(had) \in Nat /\ Cardinality(capped) \in Nat
  BY <1>2, <1>3, Finite
<1>5. had \cap capped = capped
  BY <1>1, <1>3
<1>6. Cardinality(had \ capped) = Cardinality(had) - Cardinality(capped)
  BY <1>4, <1>5, FS_Difference
<1>7. used' + x.diff = used + (Cardinality(y.entities) - Cardinality(file[Target(o)].entities))
  BY <1>1, <1>2, <1>3, <1>4, <1>6
<1>8. mishaps' = {} => used' <= Quota /\ x.diff <= 0
  BY <1>1, <1>4 DEF Money, Roomy
<1>. QED  BY <1>1, <1>7, <1>8, WroteMoney

(***************************************************************************)
(* The other steps.                                                        *)
(***************************************************************************)
LEMMA NothingPending ==
  ASSUME StoreInv, NEW o \in Ops, op[o].pc \notin {"upload", "apply"}
  PROVE  op[o].diff = 0 /\ used \in Int
BY DEF StoreInv, Locking, Typed

LEMMA QuietNothing ==
  ASSUME StoreInv, StoreInv', Money, NEW o \in Ops, NEW x, Quiet(o, x), x.diff = 0,
         op[o].pc \notin {"upload", "apply"}, used' = used
  PROVE  Money'
BY NothingPending, QuietMoney

LEMMA AppliedMoney ==
  ASSUME StoreInv, StoreInv', Money, NEW o \in Ops, ApplyStorageDiff(o) \/ ApplyFails(o)
  PROVE  Money'
<1>1. used \in Int /\ op[o].diff \in Int /\ Typed
  BY CountersTyped DEF StoreInv
<1>2. PICK x \in {Idle, [Idle EXCEPT !.pc = "queue", !.stale = op[o].stale]} : Quiet(o, x)
  BY <1>1, ApplyQuiet, ApplyFailsQuiet
<1>3. x.diff = 0
  <2>1. CASE x = Idle
    BY <2>1, IdleTyped
  <2>2. CASE x = [Idle EXCEPT !.pc = "queue", !.stale = op[o].stale]
    BY <2>2 DEF Idle
  <2>. QED  BY <1>2, <2>1, <2>2
<1>4. CASE ApplyStorageDiff(o)
  <2>1. used' = used + op[o].diff
    BY <1>4 DEF ApplyStorageDiff
  <2>2. used' = used + (op[o].diff - x.diff)
    BY <1>1, <1>3, <2>1
  <2>. QED  BY <1>2, <2>1, <2>2, QuietMoney
<1>5. CASE ApplyFails(o)
  <2>1. used' = used /\ mishaps' = IF op[o].diff # 0 THEN mishaps \cup {"unapplied"} ELSE mishaps
    BY <1>5 DEF ApplyFails, Mishap, database
  <2>2. mishaps' \subseteq {"copied"} => used' = used + (op[o].diff - x.diff)
    <3>1. mishaps' \subseteq {"copied"} => op[o].diff = 0
      BY <2>1
    <3>. QED  BY <1>1, <1>3, <2>1, <3>1
  <2>3. used' \in {used, used + op[o].diff}
    BY <2>1
  <2>. QED  BY <1>2, <2>2, <2>3, QuietMoney
<1>. QED  BY <1>4, <1>5

LEMMA UploadMoney ==
  ASSUME StoreInv, StoreInv', Money, NEW o \in Ops, UploadBlob(o)
  PROVE  Money'
<1>1. PICK x : Quiet(o, x) /\ x.diff = 0
  BY UploadQuiet DEF StoreInv
<1>2. used \in Int /\ op[o].diff \in Int /\ used' = used + op[o].diff
  BY CountersTyped DEF StoreInv, UploadBlob
<1>3. used' = used + (op[o].diff - x.diff)
  BY <1>1, <1>2
<1>. QED  BY <1>1, <1>2, <1>3, QuietMoney

LEMMA SameMoney ==
  ASSUME StoreInv, StoreInv', Money, UNCHANGED <<file, op>>,
         worker'.diff = 0, used' = used + worker.diff, mishaps \subseteq mishaps'
  PROVE  Money'
<1>1. used \in Int /\ worker.diff \in Int
  BY WorkerTyped
<1>2. SumOf(Owed, Ops) \in Int /\ Owed' = Owed
  BY OwedNow DEF StoreInv, Owed
<1>3. Owing'
  <2>. SUFFICES ASSUME mishaps' \subseteq {"copied"}
       PROVE  used' + Pending' = Linked'
    BY DEF Owing
  <2>1. used + Pending = Linked
    BY DEF Money, Owing
  <2>2. Linked' = Linked
    BY DEF Linked, Live
  <2>3. Pending = SumOf(Owed, Ops) + worker.diff /\ Pending' = SumOf(Owed, Ops) + 0
    BY <1>2, PendingIs
  <2>. QED  BY <1>1, <1>2, <2>1, <2>2, <2>3
<1>4. Roomy'
  <2>. SUFFICES ASSUME mishaps' = {}
       PROVE  used' <= Quota /\ worker'.diff <= 0 /\ \A p \in Ops : op'[p].diff <= 0
    BY DEF Roomy
  <2>1. used <= Quota /\ worker.diff <= 0 /\ \A p \in Ops : op[p].diff <= 0
    BY DEF Money, Roomy
  <2>2. Quota \in Int
    BY StoreAssumption DEF StoreAssumption
  <2>3. used' <= Quota
    BY <1>1, <2>1, <2>2
  <2>. QED  BY <2>1, <2>3
<1>. QED  BY <1>3, <1>4 DEF Money

LEMMA RemoveMoney ==
  ASSUME StoreInv, StoreInv', Money, RemoveRows
  PROVE  Money'
<1>1. /\ Safe => file' = file /\ worker'.diff = 0
      /\ worker.diff = 0 /\ UNCHANGED <<op, used, mishaps>>
  BY RemoveInv
<1>2. used \in Int
  BY WorkerTyped
<1>3. CASE Safe
  BY <1>1, <1>2, <1>3, SameMoney
<1>4. CASE ~Safe
  <2>1. mishaps' # {} /\ ~(mishaps' \subseteq {"copied"})
    BY <1>1, <1>4 DEF Safe
  <2>. QED  BY <2>1 DEF Money, Owing, Roomy
<1>. QED  BY <1>3, <1>4

LEMMA RestartMoney ==
  ASSUME StoreInv, StoreInv', Money, Restart
  PROVE  Money'
<1>1. UNCHANGED <<file, used>> /\ op' = [o \in Ops |-> Idle] /\ worker' = Resting
      /\ mishaps' = IF worker.diff # 0 \/ \E o \in Ops : op[o].diff # 0
                    THEN mishaps \cup {"unapplied"} ELSE mishaps
  BY DEF Restart, database, Mishap
<1>2. worker'.diff = 0 /\ \A o \in Ops : op'[o].diff = 0
  BY <1>1, IdleTyped DEF Resting
<1>3. Typed /\ Typed'
  BY DEF StoreInv
<1>4. CASE worker.diff # 0 \/ \E o \in Ops : op[o].diff # 0
  <2>1. mishaps' # {} /\ ~(mishaps' \subseteq {"copied"})
    BY <1>1, <1>4
  <2>. QED  BY <2>1 DEF Money, Owing, Roomy
<1>5. CASE worker.diff = 0 /\ \A o \in Ops : op[o].diff = 0
  <2>1. SumOf(Owed, Ops) = 0
    BY <1>3, <1>5, NothingOwed
  <2>2. SumOf(Owed', Ops) = 0
    BY <1>2, <1>3, NothingOwedNext
  <2>3. Pending = SumOf(Owed, Ops) + 0 /\ Pending' = SumOf(Owed', Ops) + 0
    BY <1>2, <1>5, PendingIs
  <2>4. Pending' = Pending
    BY <2>1, <2>2, <2>3
  <2>5. Linked' = Linked /\ mishaps' = mishaps
    BY <1>1, <1>5 DEF Linked, Live
  <2>6. Owing'
    BY <1>1, <2>4, <2>5 DEF Money, Owing
  <2>7. Roomy'
    BY <1>1, <1>2, <2>5 DEF Money, Roomy
  <2>. QED  BY <2>6, <2>7 DEF Money
<1>. QED  BY <1>4, <1>5

LEMMA MoneyInit == Init => Money
<1>. SUFFICES ASSUME Init
     PROVE  Money
  OBVIOUS
<1>1. StoreInv
  BY StoreInit
<1>2. used = 1 /\ op = [o \in Ops |-> Idle] /\ worker.diff = 0
  BY DEF Init, Resting
<1>3. \A o \in Ops : op[o].diff = 0
  BY <1>2, IdleTyped
<1>4. Pending = SumOf(Owed, Ops) + 0 /\ SumOf(Owed, Ops) = 0
  BY <1>1, <1>2, <1>3, NothingOwed, PendingIs DEF StoreInv
<1>5. Linked = 1
  <2>1. PICK f \in Files, e \in Entities :
          /\ file[f].state = "live" /\ file[f].entities = {e}
          /\ \A g \in Files \ {f} : file[g] = NoFile
    BY FirstFile
  <2>2. Live = {f}
    BY <2>1 DEF Live, NoFile
  <2>3. {p \in Live \X Entities : p[2] \in file[p[1]].entities} = {<<f, e>>}
    BY <2>1, <2>2
  <2>. QED  BY <2>3, FS_Singleton DEF Linked
<1>6. Owing
  BY <1>2, <1>4, <1>5 DEF Owing
<1>7. Roomy
  BY <1>2, <1>3, StoreAssumption DEF Roomy, StoreAssumption
<1>. QED  BY <1>6, <1>7 DEF Money

LEMMA MoneyNext ==
  ASSUME StoreInv, StoreInv', Money, [Next]_vars
  PROVE  Money'
<1>1. Typed /\ Locking /\ Rowed /\ Noted
  BY DEF StoreInv
<1>2. ASSUME NEW o \in Ops, Operation(o)
      PROVE  Money'
  <2>1. CASE \E f \in Files : (\E c \in Calls : Call(o, c, f)) \/ CallCreate(o, f)
    <3>1. op[o].pc = "idle" /\ used' = used
      BY <2>1 DEF Call, CallCreate, At, database
    <3>2. PICK x : Quiet(o, x) /\ x.diff = 0
      BY <1>1, <2>1, CallQuiet, CallCreateQuiet
    <3>. QED  BY <3>1, <3>2, QuietNothing
  <2>2. CASE Acquire(o)
    <3>1. op[o].pc = "lock" /\ used' = used
      BY <2>2 DEF Acquire, At, database
    <3>2. PICK x : Quiet(o, x) /\ x.diff = 0
      BY <1>1, <2>2, AcquireQuiet
    <3>. QED  BY <3>1, <3>2, QuietNothing
  <2>3. CASE Transaction(o)
    <3>1. CASE AbandonUpload(o)
      <4>1. op[o].pc = "complete" /\ used' = used /\ Quiet(o, Idle)
        BY <1>1, <3>1, AbandonQuiet DEF AbandonUpload, At, database
      <4>. QED  BY <4>1, IdleTyped, QuietNothing
    <3>. QED  BY <2>3, <3>1, DeleteMoney, CopyMoney, UnlinkMoney, RevertMoney, PrepareMoney,
                 UploadMoney, CompleteMoney DEF Transaction
  <2>4. CASE ApplyStorageDiff(o) \/ ApplyFails(o)
    BY <2>4, AppliedMoney
  <2>5. CASE QueueRecycling(o)
    <3>1. op[o].pc = "queue" /\ used' = used /\ Quiet(o, Idle)
      BY <1>1, <2>5, QueueQuiet DEF QueueRecycling, At, database
    <3>. QED  BY <3>1, IdleTyped, QuietNothing
  <2>. QED  BY <1>2, <2>1, <2>2, <2>3, <2>4, <2>5 DEF Operation
<1>3. CASE Recycle
  <2>1. CASE TakeExplicit
    <3>1. Worked({}) /\ used' = used /\ worker.diff = 0 /\ used \in Int
      BY <2>1, TakeExplicitWorks, WorkerTyped DEF TakeExplicit
    <3>. QED  BY <3>1, SameMoney DEF Worked
  <2>2. CASE TakeRoutine
    <3>1. Worked({}) /\ used' = used /\ worker.diff = 0 /\ used \in Int
      BY <2>2, TakeRoutineWorks, WorkerTyped DEF TakeRoutine
    <3>. QED  BY <3>1, SameMoney DEF Worked
  <2>3. CASE DeleteBlobs
    <3>1. PICK B : Worked(B)
      BY <2>3, DeleteBlobsWorks
    <3>2. used' = used /\ worker.diff = 0 /\ used \in Int
      BY <2>3, DeleteBlobsWorks, WorkerTyped
    <3>. QED  BY <3>1, <3>2, SameMoney DEF Worked
  <2>4. CASE RemoveRows
    BY <2>4, RemoveMoney
  <2>5. CASE EndTask
    <3>1. Worked({}) /\ used' = used + worker.diff
      BY <2>5, EndTaskWorks
    <3>. QED  BY <3>1, SameMoney DEF Worked
  <2>. QED  BY <1>3, <2>1, <2>2, <2>3, <2>4, <2>5 DEF Recycle
<1>4. CASE Restart
  BY <1>4, RestartMoney
<1>5. CASE UNCHANGED vars
  <2>1. UNCHANGED <<file, op, used, worker, mishaps>>
    BY <1>5 DEF vars
  <2>2. Owed' = Owed
    BY <2>1 DEF Owed
  <2>3. Pending' = Pending /\ Linked' = Linked
    BY <2>1, <2>2, PendingIs DEF Linked, Live
  <2>4. Owing' /\ Roomy'
    BY <2>1, <2>3 DEF Money, Owing, Roomy
  <2>. QED  BY <2>4 DEF Money
<1>. QED  BY <1>2, <1>3, <1>4, <1>5 DEF Next

LEMMA MoneyInvariant == Spec => [](StoreInv /\ Money)
<1>1. Init => StoreInv /\ Money
  BY StoreInit, MoneyInit
<1>2. StoreInv /\ Money /\ [Next]_vars => StoreInv' /\ Money'
  BY StoreNext, MoneyNext
<1>. QED  BY <1>1, <1>2, PTL DEF Spec

(***************************************************************************)
(* users.storage is the size of what the owner's files link to, once the   *)
(* transactions that have committed have added their differences           *)
(* (inventory/tx.go), whatever is created, copied, deleted, unlinked and   *)
(* recycled at once, as long as no difference was lost with the process    *)
(* or in an error, no operation went on with a file that had changed, and  *)
(* no copy linked an entity that had no reference any more.                *)
(***************************************************************************)
THEOREM UsedStorageIsLinked == Spec => []UsedIsLinked
<1>1. Money => UsedIsLinked
  BY DEF Money, Owing, UsedIsLinked
<1>. QED  BY <1>1, MoneyInvariant, PTL

(***************************************************************************)
(* Uploads that run at once never take more than the quota together: the   *)
(* reservation is the check (Tx.ReserveStorage in inventory/tx.go), as     *)
(* long as no copy, which reserves nothing, and no other mishap came.      *)
(***************************************************************************)
THEOREM UploadsStayInQuota == Spec => []UploadsWithinQuota
<1>1. StoreInv /\ Money => UploadsWithinQuota
  <2>. SUFFICES ASSUME StoreInv, Money, mishaps = {}
       PROVE  Linked <= Quota
    BY DEF UploadsWithinQuota
  <2>1. used + Pending = Linked /\ used <= Quota /\ worker.diff <= 0 /\ \A o \in Ops : op[o].diff <= 0
    BY DEF Money, Owing, Roomy
  <2>2. Owed \in [Ops -> Int] /\ \A o \in Ops : Owed[o] <= 0
    BY <2>1, OwedNow DEF Owed, StoreInv
  <2>3. SumOf(Owed, Ops) \in Int /\ SumOf(Owed, Ops) <= 0
    BY <2>2, Finite, SumBelow
  <2>4. Pending = SumOf(Owed, Ops) + worker.diff
    BY PendingIs
  <2>5. Quota \in Int /\ used \in Int /\ worker.diff \in Int
    BY WorkerTyped, StoreAssumption DEF StoreAssumption
  <2>. QED  BY <2>1, <2>3, <2>4, <2>5
<1>. QED  BY <1>1, MoneyInvariant, PTL
=============================================================================
