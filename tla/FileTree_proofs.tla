-------------------------- MODULE FileTree_proofs --------------------------
(***************************************************************************)
(* Proofs about the tree of files, for any ids, names, depth and requests, *)
(* unless a file has two paths in what a move reads (TornReads).           *)
(*                                                                         *)
(* The argument: the rows are a tree in which a path leads to one file     *)
(* (Tree); what a request has read was so once, and is so still where the  *)
(* database agrees with it (Agreed); from then on the paths it has locked  *)
(* stand, as what others change is at paths that they have locked          *)
(* (OthersStand), and no locked path is above another's (NoClash).  For    *)
(* the same reason nothing comes or goes below what a delete has listed    *)
(* (Gathered).                                                             *)
(***************************************************************************)
EXTENDS FileTree, FiniteSetTheorems, SequenceTheorems, TLAPS

(***************************************************************************)
(* A set of numbers that is not empty has a least one.                     *)
(***************************************************************************)
LEMMA LeastExists ==
  ASSUME NEW S, S \subseteq Nat, S # {}
  PROVE  \E m \in S : \A y \in S : m <= y
<1>1. PICK n \in S : n \in Nat
  OBVIOUS
<1>2. PICK K : K = {0 .. m : m \in S \cap 0 .. n}
  OBVIOUS
<1>11. PICK N : N = 0 .. n
  OBVIOUS
<1>3. IsFiniteSet(N)
  BY <1>1, <1>11, FS_Interval
<1>5. K \subseteq SUBSET N
  BY <1>1, <1>2, <1>11
<1>6. K # {}
  BY <1>1, <1>2
<1>4. IsWellFoundedOn(StrictSubsetOrdering(N), FiniteSubsetsOf(N)) /\ FiniteSubsetsOf(N) = SUBSET N
  BY <1>3, FS_StrictSubsetOrderingWellFounded, FS_FiniteSubsetsOfFinite
<1>7. PICK T \in K : \A U \in K : ~ (<<U, T>> \in StrictSubsetOrdering(N))
  BY ONLY <1>4, <1>5, <1>6, WFMin
<1>8. PICK m \in S \cap 0 .. n : T = 0 .. m
  BY <1>2, <1>7
<1>9. ASSUME NEW y \in S, y < m PROVE FALSE
  <2>1. m \in Nat /\ y \in Nat /\ y \in S \cap 0 .. n
    BY <1>1, <1>8, <1>9
  <2>2. 0 .. y \in K
    BY <1>2, <2>1
  <2>3. 0 .. y \in SUBSET N
    BY <1>5, <2>2
  <2>4. 0 .. y \subseteq 0 .. m /\ m \in 0 .. m /\ m \notin 0 .. y
    BY <1>9, <2>1
  <2>5. T \in SUBSET N
    BY <1>5, <1>7
  <2>6. <<0 .. y, T>> \in StrictSubsetOrdering(N)
    BY <1>8, <2>3, <2>4, <2>5 DEF StrictSubsetOrdering
  <2>. QED  BY <1>7, <2>2, <2>6
<1>10. m \in Nat /\ \A y \in S : y \in Nat /\ ~(y < m)
  BY <1>8, <1>9
<1>. QED  BY <1>8, <1>10

-----------------------------------------------------------------------------
(***************************************************************************)
(* The walk down a path: the recursive function exists.                    *)
(***************************************************************************)
Rung(table, path, f, n) == IF n <= 1 THEN {path[1]} ELSE Entries(table, f[n - 1], path[n])

LEMMA WalkRule ==
  ASSUME NEW table, NEW path
  PROVE  \A n \in Nat : Walk(table, path)[n] = Rung(table, path, Walk(table, path), n)
<1>. DEFINE Good(f, m) == f = [n \in 0 .. m |-> Rung(table, path, f, n)]
<1>1. ASSUME NEW m \in Nat, ~\E f : Good(f, m) PROVE FALSE
  <2>1. PICK Bad : Bad = {k \in Nat : ~\E f : Good(f, k)}
    OBVIOUS
  <2>2. Bad \subseteq Nat /\ Bad # {}
    BY <1>1, <2>1
  <2>3. PICK k \in Bad : \A y \in Bad : k <= y
    BY ONLY <2>2, LeastExists
  <2>4. k \in Nat /\ ~\E f : Good(f, k)
    BY <2>1, <2>3
  <2>5. CASE k = 0
    <3>1. PICK f : f = [n \in 0 .. 0 |-> {path[1]}]
      OBVIOUS
    <3>2. \A n \in 0 .. 0 : Rung(table, path, f, n) = {path[1]}
      BY DEF Rung
    <3>3. Good(f, 0)
      BY <3>1, <3>2
    <3>. QED  BY <2>4, <2>5, <3>3
  <2>6. CASE k > 0
    <3>1. k - 1 \in Nat /\ k - 1 \notin Bad
      BY <2>3, <2>4, <2>6
    <3>2. PICK f : Good(f, k - 1)
      BY <2>1, <3>1
    <3>3. PICK g : g = [n \in 0 .. k |-> Rung(table, path, f, n)]
      OBVIOUS
    <3>4. \A n \in 0 .. k - 1 : f[n] = Rung(table, path, f, n)
      BY <3>2
    <3>5. ASSUME NEW n \in 0 .. k PROVE Rung(table, path, g, n) = Rung(table, path, f, n)
      <4>1. CASE n <= 1
        BY <4>1 DEF Rung
      <4>2. CASE ~(n <= 1)
        <5>1. n - 1 \in 0 .. k - 1 /\ n - 1 \in 0 .. k
          BY <4>2, <2>4
        <5>2. g[n - 1] = f[n - 1]
          BY <3>3, <3>4, <5>1
        <5>. QED  BY <4>2, <5>2 DEF Rung
      <4>. QED  BY <4>1, <4>2
    <3>6. Good(g, k)
      BY <3>3, <3>5
    <3>. QED  BY <2>4, <3>6
  <2>. QED  BY <2>4, <2>5, <2>6
<1>2. ASSUME NEW m \in Nat, NEW k \in Nat, NEW f, NEW g, Good(f, m), Good(g, k),
             NEW x \in 0 .. m, x \in 0 .. k
      PROVE  f[x] = g[x]
  <2>1. PICK Bad : Bad = {y \in Nat : y <= x /\ f[y] # g[y]}
    OBVIOUS
  <2>2. SUFFICES ASSUME f[x] # g[x] PROVE FALSE
    OBVIOUS
  <2>3. Bad \subseteq Nat /\ Bad # {}
    BY <2>1, <2>2
  <2>4. PICK y \in Bad : \A z \in Bad : y <= z
    BY ONLY <2>3, LeastExists
  <2>5. y \in Nat /\ y <= x /\ f[y] # g[y]
    BY <2>1, <2>4
  <2>6. y \in 0 .. m /\ y \in 0 .. k
    BY <1>2, <2>5
  <2>7. f[y] = Rung(table, path, f, y) /\ g[y] = Rung(table, path, g, y)
    BY <1>2, <2>6
  <2>8. CASE y <= 1
    BY <2>5, <2>7, <2>8 DEF Rung
  <2>9. CASE ~(y <= 1)
    <3>1. y - 1 \in Nat /\ y - 1 <= x /\ y - 1 \notin Bad
      BY <2>4, <2>5, <2>9
    <3>2. f[y - 1] = g[y - 1]
      BY <2>1, <3>1
    <3>. QED  BY <2>5, <2>7, <2>9, <3>2 DEF Rung
  <2>. QED  BY <2>8, <2>9
<1>3. PICK all : all = [n \in Nat |-> (CHOOSE f : Good(f, n))[n]]
  OBVIOUS
<1>4. ASSUME NEW n \in Nat PROVE all[n] = Rung(table, path, all, n)
  <2>1. PICK f : f = CHOOSE g : Good(g, n)
    OBVIOUS
  <2>2. Good(f, n)
    BY <1>1, <2>1
  <2>3. all[n] = f[n] /\ f[n] = Rung(table, path, f, n)
    BY <1>3, <2>1, <2>2
  <2>4. CASE n <= 1
    BY <2>3, <2>4 DEF Rung
  <2>5. CASE ~(n <= 1)
    <3>1. n - 1 \in Nat
      BY <2>5
    <3>2. PICK h : h = CHOOSE g : Good(g, n - 1)
      OBVIOUS
    <3>3. Good(h, n - 1)
      BY <1>1, <3>1, <3>2
    <3>4. h[n - 1] = f[n - 1]
      <4>1. n - 1 \in 0 .. n - 1 /\ n - 1 \in 0 .. n
        BY <3>1
      <4>. QED  BY <1>2, <2>2, <3>1, <3>3, <4>1
    <3>5. all[n - 1] = h[n - 1]
      BY <1>3, <3>1, <3>2
    <3>. QED  BY <2>3, <2>5, <3>4, <3>5 DEF Rung
  <2>. QED  BY <2>4, <2>5
<1>5. PICK at : at = Walk(table, path)
  OBVIOUS
<1>6. at = CHOOSE at1 : at1 = [n \in Nat |->
                IF n <= 1 THEN {path[1]} ELSE Entries(table, at1[n - 1], path[n])]
  BY <1>5 DEF Walk
<1>7. all = [n \in Nat |-> IF n <= 1 THEN {path[1]} ELSE Entries(table, all[n - 1], path[n])]
  BY <1>3, <1>4 DEF Rung
<1>8. at = [n \in Nat |-> IF n <= 1 THEN {path[1]} ELSE Entries(table, at[n - 1], path[n])]
  BY <1>6, <1>7
<1>. QED  BY <1>5, <1>8 DEF Rung

(* What a file on the walk is, and what is on the walk.                    *)
LEMMA WalkStart ==
  ASSUME NEW table, NEW path
  PROVE  Walk(table, path)[1] = {path[1]}
<1>1. 1 \in Nat /\ 1 <= 1
  OBVIOUS
<1>. QED  BY <1>1, WalkRule DEF Rung

LEMMA WalkUp ==
  ASSUME NEW table, NEW path, NEW n \in Nat, n > 1, NEW i \in Walk(table, path)[n]
  PROVE  /\ i \in DOMAIN table /\ table[i].name = path[n]
         /\ n - 1 \in Nat /\ table[i].parent \in Walk(table, path)[n - 1]
<1>1. ~(n <= 1) /\ n - 1 \in Nat
  OBVIOUS
<1>2. Walk(table, path)[n] = Entries(table, Walk(table, path)[n - 1], path[n])
  BY <1>1, WalkRule DEF Rung
<1>. QED  BY <1>1, <1>2 DEF Entries

LEMMA WalkDown ==
  ASSUME NEW table, NEW path, NEW n \in Nat, n > 1, NEW i \in DOMAIN table,
         table[i].name = path[n], table[i].parent \in Walk(table, path)[n - 1]
  PROVE  i \in Walk(table, path)[n]
<1>1. ~(n <= 1) /\ n - 1 \in Nat
  OBVIOUS
<1>2. Walk(table, path)[n] = Entries(table, Walk(table, path)[n - 1], path[n])
  BY <1>1, WalkRule DEF Rung
<1>. QED  BY <1>1, <1>2 DEF Entries

(***************************************************************************)
(* Paths that agree so far have one walk so far.                           *)
(***************************************************************************)
LEMMA WalkPrefix ==
  ASSUME NEW table, NEW p, NEW q, NEW n \in Nat, n >= 1, \A k \in 1 .. n : p[k] = q[k]
  PROVE  Walk(table, p)[n] = Walk(table, q)[n]
<1>. SUFFICES ASSUME Walk(table, p)[n] # Walk(table, q)[n] PROVE FALSE
  OBVIOUS
<1>1. PICK Bad : Bad = {k \in 1 .. n : Walk(table, p)[k] # Walk(table, q)[k]}
  OBVIOUS
<1>2. Bad \subseteq Nat /\ Bad # {}
  BY <1>1
<1>3. PICK k \in Bad : \A y \in Bad : k <= y
  BY ONLY <1>2, LeastExists
<1>4. k \in 1 .. n /\ k \in Nat /\ Walk(table, p)[k] # Walk(table, q)[k] /\ p[k] = q[k] /\ p[1] = q[1]
  BY <1>1, <1>3
<1>5. CASE k = 1
  BY <1>4, <1>5, WalkStart
<1>6. CASE k > 1
  <2>1. k - 1 \in 1 .. n /\ k - 1 \notin Bad
    BY <1>3, <1>4, <1>6
  <2>2. Walk(table, p)[k - 1] = Walk(table, q)[k - 1]
    BY <1>1, <2>1
  <2>3. ~(k <= 1)
    BY <1>4, <1>6
  <2>4. \A path : Walk(table, path)[k] = Entries(table, Walk(table, path)[k - 1], path[k])
    BY <1>4, <2>3, WalkRule DEF Rung
  <2>. QED  BY <1>4, <2>2, <2>4
<1>. QED  BY <1>4, <1>5, <1>6

(***************************************************************************)
(* What is on a walk in one table is on it in another, if the rows that    *)
(* lead to it are there and the same.                                      *)
(***************************************************************************)
LEMMA WalkCarries ==
  ASSUME NEW T, NEW U, NEW p, NEW n \in Nat, n >= 1, NEW i \in Walk(T, p)[n],
         n > 1 => i \in DOMAIN U,
         \A m \in 2 .. n : \A j \in Walk(T, p)[m] : j \in DOMAIN U =>
            /\ U[j].parent = T[j].parent /\ U[j].name = T[j].name
            /\ m > 2 => T[j].parent \in DOMAIN U
  PROVE  i \in Walk(U, p)[n]
<1>. SUFFICES ASSUME i \notin Walk(U, p)[n] PROVE FALSE
  OBVIOUS
<1>1. PICK Bad : Bad = {m \in 1 .. n : \E j \in Walk(T, p)[m] :
                            (m > 1 => j \in DOMAIN U) /\ j \notin Walk(U, p)[m]}
  OBVIOUS
<1>2. Bad \subseteq Nat /\ Bad # {}
  <2>1. n \in 1 .. n
    OBVIOUS
  <2>. QED  BY <1>1, <2>1
<1>3. PICK m \in Bad : \A y \in Bad : m <= y
  BY ONLY <1>2, LeastExists
<1>4. m \in 1 .. n /\ m \in Nat
  BY <1>1, <1>3
<1>5. PICK j \in Walk(T, p)[m] : (m > 1 => j \in DOMAIN U) /\ j \notin Walk(U, p)[m]
  BY <1>1, <1>3
<1>6. CASE m = 1
  BY <1>5, <1>6, WalkStart
<1>7. CASE m > 1
  <2>1. /\ j \in DOMAIN T /\ T[j].name = p[m]
        /\ m - 1 \in Nat /\ T[j].parent \in Walk(T, p)[m - 1]
    BY <1>4, <1>5, <1>7, WalkUp
  <2>2. m \in 2 .. n /\ j \in DOMAIN U
    BY <1>4, <1>5, <1>7
  <2>3. U[j].parent = T[j].parent /\ U[j].name = T[j].name /\ (m > 2 => T[j].parent \in DOMAIN U)
    BY <2>2, <1>5
  <2>4. m - 1 \in 1 .. n /\ m - 1 \notin Bad
    BY <1>3, <1>4, <1>7
  <2>5. m - 1 > 1 => T[j].parent \in DOMAIN U
    <3>1. m - 1 > 1 => m > 2
      BY <1>4
    <3>. QED  BY <2>3, <3>1
  <2>6. T[j].parent \in Walk(U, p)[m - 1]
    BY <1>1, <2>1, <2>4, <2>5
  <2>. QED  BY <1>4, <1>5, <1>7, <2>1, <2>2, <2>3, <2>6, WalkDown
<1>. QED  BY <1>4, <1>6, <1>7

(***************************************************************************)
(* A path begins at the root or at no row, and goes on with names; a file  *)
(* is on one path.                                                         *)
(***************************************************************************)
Named(p) ==
  /\ p \in Seq(Names \cup Nat \cup {Root, None}) /\ Len(p) >= 1 /\ p[1] \in {Root, None}
  /\ \A k \in 2 .. Len(p) : p[k] \in Names \cup Nat

Grounded(T) == None \notin DOMAIN T /\ (Root \in DOMAIN T => T[Root].name = None)

(***************************************************************************)
(* The mark for no row is no name.                                         *)
(***************************************************************************)
LEMMA NoneIsNoName == None \notin Names \cup Nat
BY TreeAssumption

LEMMA OnePath ==
  ASSUME NEW T, NEW p, NEW q, NEW n, NEW m, NEW i,
         Grounded(T), Named(p), Named(q), n \in 1 .. Len(p), m \in 1 .. Len(q),
         i \in Walk(T, p)[n], i \in Walk(T, q)[m]
  PROVE  n = m /\ \A k \in 1 .. n : p[k] = q[k]
<1>. DEFINE Meet(a, b) == \E j : j \in Walk(T, p)[a] /\ j \in Walk(T, q)[b]
<1>0. ASSUME NEW a \in 1 .. Len(p), NEW b \in 1 .. Len(q), NEW j,
             j \in Walk(T, p)[a], j \in Walk(T, q)[b]
      PROVE  /\ a = 1 <=> b = 1
             /\ a = 1 => p[1] = q[1]
             /\ a > 1 => p[a] = q[b] /\ Meet(a - 1, b - 1)
  <2>1. a \in Nat /\ b \in Nat /\ Len(p) \in Nat /\ Len(q) \in Nat
    BY DEF Named
  <2>2. a = 1 => j = p[1] /\ j \in {Root, None}
    BY <1>0, WalkStart DEF Named
  <2>3. b = 1 => j = q[1] /\ j \in {Root, None}
    BY <1>0, WalkStart DEF Named
  <2>4. a > 1 => j \in DOMAIN T /\ T[j].name = p[a] /\ T[j].parent \in Walk(T, p)[a - 1]
    BY <1>0, <2>1, WalkUp
  <2>5. b > 1 => j \in DOMAIN T /\ T[j].name = q[b] /\ T[j].parent \in Walk(T, q)[b - 1]
    BY <1>0, <2>1, WalkUp
  <2>6. (a > 1 => p[a] # None) /\ (b > 1 => q[b] # None)
    BY <2>1, NoneIsNoName DEF Named
  <2>7. (a = 1 \/ a > 1) /\ (b = 1 \/ b > 1) /\ ~(a = 1 /\ a > 1) /\ ~(b = 1 /\ b > 1)
    BY <2>1
  <2>8. ~(a = 1 /\ b > 1)
    <3>1. SUFFICES ASSUME a = 1, b > 1 PROVE FALSE
      OBVIOUS
    <3>2. j = Root /\ Root \in DOMAIN T
      BY <2>2, <2>5, <3>1 DEF Grounded
    <3>. QED  BY <2>5, <2>6, <3>1, <3>2 DEF Grounded
  <2>9. ~(b = 1 /\ a > 1)
    <3>1. SUFFICES ASSUME b = 1, a > 1 PROVE FALSE
      OBVIOUS
    <3>2. j = Root /\ Root \in DOMAIN T
      BY <2>3, <2>4, <3>1 DEF Grounded
    <3>. QED  BY <2>4, <2>6, <3>1, <3>2 DEF Grounded
  <2>. QED  BY <2>2, <2>3, <2>4, <2>5, <2>7, <2>8, <2>9
<1>1. PICK Bad : Bad = {a \in 1 .. Len(p) : \E b \in 1 .. Len(q) :
                          Meet(a, b) /\ ~(a = b /\ \A k \in 1 .. a : p[k] = q[k])}
  OBVIOUS
<1>2. ASSUME Bad # {} PROVE FALSE
  <2>1. Bad \subseteq Nat
    BY <1>1
  <2>2. PICK a \in Bad : \A y \in Bad : a <= y
    BY ONLY <1>2, <2>1, LeastExists
  <2>3. a \in 1 .. Len(p) /\ a \in Nat
    BY <1>1, <2>1, <2>2
  <2>4. PICK b \in 1 .. Len(q) : Meet(a, b) /\ ~(a = b /\ \A k \in 1 .. a : p[k] = q[k])
    BY <1>1, <2>2
  <2>5. PICK j : j \in Walk(T, p)[a] /\ j \in Walk(T, q)[b]
    BY <2>4
  <2>6. /\ a = 1 <=> b = 1
        /\ a = 1 => p[1] = q[1]
        /\ a > 1 => p[a] = q[b] /\ Meet(a - 1, b - 1)
    BY <1>0, <2>3, <2>5
  <2>7. CASE a = 1
    <3>1. a = b /\ \A k \in 1 .. a : k = 1
      BY <2>6, <2>7
    <3>. QED  BY <2>4, <2>6, <2>7, <3>1
  <2>8. CASE a > 1
    <3>1. b \in Nat /\ b > 1
      BY <2>3, <2>6, <2>8
    <3>2. a - 1 \in 1 .. Len(p) /\ b - 1 \in 1 .. Len(q) /\ a - 1 \notin Bad
      BY <2>2, <2>3, <2>8, <3>1
    <3>3. a - 1 = b - 1 /\ \A k \in 1 .. a - 1 : p[k] = q[k]
      BY <1>1, <2>6, <2>8, <3>2
    <3>4. a = b
      BY <2>3, <3>1, <3>3
    <3>5. \A k \in 1 .. a : k \in 1 .. a - 1 \/ k = a
      BY <2>3
    <3>. QED  BY <2>4, <2>6, <2>8, <3>3, <3>4, <3>5
  <2>. QED  BY <2>3, <2>7, <2>8
<1>3. n \notin Bad
  BY <1>2
<1>4. Meet(n, m)
  OBVIOUS
<1>. QED  BY <1>1, <1>3, <1>4

(***************************************************************************)
(* Where the names in a folder are unique, a path leads to one file.       *)
(***************************************************************************)
Unique(T) ==
  \A i, j \in DOMAIN T : T[i].parent = T[j].parent /\ T[i].name = T[j].name => i = j

LEMMA OneFile ==
  ASSUME NEW T, NEW p, NEW n \in Nat, n >= 1, Unique(T),
         NEW i \in Walk(T, p)[n], NEW j \in Walk(T, p)[n]
  PROVE  i = j
<1>. SUFFICES ASSUME i # j PROVE FALSE
  OBVIOUS
<1>1. PICK Bad : Bad = {m \in 1 .. n : \E x, y \in Walk(T, p)[m] : x # y}
  OBVIOUS
<1>2. Bad \subseteq Nat /\ Bad # {}
  <2>1. n \in 1 .. n
    OBVIOUS
  <2>. QED  BY <1>1, <2>1
<1>3. PICK m \in Bad : \A y \in Bad : m <= y
  BY ONLY <1>2, LeastExists
<1>4. m \in 1 .. n /\ m \in Nat
  BY <1>1, <1>3
<1>5. PICK x \in Walk(T, p)[m], y \in Walk(T, p)[m] : x # y
  BY <1>1, <1>3
<1>6. CASE m = 1
  BY <1>5, <1>6, WalkStart
<1>7. CASE m > 1
  <2>1. x \in DOMAIN T /\ T[x].name = p[m] /\ T[x].parent \in Walk(T, p)[m - 1]
    BY <1>4, <1>5, <1>7, WalkUp
  <2>2. y \in DOMAIN T /\ T[y].name = p[m] /\ T[y].parent \in Walk(T, p)[m - 1]
    BY <1>4, <1>5, <1>7, WalkUp
  <2>3. m - 1 \in 1 .. n /\ m - 1 \notin Bad
    BY <1>3, <1>4, <1>7
  <2>4. T[x].parent = T[y].parent
    BY <1>1, <2>1, <2>2, <2>3
  <2>. QED  BY <1>5, <2>1, <2>2, <2>4 DEF Unique
<1>. QED  BY <1>4, <1>6, <1>7

(***************************************************************************)
(* What was read on the way to a file leads to it.                         *)
(***************************************************************************)
LEMMA SeenLeads ==
  ASSUME NEW T, NEW p, Len(p) \in Nat, NEW n \in 1 .. Len(p), NEW i \in Walk(T, p)[n],
         n > 1 \/ i \in DOMAIN T
  PROVE  /\ i \in Walk(Seen(T, p), p)[n]
         /\ i \in DOMAIN Seen(T, p)
<1>1. PICK S : S = UNION {Walk(T, p)[k] : k \in 1 .. Len(p)}
  OBVIOUS
<1>2. PICK U : U = Seen(T, p)
  OBVIOUS
<1>3. DOMAIN U = DOMAIN T \cap S /\ \A j \in DOMAIN U : U[j] = T[j]
  BY <1>1, <1>2 DEF Seen, Restrict
<1>4. \A k \in 1 .. Len(p) : Walk(T, p)[k] \subseteq S
  BY <1>1
<1>5. n \in Nat /\ n >= 1
  OBVIOUS
<1>6. ASSUME NEW m \in 2 .. n, NEW j \in Walk(T, p)[m]
      PROVE  j \in DOMAIN T /\ (m > 2 => T[j].parent \in DOMAIN U)
  <2>1. m \in Nat /\ m > 1 /\ m - 1 \in 1 .. Len(p)
    OBVIOUS
  <2>2. j \in DOMAIN T /\ T[j].parent \in Walk(T, p)[m - 1]
    BY <1>6, <2>1, WalkUp
  <2>3. ASSUME m > 2 PROVE T[j].parent \in DOMAIN T
    <3>1. m - 1 \in Nat /\ m - 1 > 1
      BY <2>1, <2>3
    <3>2. PICK k \in Nat : k = m - 1 /\ k > 1
      BY <3>1
    <3>. QED  BY <2>2, <3>2, WalkUp
  <2>4. T[j].parent \in S
    BY <1>4, <2>1, <2>2
  <2>. QED  BY <1>3, <2>2, <2>3, <2>4
<1>7. i \in DOMAIN T
  <2>1. n > 1 => n \in 2 .. n
    BY <1>5
  <2>. QED  BY <1>6, <2>1
<1>8. i \in DOMAIN U
  BY <1>3, <1>4, <1>7
<1>9. \A m \in 2 .. n : \A j \in Walk(T, p)[m] : j \in DOMAIN U =>
            /\ U[j].parent = T[j].parent /\ U[j].name = T[j].name
            /\ m > 2 => T[j].parent \in DOMAIN U
  BY <1>3, <1>6
<1>10. n > 1 => i \in DOMAIN U
  BY <1>8
<1>11. i \in Walk(U, p)[n]
  BY ONLY <1>5, <1>9, <1>10, i \in Walk(T, p)[n], WalkCarries
<1>. QED  BY <1>2, <1>8, <1>11

-----------------------------------------------------------------------------
(***************************************************************************)
(* Paths: prefixes, and a path with one name more.                         *)
(***************************************************************************)
LEMMA PrefixIs ==
  ASSUME NEW p, NEW q, Named(p), Named(q)
  PROVE  IsPrefix(p, q) <=> (Len(p) <= Len(q) /\ \A k \in 1 .. Len(p) : p[k] = q[k])
<1>. DEFINE S == Names \cup Nat \cup {Root, None}
<1>1. p \in Seq(S) /\ q \in Seq(S) /\ Len(p) \in Nat /\ Len(q) \in Nat /\ Len(p) >= 1
  BY DEF Named
<1>2. SUFFICES ASSUME Len(p) <= Len(q)
               PROVE  SubSeq(p, 1, Len(p)) = SubSeq(q, 1, Len(p)) <=> \A k \in 1 .. Len(p) : p[k] = q[k]
  BY DEF IsPrefix
<1>3. PICK x : x = SubSeq(p, 1, Len(p))
  OBVIOUS
<1>4. PICK y : y = SubSeq(q, 1, Len(p))
  OBVIOUS
<1>5. x \in Seq(S) /\ Len(x) = Len(p) /\ \A k \in 1 .. Len(p) : x[k] = p[k]
  BY <1>1, <1>3, SubSeqProperties
<1>6. y \in Seq(S) /\ Len(y) = Len(p) /\ \A k \in 1 .. Len(p) : y[k] = q[k]
  BY <1>1, <1>2, <1>4, SubSeqProperties
<1>7. x = y <=> \A k \in 1 .. Len(p) : x[k] = y[k]
  BY <1>5, <1>6, SeqEqual
<1>. QED  BY <1>3, <1>4, <1>5, <1>6, <1>7

LEMMA Longer ==
  ASSUME NEW p, NEW name, Named(p), name \in Names \cup Nat
  PROVE  /\ Named(Append(p, name)) /\ Len(Append(p, name)) = Len(p) + 1
         /\ \A k \in 1 .. Len(p) : Append(p, name)[k] = p[k]
         /\ Append(p, name)[Len(p) + 1] = name
<1>. DEFINE S == Names \cup Nat \cup {Root, None}
<1>1. p \in Seq(S) /\ name \in S /\ Len(p) \in Nat /\ Len(p) >= 1
  BY DEF Named
<1>2. PICK x : x = Append(p, name)
  OBVIOUS
<1>3. /\ x \in Seq(S) /\ Len(x) = Len(p) + 1
      /\ \A k \in 1 .. Len(p) : x[k] = p[k]
      /\ x[Len(p) + 1] = name
  BY <1>1, <1>2
<1>4. 1 \in 1 .. Len(p)
  BY <1>1
<1>5. x[1] \in {Root, None}
  BY <1>3, <1>4 DEF Named
<1>6. ASSUME NEW k \in 2 .. Len(x) PROVE x[k] \in Names \cup Nat
  <2>1. k \in 2 .. Len(p) \/ k = Len(p) + 1
    BY <1>1, <1>3
  <2>2. k \in 2 .. Len(p) => k \in 1 .. Len(p)
    OBVIOUS
  <2>. QED  BY <1>3, <2>1, <2>2 DEF Named
<1>7. Len(x) >= 1
  BY <1>1, <1>3
<1>8. Named(x)
  BY <1>3, <1>5, <1>6, <1>7 DEF Named
<1>. QED  BY <1>2, <1>3, <1>8

(***************************************************************************)
(* A file that is at one path is not on the way to a path that does not    *)
(* clash with it.                                                          *)
(***************************************************************************)
LEMMA NoClash ==
  ASSUME NEW T, NEW p, NEW q, NEW n, NEW i,
         Grounded(T), Named(p), Named(q), n \in 1 .. Len(q),
         i \in Walk(T, p)[Len(p)], i \in Walk(T, q)[n]
  PROVE  IsPrefix(p, q)
<1>1. Len(p) \in 1 .. Len(p) /\ Len(p) \in Nat /\ Len(q) \in Nat
  BY DEF Named
<1>2. PICK m : m = Len(p)
  OBVIOUS
<1>3. m = n /\ \A k \in 1 .. m : p[k] = q[k]
  BY <1>1, <1>2, OnePath
<1>4. Len(p) <= Len(q) /\ \A k \in 1 .. Len(p) : p[k] = q[k]
  BY <1>1, <1>2, <1>3
<1>5. IsPrefix(p, q) <=> (Len(p) <= Len(q) /\ \A k \in 1 .. Len(p) : p[k] = q[k])
  BY PrefixIs
<1>. QED  BY <1>4, <1>5

-----------------------------------------------------------------------------
(***************************************************************************)
(* What is true of the files, T, when the ids B are given out and N names  *)
(* for the trash are drawn.                                                *)
(***************************************************************************)
UserPath(p) ==
  /\ p \in Seq(Names \cup {Root}) /\ Len(p) >= 1 /\ p[1] = Root
  /\ \A k \in 2 .. Len(p) : p[k] \in Names

TrashPath(p, N) ==
  Len(p) = 2 /\ p = <<p[1], p[2]>> /\ p[1] = None /\ p[2] \in 1 .. N

Rec(row) ==
  row = [parent |-> row.parent, name |-> row.name, folder |-> row.folder,
         restore |-> row.restore]

Filed(T, i) ==
  /\ T[i].parent \in DOMAIN T /\ T[T[i].parent].folder
  /\ T[i].name \in Names /\ T[i].restore = None

Binned(T, N, i) ==
  /\ T[i].parent = None /\ T[i].name \in 1 .. N
  /\ UserPath(T[i].restore) /\ Len(T[i].restore) >= 2

Acyclic(T) == \A S \in SUBSET DOMAIN T : S # {} => \E i \in S : T[i].parent \notin S

Tree(T, B, N) ==
  /\ Root \in DOMAIN T /\ DOMAIN T \subseteq B \cup {Root} /\ B \subseteq Ids
  /\ N \in Nat
  /\ T = [i \in DOMAIN T |-> T[i]]
  /\ T[Root] = Row(None, None, TRUE)
  /\ \A i \in DOMAIN T \ {Root} : Rec(T[i]) /\ (Filed(T, i) \/ Binned(T, N, i))
  /\ Unique(T)
  /\ Acyclic(T)

(***************************************************************************)
(* What a request has read, S, may be out of date, but not in what never   *)
(* changes.                                                                *)
(***************************************************************************)
Snapshot(S, T, B) ==
  /\ DOMAIN S \subseteq B \cup {Root}
  /\ \A i \in DOMAIN S :
        /\ S[i].name \in Names => S[i].restore = None
        /\ S[i].name \in Nat => UserPath(S[i].restore) /\ Len(S[i].restore) >= 2
        /\ i \in DOMAIN T => S[i].folder = T[i].folder

IsFolder(T, i) == i \in DOMAIN T => T[i].folder

Facts(q, T, B, N) ==
  /\ q.op \in {"rename", "trash", "delete"} =>
        /\ UserPath(q.src) \/ (q.op = "delete" /\ TrashPath(q.src, N))
        /\ Len(q.src) >= 2 /\ q.target \in B /\ q.at = None
        /\ q.op = "rename" => q.name \in Names
  /\ q.op \in {"folder", "file"} =>
        /\ UserPath(q.src) /\ q.at \in B \cup {Root}
        /\ q.left \in Seq(Names) /\ Len(q.left) >= 1 /\ Len(q.left) < Len(q.src)
        /\ \A k \in 1 .. Len(q.left) : q.left[k] = q.src[Len(q.src) - Len(q.left) + k]
  /\ q.op \in {"move", "copy"} =>
        /\ UserPath(q.dst) /\ q.at \in B \cup {Root} /\ IsFolder(T, q.at) /\ q.target \in B
        /\ q.target \in DOMAIN T => T[q.target].folder = q.got.folder
  /\ q.op = "copy" => q.got.name \in Names
  /\ q.op = "move" =>
        /\ Len(q.src) >= 2 /\ q.got.name = q.src[Len(q.src)]
        /\ \/ UserPath(q.src) /\ q.got.restore = None
           \/ TrashPath(q.src, N) /\ UserPath(q.got.restore) /\ Len(q.got.restore) >= 2
        /\ q.got.folder => ~IsPrefix(q.src, q.dst)

OfTarget == {"rename", "trash", "delete", "move"}

HasRead(q, T, B) ==
  /\ Snapshot(q.seen, T, B)
  /\ q.op \in OfTarget => q.target \in Walk(q.seen, q.src)[Len(q.src)]
  /\ q.op \in {"move", "copy"} => q.at \in Walk(q.seen, q.dst)[Len(q.dst)]
  /\ q.op \in {"folder", "file"} => q.at \in Walk(q.seen, q.src)[Len(q.src) - Len(q.left)]

(***************************************************************************)
(* After the comparison, what was read is where it was read.               *)
(***************************************************************************)
Placed(q, T) ==
  /\ q.op \in OfTarget /\ q.target \in DOMAIN T => q.target \in Walk(T, q.src)[Len(q.src)]
  /\ q.op \in {"move", "copy"} /\ q.at \in DOMAIN T => q.at \in Walk(T, q.dst)[Len(q.dst)]
  /\ q.op \in {"folder", "file"} /\ q.at \in DOMAIN T =>
        q.at \in Walk(T, q.src)[Len(q.src) - Len(q.left)]

Fields(q) ==
  q = [pc |-> q.pc, op |-> q.op, src |-> q.src, dst |-> q.dst, name |-> q.name,
       target |-> q.target, at |-> q.at, seen |-> q.seen, got |-> q.got, left |-> q.left]

Asking(q, T, B, N) ==
  /\ Fields(q)
  /\ q.pc \in {"idle", "destination", "source", "lock", "check", "commit", "remove", "make"}
  /\ q.pc # "idle" => q.op \in Operations
  /\ q.pc = "destination" => q.op = "move" /\ TrashPath(q.src, N) /\ UserPath(q.dst)
  /\ q.pc = "source" =>
        /\ q.op \in {"move", "copy"} /\ UserPath(q.dst)
        /\ UserPath(q.src) \/ (TrashPath(q.src, N) /\ q.op = "move")
        /\ Snapshot(q.seen, T, B) /\ Unique(q.seen)
        /\ Root \in DOMAIN q.seen /\ q.seen[Root].name = None
        /\ q.at \in B \cup {Root} /\ IsFolder(T, q.at)
        /\ q.at \in Walk(q.seen, q.dst)[Len(q.dst)]
  /\ q.pc \in {"lock", "check", "commit", "remove", "make"} => Facts(q, T, B, N)
  /\ q.pc \in {"lock", "check"} => HasRead(q, T, B)
  /\ q.pc \in {"commit", "remove", "make"} => Placed(q, T)
  /\ q.pc = "commit" => q.op \notin {"folder", "file"}
  /\ q.pc = "remove" => q.op = "delete"
  /\ q.pc = "make" => q.op \in {"folder", "file"}

(***************************************************************************)
(* The locks of a request, and of two.                                     *)
(***************************************************************************)
Held(q) ==
  IF q.op = "copy" THEN {Append(q.dst, q.got.name)}
  ELSE IF q.op = "move" /\ q.got.restore = None THEN {q.src, Append(q.dst, q.got.name)}
  ELSE IF q.op = "move"
       THEN {q.src, Append(q.dst, Last(q.got.restore)), Append(q.dst, q.got.name)}
  ELSE {q.src}

Holding == {"check", "commit", "remove", "make"}

Locking ==
  /\ req = [r \in Requests |-> req[r]] /\ locks = [r \in Requests |-> locks[r]]
  /\ \A r \in Requests :
        locks[r] = IF req[r].pc \in Holding THEN Held(req[r]) ELSE {}
  /\ \A r, s \in Requests : r # s => \A p \in locks[r], x \in locks[s] : ~Clash(p, x)

IInv ==
  /\ Tree(rows, born, trashed)
  /\ \A r \in Requests : Asking(req[r], rows, born, trashed)
  /\ Locking

-----------------------------------------------------------------------------
(***************************************************************************)
(* Paths of the user and of the trash are paths.                           *)
(***************************************************************************)
LEMMA UserNamed ==
  ASSUME NEW p, UserPath(p)
  PROVE  Named(p)
BY DEF UserPath, Named

LEMMA TrashNamed ==
  ASSUME NEW p, NEW N, N \in Nat, TrashPath(p, N)
  PROVE  Named(p)
<1>1. p[2] \in Nat /\ Len(p) = 2 /\ p = <<p[1], p[2]>> /\ p[1] = None
  BY DEF TrashPath
<1>2. p \in Seq(Names \cup Nat \cup {Root, None})
  <2>1. PICK n \in Nat : n = p[2]
    BY <1>1
  <2>2. <<None, n>> \in Seq(Names \cup Nat \cup {Root, None})
    OBVIOUS
  <2>. QED  BY <1>1, <2>1, <2>2
<1>3. \A k \in 2 .. 2 : k = 2
  OBVIOUS
<1>. QED  BY <1>1, <1>2, <1>3 DEF Named

(***************************************************************************)
(* The root has no name, and a parent is there.                            *)
(***************************************************************************)
LEMMA TreeGrounded ==
  ASSUME NEW T, NEW B, NEW N, Tree(T, B, N)
  PROVE  /\ Grounded(T)
         /\ \A i \in DOMAIN T : T[i].parent \in DOMAIN T \/ T[i].parent = None
<1>1. T[Root].name = None /\ T[Root].parent = None
  BY DEF Tree, Row
<1>2. None \notin DOMAIN T
  BY TreeAssumption DEF Tree
<1>3. \A i \in DOMAIN T \ {Root} : Filed(T, i) \/ Binned(T, N, i)
  BY DEF Tree
<1>. QED  BY <1>1, <1>2, <1>3 DEF Grounded, Filed, Binned

(***************************************************************************)
(* A path stands if what is on the way to it stays as it is.               *)
(***************************************************************************)
Stands(T, U, p) ==
  \A n \in 1 .. Len(p) : \A i \in Walk(T, p)[n] :
     (n > 1 => i \in DOMAIN U) => i \in Walk(U, p)[n]

LEMMA StandsIf ==
  ASSUME NEW T, NEW B, NEW N, NEW U, NEW C, NEW M, NEW p,
         Tree(T, B, N), Tree(U, C, M), Named(p),
         \A n \in 2 .. Len(p) : \A i \in Walk(T, p)[n] :
            i \in DOMAIN U => U[i].parent = T[i].parent /\ U[i].name = T[i].name
  PROVE  Stands(T, U, p)
<1>. SUFFICES ASSUME NEW n \in 1 .. Len(p), NEW i \in Walk(T, p)[n], n > 1 => i \in DOMAIN U
              PROVE  i \in Walk(U, p)[n]
  BY DEF Stands
<1>1. n \in Nat /\ n >= 1 /\ Len(p) \in Nat
  BY DEF Named
<1>2. ASSUME NEW m \in 2 .. n, NEW j \in Walk(T, p)[m], j \in DOMAIN U
      PROVE  /\ U[j].parent = T[j].parent /\ U[j].name = T[j].name
             /\ m > 2 => T[j].parent \in DOMAIN U
  <2>1. m \in 2 .. Len(p) /\ m \in Nat /\ m > 1
    BY <1>1
  <2>2. U[j].parent = T[j].parent /\ U[j].name = T[j].name
    BY <1>2, <2>1
  <2>3. ASSUME m > 2 PROVE T[j].parent \in DOMAIN T
    <3>1. PICK k \in Nat : k = m - 1 /\ k > 1
      BY <2>1, <2>3
    <3>2. T[j].parent \in Walk(T, p)[k]
      BY <1>2, <2>1, <3>1, WalkUp
    <3>. QED  BY <3>1, <3>2, WalkUp
  <2>4. m > 2 => T[j].parent # None
    BY <2>3, TreeGrounded DEF Grounded
  <2>5. U[j].parent \in DOMAIN U \/ U[j].parent = None
    BY <1>2, TreeGrounded
  <2>. QED  BY <2>2, <2>4, <2>5
<1>3. \A m \in 2 .. n : \A j \in Walk(T, p)[m] : j \in DOMAIN U =>
            /\ U[j].parent = T[j].parent /\ U[j].name = T[j].name
            /\ m > 2 => T[j].parent \in DOMAIN U
  BY <1>2
<1>4. i \in Walk(T, p)[n] /\ (n > 1 => i \in DOMAIN U)
  OBVIOUS
<1>. QED  BY ONLY <1>1, <1>3, <1>4, WalkCarries

(***************************************************************************)
(* The paths that an operation locks are paths.                            *)
(***************************************************************************)
LEMMA FactsNamed ==
  ASSUME NEW q, NEW T, NEW B, NEW N, N \in Nat, Facts(q, T, B, N), q.op \in Operations
  PROVE  /\ q.op # "copy" => Named(q.src) /\ Len(q.src) >= 2
         /\ q.op \in {"move", "copy"} => Named(q.dst) /\ q.got.name \in Names \cup Nat
         /\ q.op = "move" /\ q.got.restore # None => Last(q.got.restore) \in Names
         /\ q.op \in {"folder", "file"} =>
               Len(q.left) \in Nat /\ Len(q.src) - Len(q.left) \in 1 .. Len(q.src)
<1>1. CASE q.op \in {"rename", "trash", "delete"}
  BY <1>1, UserNamed, TrashNamed DEF Facts
<1>2. CASE q.op \in {"folder", "file"}
  <2>1. UserPath(q.src) /\ q.left \in Seq(Names) /\ Len(q.left) >= 1 /\ Len(q.left) < Len(q.src)
    BY <1>2 DEF Facts
  <2>2. Len(q.left) \in Nat /\ Len(q.src) \in Nat
    BY <2>1 DEF UserPath
  <2>6. PICK a \in Nat, b \in Nat : a = Len(q.left) /\ b = Len(q.src)
    BY <2>2
  <2>8. a >= 1 /\ a < b
    BY <2>1, <2>6
  <2>7. b - a \in 1 .. b /\ b >= 2
    BY <2>8
  <2>3. Len(q.src) - Len(q.left) \in 1 .. Len(q.src) /\ Len(q.src) >= 2
    BY <2>6, <2>7
  <2>4. Named(q.src)
    BY <2>1, UserNamed
  <2>5. q.op # "copy" /\ q.op # "move"
    BY <1>2
  <2>. QED  BY <2>2, <2>3, <2>4, <2>5
<1>3. CASE q.op = "copy"
  BY <1>3, UserNamed DEF Facts
<1>4. CASE q.op = "move"
  <2>1. /\ Len(q.src) >= 2 /\ q.got.name = q.src[Len(q.src)] /\ UserPath(q.dst)
        /\ \/ UserPath(q.src) /\ q.got.restore = None
           \/ TrashPath(q.src, N) /\ UserPath(q.got.restore) /\ Len(q.got.restore) >= 2
    BY <1>4 DEF Facts
  <2>2. Named(q.src)
    BY <2>1, UserNamed, TrashNamed
  <2>3. Len(q.src) \in 2 .. Len(q.src)
    BY <2>1, <2>2 DEF Named
  <2>4. q.got.name \in Names \cup Nat
    BY <2>1, <2>2, <2>3 DEF Named
  <2>5. ASSUME q.got.restore # None PROVE Last(q.got.restore) \in Names
    <3>1. UserPath(q.got.restore) /\ Len(q.got.restore) >= 2
      BY <2>1, <2>5
    <3>2. Len(q.got.restore) \in 2 .. Len(q.got.restore)
      BY <3>1 DEF UserPath
    <3>. QED  BY <3>1, <3>2 DEF UserPath, Last
  <2>. QED  BY <1>4, <2>1, <2>2, <2>4, <2>5, UserNamed
<1>. QED  BY <1>1, <1>2, <1>3, <1>4 DEF Operations

LEMMA HeldNamed ==
  ASSUME NEW q, NEW T, NEW B, NEW N, N \in Nat, Facts(q, T, B, N), q.op \in Operations,
         NEW p \in Held(q)
  PROVE  Named(p)
<1>1. q.op # "copy" => Named(q.src)
  BY FactsNamed
<1>2. q.op \in {"move", "copy"} => Named(q.dst) /\ q.got.name \in Names \cup Nat
  BY FactsNamed
<1>3. q.op = "move" /\ q.got.restore # None => Last(q.got.restore) \in Names \cup Nat
  BY FactsNamed
<1>4. q.op \in {"move", "copy"} => Named(Append(q.dst, q.got.name))
  BY <1>2, Longer
<1>5. q.op = "move" /\ q.got.restore # None => Named(Append(q.dst, Last(q.got.restore)))
  BY <1>2, <1>3, Longer
<1>. QED  BY <1>1, <1>4, <1>5 DEF Held

(***************************************************************************)
(* What is placed stays so if the locked paths stand.                      *)
(***************************************************************************)
LEMMA AboveLocked ==
  ASSUME NEW T, NEW p, NEW name, Named(p), name \in Names \cup Nat, NEW n \in 1 .. Len(p)
  PROVE  Walk(T, Append(p, name))[n] = Walk(T, p)[n]
<1>1. PICK q : q = Append(p, name)
  OBVIOUS
<1>2. n \in Nat /\ n >= 1 /\ \A k \in 1 .. n : k \in 1 .. Len(p)
  BY DEF Named
<1>3. \A k \in 1 .. n : q[k] = p[k]
  BY <1>1, <1>2, Longer
<1>4. Walk(T, q)[n] = Walk(T, p)[n]
  BY ONLY <1>2, <1>3, WalkPrefix
<1>. QED  BY <1>1, <1>4

LEMMA PlacedKept ==
  ASSUME NEW q, NEW T, NEW B, NEW N, NEW U, NEW C, NEW M, N \in Nat,
         Facts(q, T, B, N), q.op \in Operations, Placed(q, T), B \subseteq Ids,
         \A i \in DOMAIN U : i \in B \cup {Root} => i \in DOMAIN T,
         \A p \in Held(q) : Stands(T, U, p)
  PROVE  Placed(q, U)
<1>1. ASSUME q.op \in OfTarget, q.target \in DOMAIN U
      PROVE  q.target \in Walk(U, q.src)[Len(q.src)]
  <2>1. q.target \in B
    BY <1>1 DEF OfTarget, Facts
  <2>2. q.target \in Walk(T, q.src)[Len(q.src)]
    BY <1>1, <2>1 DEF Placed
  <2>3. q.src \in Held(q)
    BY <1>1 DEF Held, OfTarget
  <2>4. Named(q.src)
    BY <1>1, FactsNamed DEF OfTarget
  <2>5. Len(q.src) \in 1 .. Len(q.src)
    BY <2>4 DEF Named
  <2>. QED  BY <1>1, <2>2, <2>3, <2>5 DEF Stands
<1>2. ASSUME q.op \in {"move", "copy"}, q.at \in DOMAIN U
      PROVE  q.at \in Walk(U, q.dst)[Len(q.dst)]
  <2>1. q.at \in B \cup {Root}
    BY <1>2 DEF Facts
  <2>2. q.at \in Walk(T, q.dst)[Len(q.dst)]
    BY <1>2, <2>1 DEF Placed
  <2>3. PICK p \in Held(q) : p = Append(q.dst, q.got.name)
    BY <1>2 DEF Held
  <2>4. Named(q.dst) /\ q.got.name \in Names \cup Nat
    BY <1>2, FactsNamed
  <2>5. Len(q.dst) \in 1 .. Len(q.dst) /\ Len(p) = Len(q.dst) + 1
    BY <2>3, <2>4, Longer DEF Named
  <2>6. Len(q.dst) \in 1 .. Len(p)
    BY <2>5
  <2>7. Walk(T, p)[Len(q.dst)] = Walk(T, q.dst)[Len(q.dst)]
    BY <2>3, <2>4, <2>5, AboveLocked
  <2>8. Walk(U, p)[Len(q.dst)] = Walk(U, q.dst)[Len(q.dst)]
    BY <2>3, <2>4, <2>5, AboveLocked
  <2>. QED  BY <1>2, <2>2, <2>6, <2>7, <2>8 DEF Stands
<1>3. ASSUME q.op \in {"folder", "file"}, q.at \in DOMAIN U
      PROVE  q.at \in Walk(U, q.src)[Len(q.src) - Len(q.left)]
  <2>1. q.at \in B \cup {Root}
    BY <1>3 DEF Facts
  <2>2. q.at \in Walk(T, q.src)[Len(q.src) - Len(q.left)]
    BY <1>3, <2>1 DEF Placed
  <2>3. q.src \in Held(q)
    BY <1>3 DEF Held
  <2>4. Len(q.src) - Len(q.left) \in 1 .. Len(q.src)
    BY <1>3, FactsNamed
  <2>. QED  BY <1>3, <2>2, <2>3, <2>4 DEF Stands
<1>. QED  BY <1>1, <1>2, <1>3 DEF Placed

(***************************************************************************)
(* What is true of a request stays so when the files change, if no id is   *)
(* used again, a folder stays a folder, and what it has placed is there.   *)
(***************************************************************************)
Later(T, B, U) ==
  \A i \in DOMAIN U : i \in B \cup {Root} => i \in DOMAIN T /\ U[i].folder = T[i].folder

LEMMA TrashKept ==
  ASSUME NEW p, NEW N, NEW M, N \in Nat, M \in Nat, N <= M, TrashPath(p, N)
  PROVE  TrashPath(p, M)
<1>1. p[2] \in 1 .. N
  BY DEF TrashPath
<1>2. p[2] \in 1 .. M
  BY <1>1
<1>. QED  BY <1>2 DEF TrashPath

LEMMA SnapshotKept ==
  ASSUME NEW S, NEW T, NEW B, NEW U, NEW C, Snapshot(S, T, B), B \subseteq C, Later(T, B, U)
  PROVE  Snapshot(S, U, C)
<1>1. ASSUME NEW i \in DOMAIN S, i \in DOMAIN U PROVE S[i].folder = U[i].folder
  <2>1. i \in B \cup {Root}
    BY DEF Snapshot
  <2>2. i \in DOMAIN T /\ U[i].folder = T[i].folder
    BY <1>1, <2>1 DEF Later
  <2>. QED  BY <2>2 DEF Snapshot
<1>. QED  BY <1>1 DEF Snapshot

LEMMA FactsKept ==
  ASSUME NEW q, NEW T, NEW B, NEW N, NEW U, NEW C, NEW M, N \in Nat, M \in Nat, N <= M,
         Facts(q, T, B, N), B \subseteq C, Later(T, B, U)
  PROVE  Facts(q, U, C, M)
<1>1. TrashPath(q.src, N) => TrashPath(q.src, M)
  BY TrashKept
<1>2. ASSUME q.op \in {"rename", "trash", "delete"}
      PROVE  /\ UserPath(q.src) \/ (q.op = "delete" /\ TrashPath(q.src, M))
             /\ Len(q.src) >= 2 /\ q.target \in C /\ q.at = None
             /\ q.op = "rename" => q.name \in Names
  BY <1>1, <1>2 DEF Facts
<1>3. ASSUME q.op \in {"folder", "file"}
      PROVE  /\ UserPath(q.src) /\ q.at \in C \cup {Root}
             /\ q.left \in Seq(Names) /\ Len(q.left) >= 1 /\ Len(q.left) < Len(q.src)
             /\ \A k \in 1 .. Len(q.left) : q.left[k] = q.src[Len(q.src) - Len(q.left) + k]
  BY <1>3 DEF Facts
<1>4. ASSUME q.op \in {"move", "copy"}
      PROVE  /\ UserPath(q.dst) /\ q.at \in C \cup {Root} /\ IsFolder(U, q.at) /\ q.target \in C
             /\ q.target \in DOMAIN U => U[q.target].folder = q.got.folder
  <2>1. /\ UserPath(q.dst) /\ q.at \in B \cup {Root} /\ IsFolder(T, q.at) /\ q.target \in B
        /\ q.target \in DOMAIN T => T[q.target].folder = q.got.folder
    BY <1>4 DEF Facts
  <2>. QED  BY <2>1 DEF Later, IsFolder
<1>5. q.op = "copy" => q.got.name \in Names
  BY DEF Facts
<1>6. ASSUME q.op = "move"
      PROVE  /\ Len(q.src) >= 2 /\ q.got.name = q.src[Len(q.src)]
             /\ \/ UserPath(q.src) /\ q.got.restore = None
                \/ TrashPath(q.src, M) /\ UserPath(q.got.restore) /\ Len(q.got.restore) >= 2
             /\ q.got.folder => ~IsPrefix(q.src, q.dst)
  BY <1>1, <1>6 DEF Facts
<1>. QED  BY <1>2, <1>3, <1>4, <1>5, <1>6 DEF Facts

LEMMA AskingKept ==
  ASSUME NEW q, NEW T, NEW B, NEW N, NEW U, NEW C, NEW M, N \in Nat, M \in Nat, N <= M,
         Asking(q, T, B, N), B \subseteq C, Later(T, B, U),
         q.pc \in {"commit", "remove", "make"} => Placed(q, U)
  PROVE  Asking(q, U, C, M)
<1>1. TrashPath(q.src, N) => TrashPath(q.src, M)
  BY TrashKept
<1>2. Facts(q, T, B, N) => Facts(q, U, C, M)
  BY FactsKept
<1>3. \A S : Snapshot(S, T, B) => Snapshot(S, U, C)
  BY SnapshotKept
<1>4. HasRead(q, T, B) => HasRead(q, U, C)
  BY <1>3 DEF HasRead
<1>5. q.at \in B \cup {Root} /\ IsFolder(T, q.at) => q.at \in C \cup {Root} /\ IsFolder(U, q.at)
  BY DEF Later, IsFolder
<1>6. q.pc = "source" =>
        /\ q.op \in {"move", "copy"} /\ UserPath(q.dst)
        /\ UserPath(q.src) \/ (TrashPath(q.src, M) /\ q.op = "move")
        /\ Snapshot(q.seen, U, C) /\ Unique(q.seen)
        /\ Root \in DOMAIN q.seen /\ q.seen[Root].name = None
        /\ q.at \in C \cup {Root} /\ IsFolder(U, q.at)
        /\ q.at \in Walk(q.seen, q.dst)[Len(q.dst)]
  BY <1>1, <1>3, <1>5 DEF Asking
<1>7. q.pc = "destination" => q.op = "move" /\ TrashPath(q.src, M) /\ UserPath(q.dst)
  BY <1>1 DEF Asking
<1>. QED  BY <1>2, <1>4, <1>6, <1>7 DEF Asking

(***************************************************************************)
(* What was read is where it was read when it is the same in the database. *)
(***************************************************************************)
LEMMA AgreedOn ==
  ASSUME NEW S, NEW T, NEW B, NEW N, NEW p, NEW n \in Nat, n >= 1, NEW i \in Walk(S, p)[n],
         Tree(T, B, N), None \notin DOMAIN S, i \in DOMAIN T,
         \A j \in DOMAIN S : j \in DOMAIN T => T[j].name = S[j].name /\ T[j].parent = S[j].parent
  PROVE  i \in Walk(T, p)[n]
<1>1. ASSUME NEW m \in 2 .. n, NEW j \in Walk(S, p)[m], j \in DOMAIN T
      PROVE  /\ T[j].parent = S[j].parent /\ T[j].name = S[j].name
             /\ m > 2 => S[j].parent \in DOMAIN T
  <2>1. m \in Nat /\ m > 1
    OBVIOUS
  <2>2. j \in DOMAIN S
    BY <1>1, <2>1, WalkUp
  <2>3. T[j].parent = S[j].parent /\ T[j].name = S[j].name
    BY <1>1, <2>2
  <2>4. ASSUME m > 2 PROVE S[j].parent # None
    <3>1. PICK k \in Nat : k = m - 1 /\ k > 1
      BY <2>1, <2>4
    <3>2. S[j].parent \in Walk(S, p)[k]
      BY <1>1, <2>1, <3>1, WalkUp
    <3>. QED  BY <3>1, <3>2, WalkUp
  <2>5. T[j].parent \in DOMAIN T \/ T[j].parent = None
    BY <1>1, TreeGrounded
  <2>. QED  BY <2>3, <2>4, <2>5
<1>2. \A m \in 2 .. n : \A j \in Walk(S, p)[m] : j \in DOMAIN T =>
            /\ T[j].parent = S[j].parent /\ T[j].name = S[j].name
            /\ m > 2 => S[j].parent \in DOMAIN T
  BY <1>1
<1>3. n > 1 => i \in DOMAIN T
  OBVIOUS
<1>. QED  BY ONLY <1>2, <1>3, n \in Nat, n >= 1, i \in Walk(S, p)[n], WalkCarries

LEMMA Agreed ==
  ASSUME NEW q, NEW T, NEW B, NEW N, Tree(T, B, N), HasRead(q, T, B), Facts(q, T, B, N),
         q.op \in Operations,
         \A i \in DOMAIN q.seen : i \in DOMAIN T =>
            T[i].name = q.seen[i].name /\ T[i].parent = q.seen[i].parent
  PROVE  Placed(q, T)
<1>1. None \notin DOMAIN q.seen
  BY TreeAssumption DEF HasRead, Snapshot, Tree
<1>0. N \in Nat
  BY DEF Tree
<1>2. ASSUME q.op \in OfTarget, q.target \in DOMAIN T
      PROVE  q.target \in Walk(T, q.src)[Len(q.src)]
  <2>1. PICK n : n = Len(q.src)
    OBVIOUS
  <2>2. n \in Nat /\ n >= 1
    <3>1. q.op # "copy"
      BY <1>2 DEF OfTarget
    <3>2. Named(q.src)
      BY <1>0, <3>1, FactsNamed
    <3>. QED  BY <2>1, <3>2 DEF Named
  <2>3. q.target \in Walk(q.seen, q.src)[n]
    BY <1>2, <2>1 DEF HasRead
  <2>. QED  BY <1>1, <1>2, <2>1, <2>2, <2>3, AgreedOn
<1>3. ASSUME q.op \in {"move", "copy"}, q.at \in DOMAIN T
      PROVE  q.at \in Walk(T, q.dst)[Len(q.dst)]
  <2>1. PICK n : n = Len(q.dst)
    OBVIOUS
  <2>2. n \in Nat /\ n >= 1
    <3>1. Named(q.dst)
      BY <1>0, <1>3, FactsNamed
    <3>. QED  BY <2>1, <3>1 DEF Named
  <2>3. q.at \in Walk(q.seen, q.dst)[n]
    BY <1>3, <2>1 DEF HasRead
  <2>. QED  BY <1>1, <1>3, <2>1, <2>2, <2>3, AgreedOn
<1>4. ASSUME q.op \in {"folder", "file"}, q.at \in DOMAIN T
      PROVE  q.at \in Walk(T, q.src)[Len(q.src) - Len(q.left)]
  <2>1. PICK n : n = Len(q.src) - Len(q.left)
    OBVIOUS
  <2>2. n \in 1 .. Len(q.src)
    BY <1>0, <1>4, <2>1, FactsNamed
  <2>4. n \in Nat /\ n >= 1
    BY <2>2
  <2>3. q.at \in Walk(q.seen, q.src)[n]
    BY <1>4, <2>1 DEF HasRead
  <2>. QED  BY <1>1, <1>4, <2>1, <2>3, <2>4, AgreedOn
<1>. QED  BY <1>2, <1>3, <1>4 DEF Placed

(***************************************************************************)
(* One step of one request.  What it leaves of the files is a tree, the    *)
(* paths that others have locked stand, and it holds what it may.          *)
(***************************************************************************)
LEMMA IdleAsks ==
  ASSUME NEW T, NEW B, NEW N PROVE Asking(Idle, T, B, N) /\ Idle.pc \notin Holding
<1>1. Fields(Idle) /\ Idle.pc = "idle"
  BY DEF Idle, Fields
<1>. QED  BY <1>1 DEF Asking, Holding

LEMMA LockingStep ==
  ASSUME Locking, NEW r \in Requests, NEW x, NEW L,
         req' = [req EXCEPT ![r] = x], locks' = [locks EXCEPT ![r] = L],
         L = (IF x.pc \in Holding THEN Held(x) ELSE {}),
         \A s \in Requests \ {r} : \A p \in L, y \in locks[s] : ~Clash(p, y)
  PROVE  Locking'
<1>1. req = [s \in Requests |-> req[s]] /\ locks = [s \in Requests |-> locks[s]]
  BY DEF Locking
<1>2. req'[r] = x /\ locks'[r] = L
  BY <1>1
<1>3. \A s \in Requests \ {r} : req'[s] = req[s] /\ locks'[s] = locks[s]
  BY <1>1
<1>4. req' = [s \in Requests |-> req'[s]] /\ locks' = [s \in Requests |-> locks'[s]]
  BY <1>1
<1>5. ASSUME NEW s \in Requests
      PROVE  locks'[s] = IF req'[s].pc \in Holding THEN Held(req'[s]) ELSE {}
  BY <1>2, <1>3 DEF Locking
<1>6. ASSUME NEW s \in Requests, NEW u \in Requests, s # u, NEW p \in locks'[s], NEW y \in locks'[u]
      PROVE  ~Clash(p, y)
  <2>1. CASE s = r
    BY <1>2, <1>3, <1>6, <2>1
  <2>2. CASE u = r
    <3>1. ~Clash(y, p)
      BY <1>2, <1>3, <1>6, <2>2
    <3>. QED  BY <3>1 DEF Clash
  <2>3. CASE s # r /\ u # r
    BY <1>3, <1>6, <2>3 DEF Locking
  <2>. QED  BY <2>1, <2>2, <2>3
<1>. QED  BY <1>4, <1>5, <1>6 DEF Locking

LEMMA StepKeeps ==
  ASSUME IInv, NEW r \in Requests, NEW x, NEW L,
         Tree(rows', born', trashed'), born \subseteq born', trashed <= trashed',
         Later(rows, born, rows'),
         \A s \in Requests \ {r} : \A p \in locks[s] : Stands(rows, rows', p),
         req' = [req EXCEPT ![r] = x], Asking(x, rows', born', trashed'),
         locks' = [locks EXCEPT ![r] = L],
         L = (IF x.pc \in Holding THEN Held(x) ELSE {}),
         L \subseteq locks[r] \/ \A s \in Requests \ {r} : \A p \in L, y \in locks[s] : ~Clash(p, y)
  PROVE  IInv'
<1>1. Locking
  BY DEF IInv
<1>2. \A s \in Requests \ {r} : \A p \in L, y \in locks[s] : ~Clash(p, y)
  BY <1>1 DEF Locking
<1>3. Locking'
  BY <1>1, <1>2, LockingStep
<1>4. ASSUME NEW s \in Requests PROVE Asking(req'[s], rows', born', trashed')
  <2>1. CASE s = r
    BY <1>1, <2>1 DEF Locking
  <2>2. CASE s # r
    <3>1. PICK q : q = req[s]
      OBVIOUS
    <3>2. req'[s] = q
      BY <1>1, <2>2, <3>1 DEF Locking
    <3>3. Asking(q, rows, born, trashed)
      BY <3>1 DEF IInv
    <3>4. trashed \in Nat /\ trashed' \in Nat /\ born \subseteq Ids
      BY DEF IInv, Tree
    <3>5. ASSUME q.pc \in {"commit", "remove", "make"} PROVE Placed(q, rows')
      <4>1. locks[s] = Held(q)
        BY <1>1, <3>1, <3>5 DEF Locking, Holding
      <4>2. \A p \in Held(q) : Stands(rows, rows', p)
        BY <2>2, <4>1
      <4>3. Facts(q, rows, born, trashed) /\ q.op \in Operations /\ Placed(q, rows)
        BY <3>3, <3>5 DEF Asking
      <4>4. \A i \in DOMAIN rows' : i \in born \cup {Root} => i \in DOMAIN rows
        BY DEF Later
      <4>. QED  BY ONLY <3>4, <4>2, <4>3, <4>4, PlacedKept
    <3>6. Asking(q, rows', born', trashed')
      BY <3>3, <3>4, <3>5, AskingKept
    <3>. QED  BY <3>2, <3>6
  <2>. QED  BY <2>1, <2>2
<1>. QED  BY <1>3, <1>4 DEF IInv

(***************************************************************************)
(* A step that leaves the files alone.                                     *)
(***************************************************************************)
LEMMA Unmoved ==
  ASSUME NEW T, NEW B PROVE Later(T, B, T) /\ \A p : Stands(T, T, p)
BY DEF Later, Stands

LEMMA RowsKept ==
  ASSUME IInv, NEW r \in Requests, NEW x, NEW L,
         UNCHANGED <<rows, born, trashed>>,
         req' = [req EXCEPT ![r] = x], Asking(x, rows, born, trashed),
         locks' = [locks EXCEPT ![r] = L],
         L = (IF x.pc \in Holding THEN Held(x) ELSE {}),
         L \subseteq locks[r] \/ \A s \in Requests \ {r} : \A p \in L, y \in locks[s] : ~Clash(p, y)
  PROVE  IInv'
<1>1. rows' = rows /\ born' = born /\ trashed' = trashed
  OBVIOUS
<1>2. Tree(rows, born, trashed) /\ trashed \in Nat
  BY DEF IInv, Tree
<1>3. Tree(rows', born', trashed') /\ born \subseteq born' /\ trashed <= trashed'
  BY <1>1, <1>2
<1>4. Later(rows, born, rows') /\ \A s \in Requests \ {r} : \A p \in locks[s] : Stands(rows, rows', p)
  BY <1>1, Unmoved
<1>5. Asking(x, rows', born', trashed')
  BY <1>1
<1>. QED  BY <1>3, <1>4, <1>5, StepKeeps

LEMMA ReadKeeps ==
  ASSUME IInv, NEW r \in Requests, NEW x, req[r].pc \notin Holding, x.pc \notin Holding,
         UNCHANGED <<rows, born, trashed, locks>>,
         req' = [req EXCEPT ![r] = x], Asking(x, rows, born, trashed)
  PROVE  IInv'
<1>1. locks = [s \in Requests |-> locks[s]] /\ locks[r] = {}
  BY DEF IInv, Locking
<1>2. locks' = [locks EXCEPT ![r] = {}]
  BY <1>1
<1>3. PICK L : L = {}
  OBVIOUS
<1>. QED  BY <1>2, <1>3, RowsKept

LEMMA RefuseKeeps ==
  ASSUME IInv, NEW r \in Requests, Refuse(r)
  PROVE  IInv'
<1>1. /\ UNCHANGED <<rows, born, trashed>>
      /\ req' = [req EXCEPT ![r] = Idle] /\ locks' = [locks EXCEPT ![r] = {}]
  BY DEF Refuse, End
<1>2. Asking(Idle, rows, born, trashed) /\ Idle.pc \notin Holding
  BY IdleAsks
<1>3. PICK x, L : x = Idle /\ L = {}
  OBVIOUS
<1>. QED  BY <1>1, <1>2, <1>3, RowsKept

(***************************************************************************)
(* Paths that are asked for, and what is read on them.                     *)
(***************************************************************************)
LEMMA PathIs ==
  ASSUME NEW path \in Paths PROVE UserPath(path)
<1>. DEFINE S == Names \cup {Root}
<1>0. PICK n \in 0 .. Depth : \E names \in [1 .. n -> Names] : path = <<Root>> \o names
  BY DEF Paths
<1>1. PICK names \in [1 .. n -> Names] : path = <<Root>> \o names
  BY <1>0
<1>2. n \in Nat
  BY TreeAssumption
<1>3. names \in Seq(Names) /\ Len(names) = n
  BY <1>1, <1>2, SeqDef
<1>4. PICK one : one = <<Root>>
  OBVIOUS
<1>5. one \in Seq(S) /\ names \in Seq(S) /\ Len(one) = 1 /\ one[1] = Root
  BY <1>3, <1>4
<1>6. /\ path \in Seq(S) /\ Len(path) = 1 + n
      /\ \A i \in 1 .. 1 + n : path[i] = IF i <= 1 THEN one[i] ELSE names[i - 1]
  BY <1>1, <1>3, <1>4, <1>5, ConcatProperties
<1>7. path[1] = Root
  BY <1>2, <1>5, <1>6
<1>8. ASSUME NEW k \in 2 .. Len(path) PROVE path[k] \in Names
  <2>1. k \in 1 .. 1 + n /\ ~(k <= 1) /\ k - 1 \in 1 .. n
    BY <1>2, <1>6
  <2>2. path[k] = names[k - 1]
    BY <1>6, <2>1
  <2>. QED  BY <1>1, <2>1, <2>2
<1>9. Len(path) >= 1
  BY <1>2, <1>6
<1>. QED  BY <1>6, <1>7, <1>8, <1>9 DEF UserPath

LEMMA TrashPathIs ==
  ASSUME NEW path \in TrashPaths, trashed \in Nat PROVE TrashPath(path, trashed)
<1>1. PICK n \in 1 .. trashed : path = <<None, n>>
  BY DEF TrashPaths
<1>2. Len(path) = 2 /\ path[1] = None /\ path[2] = n
  BY <1>1
<1>. QED  BY <1>1, <1>2 DEF TrashPath

(***************************************************************************)
(* What is read: the rows on the way, as they are.                         *)
(***************************************************************************)
LEMMA SeenIs ==
  ASSUME NEW T, NEW p
  PROVE  /\ DOMAIN Seen(T, p) \subseteq DOMAIN T
         /\ \A i \in DOMAIN Seen(T, p) : /\ Seen(T, p)[i] = T[i]
                                         /\ \E n \in 1 .. Len(p) : i \in Walk(T, p)[n]
         /\ \A n \in 1 .. Len(p) : \A i \in Walk(T, p)[n] : i \in DOMAIN T => i \in DOMAIN Seen(T, p)
<1>1. PICK S : S = UNION {Walk(T, p)[n] : n \in 1 .. Len(p)}
  OBVIOUS
<1>2. PICK U : U = Seen(T, p)
  OBVIOUS
<1>3. U = [i \in DOMAIN T \cap S |-> T[i]]
  BY <1>1, <1>2 DEF Seen, Restrict
<1>4. \A i \in S : \E n \in 1 .. Len(p) : i \in Walk(T, p)[n]
  BY <1>1
<1>5. \A n \in 1 .. Len(p) : \A i \in Walk(T, p)[n] : i \in S
  BY <1>1
<1>6. DOMAIN U = DOMAIN T \cap S /\ \A i \in DOMAIN U : U[i] = T[i]
  BY <1>3
<1>. QED  BY <1>2, <1>4, <1>5, <1>6

(***************************************************************************)
(* A name tells a file in a folder from one in the trash.                  *)
(***************************************************************************)
LEMMA RowKinds ==
  ASSUME NEW T, NEW B, NEW N, Tree(T, B, N), NEW i \in DOMAIN T
  PROVE  /\ T[i].name \in Names => Filed(T, i) /\ i # Root
         /\ T[i].name \in Nat => Binned(T, N, i) /\ i # Root
         /\ i # Root => i \in B /\ T[i].name \in Names \cup Nat
<1>1. T[Root].name = None
  BY DEF Tree, Row
<1>2. None \notin Names \cup Nat /\ Names \cap Nat = {}
  BY TreeAssumption
<1>3. i = Root \/ Filed(T, i) \/ Binned(T, N, i)
  BY DEF Tree
<1>4. Filed(T, i) => T[i].name \in Names
  BY DEF Filed
<1>5. Binned(T, N, i) => T[i].name \in Nat
  <2>1. N \in Nat
    BY DEF Tree
  <2>. QED  BY <2>1 DEF Binned
<1>. QED  BY <1>1, <1>2, <1>3, <1>4, <1>5 DEF Tree

LEMMA SeenSnapshot ==
  ASSUME NEW T, NEW B, NEW N, NEW p, Tree(T, B, N)
  PROVE  /\ Snapshot(Seen(T, p), T, B) /\ Unique(Seen(T, p))
         /\ Len(p) \in Nat /\ Len(p) >= 1 /\ p[1] = Root =>
               Root \in DOMAIN Seen(T, p) /\ Seen(T, p)[Root].name = None
<1>1. PICK U : U = Seen(T, p)
  OBVIOUS
<1>2. DOMAIN U \subseteq DOMAIN T /\ \A i \in DOMAIN U : U[i] = T[i]
  BY <1>1, SeenIs
<1>3. ASSUME NEW i \in DOMAIN U
      PROVE  /\ U[i].name \in Names => U[i].restore = None
             /\ U[i].name \in Nat => UserPath(U[i].restore) /\ Len(U[i].restore) >= 2
             /\ U[i].folder = T[i].folder
  <2>1. U[i] = T[i] /\ i \in DOMAIN T
    BY <1>2
  <2>2. (T[i].name \in Names => Filed(T, i)) /\ (T[i].name \in Nat => Binned(T, N, i))
    BY <2>1, RowKinds
  <2>. QED  BY <2>1, <2>2 DEF Filed, Binned
<1>4. Snapshot(U, T, B)
  BY <1>2, <1>3 DEF Snapshot, Tree
<1>5. Unique(U)
  BY <1>2 DEF Unique, Tree
<1>6. ASSUME Len(p) \in Nat, Len(p) >= 1, p[1] = Root PROVE Root \in DOMAIN U /\ U[Root].name = None
  <2>1. 1 \in 1 .. Len(p) /\ Root \in Walk(T, p)[1] /\ Root \in DOMAIN T
    BY <1>6, WalkStart DEF Tree
  <2>2. Root \in DOMAIN U
    BY <1>1, <2>1, SeenIs
  <2>. QED  BY <1>2, <2>2 DEF Tree, Row
<1>. QED  BY <1>1, <1>4, <1>5, <1>6

(***************************************************************************)
(* A file that is at a path.                                               *)
(***************************************************************************)
LEMMA Found ==
  ASSUME NEW T, NEW B, NEW N, NEW p, NEW i, Tree(T, B, N), Named(p), i \in Resolve(T, p), i \in DOMAIN T
  PROVE  /\ i \in Walk(Seen(T, p), p)[Len(p)]
         /\ i # Root => i \in B /\ Len(p) >= 2 /\ T[i].name = p[Len(p)]
<1>1. PICK n : n = Len(p)
  OBVIOUS
<1>2. n \in 1 .. Len(p) /\ n \in Nat /\ n >= 1 /\ Len(p) \in Nat
  BY <1>1 DEF Named
<1>3. i \in Walk(T, p)[n]
  BY <1>1 DEF Resolve
<1>4. i \in Walk(Seen(T, p), p)[n]
  BY <1>2, <1>3, SeenLeads
<1>5. ASSUME i # Root PROVE i \in B /\ n > 1
  <2>1. i \in B /\ i # None
    BY <1>5, TreeAssumption DEF Tree
  <2>2. n # 1
    BY <1>3, <1>5, <2>1, WalkStart DEF Named
  <2>. QED  BY <1>2, <2>1, <2>2
<1>6. i # Root => T[i].name = p[n]
  BY <1>2, <1>3, <1>5, WalkUp
<1>7. n > 1 => n >= 2
  BY <1>2
<1>. QED  BY <1>1, <1>4, <1>5, <1>6, <1>7

(***************************************************************************)
(* A first read, with no lock.                                             *)
(***************************************************************************)
LEMMA Reading ==
  ASSUME IInv, NEW r \in Requests, NEW x, Begin(r, x), At(r, "idle"), x.pc \notin Holding,
         Asking(x, rows, born, trashed)
  PROVE  IInv'
<1>1. req[r].pc \notin Holding
  BY DEF At, Holding
<1>2. /\ UNCHANGED <<rows, born, trashed, locks>>
      /\ req' = [req EXCEPT ![r] = x]
  BY DEF Begin
<1>. QED  BY <1>1, <1>2, ReadKeeps

(***************************************************************************)
(* What each first read knows.                                             *)
(***************************************************************************)
LEMMA ReadTargetKeeps ==
  ASSUME IInv, NEW r \in Requests, At(r, "idle"), NEW op, NEW path \in Paths \cup TrashPaths, NEW name,
         ReadTarget(r, op, path, name)
  PROVE  IInv'
<1>1. Tree(rows, born, trashed) /\ trashed \in Nat
  BY DEF IInv, Tree
<1>2. PICK t \in Resolve(rows, path) \cap (Live \ {Root}) :
          /\ IF op = "rename" THEN name \in Names \ {rows[t].name} ELSE name = None
          /\ Begin(r, [Idle EXCEPT !.pc = "lock", !.op = op, !.src = path, !.name = name,
                                   !.target = t, !.seen = Seen(rows, path), !.got = rows[t]])
  BY DEF ReadTarget
<1>3. PICK x : x = [Idle EXCEPT !.pc = "lock", !.op = op, !.src = path, !.name = name,
                                !.target = t, !.seen = Seen(rows, path), !.got = rows[t]]
  OBVIOUS
<1>4. /\ Fields(x) /\ x.pc = "lock" /\ x.op = op /\ x.src = path /\ x.name = name
      /\ x.target = t /\ x.seen = Seen(rows, path) /\ x.at = None
  BY <1>3 DEF Idle, Fields
<1>5. op \in {"rename", "trash", "delete"} /\ (path \in TrashPaths => op = "delete")
  BY DEF ReadTarget
<1>6. UserPath(path) \/ (op = "delete" /\ TrashPath(path, trashed))
  BY <1>1, <1>5, PathIs, TrashPathIs
<1>7. Named(path)
  BY <1>1, <1>6, UserNamed, TrashNamed
<1>8. t \in Resolve(rows, path) /\ t \in DOMAIN rows /\ t # Root
  BY <1>2 DEF Live
<1>9. t \in Walk(Seen(rows, path), path)[Len(path)] /\ t \in born /\ Len(path) >= 2
  BY <1>1, <1>7, <1>8, Found
<1>10. op = "rename" => name \in Names
  BY <1>2
<1>11. Facts(x, rows, born, trashed)
  BY <1>4, <1>5, <1>6, <1>9, <1>10 DEF Facts
<1>12. Snapshot(Seen(rows, path), rows, born)
  BY <1>1, SeenSnapshot
<1>13. HasRead(x, rows, born)
  BY <1>4, <1>5, <1>9, <1>12 DEF HasRead
<1>14. Asking(x, rows, born, trashed)
  BY <1>4, <1>5, <1>11, <1>13 DEF Asking, Operations
<1>15. x.pc \notin Holding
  BY <1>4 DEF Holding
<1>. QED  BY <1>2, <1>3, <1>14, <1>15, Reading

LEMMA ReadAncestorKeeps ==
  ASSUME IInv, NEW r \in Requests, At(r, "idle"), NEW op, NEW path, ReadAncestor(r, op, path)
  PROVE  IInv'
<1>1. Tree(rows, born, trashed) /\ trashed \in Nat
  BY DEF IInv, Tree
<1>2. op \in {"folder", "file"} /\ path \in Paths
  BY DEF ReadAncestor
<1>3. UserPath(path) /\ Named(path)
  BY <1>2, PathIs, UserNamed
<1>0. PICK n \in 1 .. Len(path) - 1 : \E a \in Resolve(rows, SubSeq(path, 1, n)) :
             Begin(r, [Idle EXCEPT !.pc = "lock", !.op = op, !.src = path, !.at = a,
                                      !.seen = Seen(rows, SubSeq(path, 1, n)),
                                      !.left = SubSeq(path, n + 1, Len(path))])
  BY DEF ReadAncestor
<1>4. PICK a \in Resolve(rows, SubSeq(path, 1, n)) :
             Begin(r, [Idle EXCEPT !.pc = "lock", !.op = op, !.src = path, !.at = a,
                                      !.seen = Seen(rows, SubSeq(path, 1, n)),
                                      !.left = SubSeq(path, n + 1, Len(path))])
  BY <1>0
<1>5. PICK x : x = [Idle EXCEPT !.pc = "lock", !.op = op, !.src = path, !.at = a,
                                      !.seen = Seen(rows, SubSeq(path, 1, n)),
                                      !.left = SubSeq(path, n + 1, Len(path))]
  OBVIOUS
<1>6. PICK above, left, m : above = SubSeq(path, 1, n) /\ left = SubSeq(path, n + 1, Len(path)) /\ m = Len(path)
  OBVIOUS
<1>7. /\ Fields(x) /\ x.pc = "lock" /\ x.op = op /\ x.src = path
      /\ x.at = a /\ x.seen = Seen(rows, above) /\ x.left = left
  BY <1>5, <1>6 DEF Idle, Fields
<1>8. m \in Nat /\ n \in Nat /\ n >= 1 /\ n < m /\ n + 1 \in Int
  BY <1>6, <1>3 DEF UserPath
<1>9. \A i \in 1 .. m : path[i] \in Names \cup {Root}
  BY <1>3, <1>6, ElementOfSeq DEF UserPath
<1>10. \A i \in n + 1 .. m : path[i] \in Names
  BY <1>3, <1>6, <1>8 DEF UserPath
<1>11. above \in Seq(Names \cup {Root}) /\ Len(above) = n /\ \A i \in 1 .. n : above[i] = path[i]
  <2>1. \A i \in 1 .. n : path[i] \in Names \cup {Root}
    BY <1>8, <1>9
  <2>. QED  BY <1>6, <1>8, <2>1, SubSeqProperties
<1>12. left \in Seq(Names) /\ Len(left) = m - n /\ \A i \in 1 .. m - n : left[i] = path[n + i]
  <2>1. /\ left \in Seq(Names) /\ Len(left) = m - (n + 1) + 1
        /\ \A i \in 1 .. m - (n + 1) + 1 : left[i] = path[(n + 1) + i - 1]
    BY <1>6, <1>8, <1>10, SubSeqProperties
  <2>2. m - (n + 1) + 1 = m - n /\ \A i \in 1 .. m - n : (n + 1) + i - 1 = n + i
    BY <1>8
  <2>. QED  BY <2>1, <2>2
<1>13. m - Len(left) = n /\ Len(left) >= 1 /\ Len(left) < m
  BY <1>8, <1>12
<1>14. UserPath(above) /\ Named(above)
  <2>1. \A k \in 2 .. n : k \in 2 .. m /\ k \in 1 .. n
    BY <1>8
  <2>2. \A k \in 2 .. n : above[k] \in Names
    BY <1>3, <1>6, <1>11, <2>1 DEF UserPath
  <2>3. above[1] = Root
    BY <1>3, <1>8, <1>11 DEF UserPath
  <2>4. UserPath(above)
    BY <1>8, <1>11, <2>2, <2>3 DEF UserPath
  <2>. QED  BY <2>4, UserNamed
<1>15. a \in Walk(rows, above)[n]
  BY <1>4, <1>6, <1>11 DEF Resolve
<1>16. a \in DOMAIN rows
  <2>1. CASE n = 1
    <3>1. a = Root
      BY <1>14, <1>15, <2>1, WalkStart DEF UserPath
    <3>. QED  BY <1>1, <3>1 DEF Tree
  <2>2. CASE n > 1
    BY <1>15, <1>8, <2>2, WalkUp
  <2>. QED  BY <1>8, <2>1, <2>2
<1>17. a \in Walk(Seen(rows, above), above)[n]
  <2>1. a \in Resolve(rows, above)
    BY <1>11, <1>15 DEF Resolve
  <2>. QED  BY <1>1, <1>11, <1>14, <1>16, <2>1, Found
<1>18. Walk(Seen(rows, above), above)[n] = Walk(Seen(rows, above), path)[n]
  BY <1>8, <1>11, WalkPrefix
<1>19. a \in born \cup {Root}
  BY <1>1, <1>16 DEF Tree
<1>20. Facts(x, rows, born, trashed)
  <2>1. \A k \in 1 .. Len(left) : left[k] = path[m - Len(left) + k]
    BY <1>12, <1>13
  <2>. QED  BY <1>2, <1>3, <1>6, <1>7, <1>12, <1>13, <1>19, <2>1 DEF Facts
<1>21. HasRead(x, rows, born)
  <2>1. Snapshot(Seen(rows, above), rows, born)
    BY <1>1, SeenSnapshot
  <2>2. a \in Walk(Seen(rows, above), path)[m - Len(left)]
    BY <1>13, <1>17, <1>18
  <2>. QED  BY <1>2, <1>6, <1>7, <2>1, <2>2 DEF HasRead, OfTarget
<1>22. Asking(x, rows, born, trashed)
  BY <1>2, <1>7, <1>20, <1>21 DEF Asking, Operations
<1>23. x.pc \notin Holding
  BY <1>7 DEF Holding
<1>. QED  BY <1>4, <1>5, <1>22, <1>23, Reading

LEMMA ResolveLive ==
  ASSUME NEW T, NEW B, NEW N, NEW p, NEW i, Tree(T, B, N), Named(p), i \in Resolve(T, p),
         p[1] = Root \/ Len(p) >= 2
  PROVE  i \in DOMAIN T
<1>1. PICK n : n = Len(p)
  OBVIOUS
<1>2. n \in Nat /\ (n = 1 \/ n > 1)
  BY <1>1 DEF Named
<1>3. i \in Walk(T, p)[n]
  BY <1>1 DEF Resolve
<1>4. CASE n = 1
  <2>1. p[1] = Root
    BY <1>1, <1>4
  <2>. QED  BY <1>3, <1>4, <2>1, WalkStart DEF Tree
<1>5. CASE n > 1
  BY <1>2, <1>3, <1>5, WalkUp
<1>. QED  BY <1>2, <1>4, <1>5

(***************************************************************************)
(* A path without its last name.                                           *)
(***************************************************************************)
LEMMA FrontPath ==
  ASSUME NEW p, UserPath(p), Len(p) >= 2
  PROVE  UserPath(Front(p))
<1>1. PICK x, m : x = SubSeq(p, 1, m) /\ m = Len(p) - 1
  OBVIOUS
<1>2. m \in Nat /\ m >= 1 /\ p \in Seq(Names \cup {Root}) /\ Len(p) \in Nat
  BY <1>1 DEF UserPath
<1>3. \A i \in 1 .. m : p[i] \in Names \cup {Root}
  <2>1. \A i \in 1 .. m : i \in 1 .. Len(p)
    BY <1>1, <1>2
  <2>. QED  BY <1>2, <2>1
<1>4. x \in Seq(Names \cup {Root}) /\ Len(x) = m /\ \A i \in 1 .. m : x[i] = p[i]
  BY <1>1, <1>2, <1>3, SubSeqProperties
<1>5. \A k \in 2 .. m : x[k] \in Names
  <2>1. \A k \in 2 .. m : k \in 2 .. Len(p) /\ k \in 1 .. m
    BY <1>1, <1>2
  <2>. QED  BY <1>4, <2>1 DEF UserPath
<1>6. x[1] = Root
  BY <1>2, <1>4 DEF UserPath
<1>. QED  BY <1>1, <1>2, <1>4, <1>5, <1>6 DEF Front, UserPath

(***************************************************************************)
(* A destination that was read.                                            *)
(***************************************************************************)
LEMMA DestinationAsks ==
  ASSUME NEW T, NEW B, NEW N, NEW x, Tree(T, B, N), Fields(x), x.pc = "source",
         x.op \in {"move", "copy"}, UserPath(x.dst),
         UserPath(x.src) \/ (TrashPath(x.src, N) /\ x.op = "move"),
         x.at \in Resolve(T, x.dst), T[x.at].folder, x.seen = Seen(T, x.dst)
  PROVE  Asking(x, T, B, N)
<1>1. Named(x.dst)
  BY UserNamed
<1>2. x.at \in DOMAIN T
  BY <1>1, ResolveLive DEF UserPath
<1>3. x.at \in B \cup {Root} /\ IsFolder(T, x.at)
  BY <1>2 DEF IsFolder, Tree
<1>4. x.at \in Walk(x.seen, x.dst)[Len(x.dst)]
  BY <1>1, <1>2, Found
<1>5. Len(x.dst) \in Nat /\ Len(x.dst) >= 1 /\ x.dst[1] = Root
  BY DEF UserPath
<1>6. /\ Snapshot(x.seen, T, B) /\ Unique(x.seen)
      /\ Root \in DOMAIN x.seen /\ x.seen[Root].name = None
  BY <1>5, SeenSnapshot
<1>. QED  BY <1>3, <1>4, <1>6 DEF Asking, Operations

LEMMA ReadDestinationKeeps ==
  ASSUME IInv, NEW r \in Requests, At(r, "idle"), NEW op, NEW path \in Paths \cup TrashPaths,
         NEW dst, ReadDestination(r, op, path, dst)
  PROVE  IInv'
<1>1. Tree(rows, born, trashed) /\ trashed \in Nat
  BY DEF IInv, Tree
<1>2. op \in {"move", "copy"} /\ dst \in Paths /\ (path \in TrashPaths => op = "move")
  BY DEF ReadDestination
<1>3. UserPath(dst) /\ (UserPath(path) \/ (TrashPath(path, trashed) /\ op = "move"))
  BY <1>1, <1>2, PathIs, TrashPathIs
<1>4. PICK d \in Resolve(rows, dst) :
          /\ rows[d].folder
          /\ Begin(r, [Idle EXCEPT !.pc = "source", !.op = op, !.src = path, !.dst = dst,
                                   !.at = d, !.seen = Seen(rows, dst)])
  BY DEF ReadDestination
<1>5. PICK x : x = [Idle EXCEPT !.pc = "source", !.op = op, !.src = path, !.dst = dst,
                                !.at = d, !.seen = Seen(rows, dst)]
  OBVIOUS
<1>6. /\ Fields(x) /\ x.pc = "source" /\ x.op = op /\ x.src = path /\ x.dst = dst
      /\ x.at = d /\ x.seen = Seen(rows, dst)
  BY <1>5 DEF Idle, Fields
<1>7. Asking(x, rows, born, trashed)
  BY <1>1, <1>2, <1>3, <1>4, <1>6, DestinationAsks
<1>8. x.pc \notin Holding
  BY <1>6 DEF Holding
<1>. QED  BY <1>4, <1>5, <1>7, <1>8, Reading

LEMMA ReadTrashKeeps ==
  ASSUME IInv, NEW r \in Requests, At(r, "idle"), NEW op, NEW path, ReadTrash(r, op, path)
  PROVE  IInv'
<1>1. Tree(rows, born, trashed) /\ trashed \in Nat
  BY DEF IInv, Tree
<1>2. op = "move" /\ path \in TrashPaths
  BY DEF ReadTrash
<1>3. TrashPath(path, trashed) /\ Named(path)
  BY <1>1, <1>2, TrashPathIs, TrashNamed
<1>4. PICK t \in Resolve(rows, path) :
        Begin(r, [Idle EXCEPT !.pc = "destination", !.op = "move",
                                !.src = path, !.dst = Front(rows[t].restore)])
  BY DEF ReadTrash
<1>5. PICK x : x = [Idle EXCEPT !.pc = "destination", !.op = "move",
                                !.src = path, !.dst = Front(rows[t].restore)]
  OBVIOUS
<1>6. /\ Fields(x) /\ x.pc = "destination" /\ x.op = "move" /\ x.src = path
      /\ x.dst = Front(rows[t].restore)
  BY <1>5 DEF Idle, Fields
<1>7. Len(path) = 2 /\ path[2] \in Nat
  BY <1>1, <1>3 DEF TrashPath
<1>8. t \in Walk(rows, path)[2] /\ 2 \in Nat /\ 2 > 1
  BY <1>4, <1>7 DEF Resolve
<1>9. t \in DOMAIN rows /\ rows[t].name = path[2]
  BY <1>8, WalkUp
<1>10. Binned(rows, trashed, t)
  BY <1>1, <1>7, <1>9, RowKinds
<1>11. UserPath(x.dst)
  BY <1>6, <1>10, FrontPath DEF Binned
<1>12. Asking(x, rows, born, trashed)
  BY <1>3, <1>6, <1>11 DEF Asking, Operations
<1>13. x.pc \notin Holding
  BY <1>6 DEF Holding
<1>. QED  BY <1>4, <1>5, <1>12, <1>13, Reading

LEMMA ReadOriginKeeps ==
  ASSUME IInv, NEW r \in Requests, ReadOrigin(r)
  PROVE  IInv'
<1>1. Tree(rows, born, trashed)
  BY DEF IInv
<1>2. PICK q : q = req[r]
  OBVIOUS
<1>3. Asking(q, rows, born, trashed) /\ q.pc = "destination"
  BY <1>2 DEF IInv, ReadOrigin, At
<1>4. q.op = "move" /\ TrashPath(q.src, trashed) /\ UserPath(q.dst) /\ Fields(q)
  BY <1>3 DEF Asking
<1>5. \/ \E d \in Resolve(rows, q.dst) :
            /\ rows[d].folder
            /\ Step(r, [q EXCEPT !.pc = "source", !.at = d, !.seen = Seen(rows, q.dst)])
      \/ Refuse(r)
  BY <1>2 DEF ReadOrigin
<1>6. CASE Refuse(r)
  BY <1>6, RefuseKeeps
<1>7. CASE \E d \in Resolve(rows, q.dst) :
            /\ rows[d].folder
            /\ Step(r, [q EXCEPT !.pc = "source", !.at = d, !.seen = Seen(rows, q.dst)])
  <2>1. PICK d \in Resolve(rows, q.dst) :
            /\ rows[d].folder
            /\ Step(r, [q EXCEPT !.pc = "source", !.at = d, !.seen = Seen(rows, q.dst)])
    BY <1>7
  <2>2. PICK x : x = [q EXCEPT !.pc = "source", !.at = d, !.seen = Seen(rows, q.dst)]
    OBVIOUS
  <2>3. /\ Fields(x) /\ x.pc = "source" /\ x.op = q.op /\ x.src = q.src /\ x.dst = q.dst
        /\ x.at = d /\ x.seen = Seen(rows, q.dst)
    BY <1>4, <2>2 DEF Fields
  <2>4. Asking(x, rows, born, trashed)
    BY <1>1, <1>4, <2>1, <2>3, DestinationAsks
  <2>5. x.pc \notin Holding /\ req[r].pc \notin Holding
    BY <1>2, <1>3, <2>3 DEF Holding
  <2>6. UNCHANGED <<rows, born, trashed, locks>> /\ req' = [req EXCEPT ![r] = x]
    BY <2>1, <2>2 DEF Step
  <2>. QED  BY <2>4, <2>5, <2>6, ReadKeeps
<1>. QED  BY <1>5, <1>6, <1>7

(***************************************************************************)
(* Locks, and the comparison.                                              *)
(***************************************************************************)
LEMMA WantedIsHeld ==
  ASSUME NEW r, NEW q, q = req[r]
  PROVE  {Wanted(r)[i] : i \in DOMAIN Wanted(r)} = Held(q)
<1>1. PICK w : w = Wanted(r)
  OBVIOUS
<1>2. PICK into : into = Append(q.dst, q.got.name)
  OBVIOUS
<1>3. CASE q.op = "copy"
  <2>1. w = <<into>>
    BY <1>1, <1>2, <1>3 DEF Wanted
  <2>2. {w[i] : i \in DOMAIN w} = {into}
    BY <2>1
  <2>. QED  BY <1>1, <1>2, <1>3, <2>2 DEF Held
<1>4. CASE q.op = "move" /\ q.got.restore = None
  <2>1. w = <<q.src, into>>
    BY <1>1, <1>2, <1>4 DEF Wanted
  <2>2. {w[i] : i \in DOMAIN w} = {q.src, into}
    BY <2>1
  <2>. QED  BY <1>1, <1>2, <1>4, <2>2 DEF Held
<1>5. CASE q.op = "move" /\ q.got.restore # None
  <2>1. w = <<q.src, Append(q.dst, Last(q.got.restore)), into>>
    BY <1>1, <1>2, <1>5 DEF Wanted
  <2>3. PICK a, b : a = q.src /\ b = Append(q.dst, Last(q.got.restore))
    OBVIOUS
  <2>4. w = <<a, b, into>>
    BY <2>1, <2>3
  <2>5. DOMAIN w = {1, 2, 3} /\ w[1] = a /\ w[2] = b /\ w[3] = into
    BY <2>4
  <2>6. {w[i] : i \in DOMAIN w} = {a, b, into}
    BY <2>5
  <2>2. {w[i] : i \in DOMAIN w} = {q.src, Append(q.dst, Last(q.got.restore)), into}
    BY <2>3, <2>6
  <2>. QED  BY <1>1, <1>2, <1>5, <2>2 DEF Held
<1>6. CASE q.op # "copy" /\ q.op # "move"
  <2>1. w = <<q.src>>
    BY <1>1, <1>6 DEF Wanted
  <2>2. {w[i] : i \in DOMAIN w} = {q.src}
    BY <2>1
  <2>. QED  BY <1>1, <1>6, <2>2 DEF Held
<1>. QED  BY <1>3, <1>4, <1>5, <1>6

(***************************************************************************)
(* The locks are taken together or not at all.                             *)
(***************************************************************************)
LEMMA LockKeeps ==
  ASSUME IInv, NEW r \in Requests, Lock(r)
  PROVE  IInv'
<1>1. CASE Refuse(r)
  BY <1>1, RefuseKeeps
<1>2. CASE ~Refuse(r)
  <2>1. PICK q : q = req[r]
    OBVIOUS
  <2>2. /\ Grantable(Wanted(r)) /\ q.pc = "lock"
        /\ locks' = [locks EXCEPT ![r] = {Wanted(r)[i] : i \in DOMAIN Wanted(r)}]
        /\ req' = [req EXCEPT ![r].pc = "check"]
        /\ UNCHANGED <<rows, born, trashed>>
    BY <1>2, <2>1 DEF Lock, At
  <2>3. PICK L : L = {Wanted(r)[i] : i \in DOMAIN Wanted(r)}
    OBVIOUS
  <2>4. L = Held(q)
    BY <2>1, <2>3, WantedIsHeld
  <2>5. PICK x : x = [q EXCEPT !.pc = "check"]
    OBVIOUS
  <2>6. Asking(q, rows, born, trashed)
    BY <2>1 DEF IInv
  <2>7. /\ Fields(x) /\ x.pc = "check" /\ x.op = q.op /\ x.src = q.src /\ x.dst = q.dst /\ x.name = q.name
        /\ x.target = q.target /\ x.at = q.at /\ x.seen = q.seen /\ x.got = q.got /\ x.left = q.left
    BY <2>5, <2>6 DEF Asking, Fields
  <2>8. Facts(x, rows, born, trashed)
    <3>1. Facts(q, rows, born, trashed)
      BY <2>2, <2>6 DEF Asking
    <3>. QED  BY <3>1, <2>7 DEF Facts
  <2>9. HasRead(x, rows, born)
    <3>1. HasRead(q, rows, born)
      BY <2>2, <2>6 DEF Asking
    <3>. QED  BY <3>1, <2>7 DEF HasRead
  <2>10. q.op \in Operations
    BY <2>2, <2>6 DEF Asking
  <2>11. Asking(x, rows, born, trashed)
    BY <2>7, <2>8, <2>9, <2>10 DEF Asking
  <2>12. Held(x) = Held(q)
    BY <2>7 DEF Held
  <2>13. req' = [req EXCEPT ![r] = x]
    BY <2>1, <2>2, <2>5
  <2>14. \A s \in Requests \ {r} : \A p \in L, y \in locks[s] : ~Clash(p, y)
    BY <2>2, <2>3 DEF Grantable
  <2>15. L = IF x.pc \in Holding THEN Held(x) ELSE {}
    BY <2>4, <2>7, <2>12 DEF Holding
  <2>16. locks' = [locks EXCEPT ![r] = L]
    BY <2>2, <2>3
  <2>. QED  BY <2>2, <2>11, <2>13, <2>14, <2>15, <2>16, RowsKept
<1>. QED  BY <1>1, <1>2

(***************************************************************************)
(* The comparison: what was read is there still.                           *)
(***************************************************************************)
LEMMA EnsureConsistencyKeeps ==
  ASSUME IInv, NEW r \in Requests, EnsureConsistency(r)
  PROVE  IInv'
<1>1. CASE ~Consistent(r)
  BY <1>1, RefuseKeeps DEF EnsureConsistency
<1>2. CASE Consistent(r)
  <2>1. PICK q, pc : q = req[r] /\ pc = IF q.op \in {"folder", "file"} THEN "make" ELSE "commit"
    OBVIOUS
  <2>2. PICK x : x = [q EXCEPT !.pc = pc]
    OBVIOUS
  <2>3. q.pc = "check" /\ Step(r, x)
    BY <1>2, <2>1, <2>2 DEF EnsureConsistency, At
  <2>4. Asking(q, rows, born, trashed) /\ Tree(rows, born, trashed)
    BY <2>1 DEF IInv
  <2>5. Facts(q, rows, born, trashed) /\ HasRead(q, rows, born) /\ q.op \in Operations
    BY <2>3, <2>4 DEF Asking
  <2>6. \A i \in DOMAIN q.seen : i \in DOMAIN rows =>
            rows[i].name = q.seen[i].name /\ rows[i].parent = q.seen[i].parent
    BY <1>2, <2>1 DEF Consistent, Same, Live
  <2>7. Placed(q, rows)
    BY <2>4, <2>5, <2>6, Agreed
  <2>8. /\ Fields(x) /\ x.pc = pc /\ x.op = q.op /\ x.src = q.src /\ x.dst = q.dst /\ x.name = q.name
        /\ x.target = q.target /\ x.at = q.at /\ x.seen = q.seen /\ x.got = q.got /\ x.left = q.left
    BY <2>2, <2>4 DEF Asking, Fields
  <2>9. Facts(x, rows, born, trashed)
    BY <2>5, <2>8 DEF Facts
  <2>10. Placed(x, rows)
    BY <2>7, <2>8 DEF Placed
  <2>11. Asking(x, rows, born, trashed)
    BY <2>1, <2>5, <2>8, <2>9, <2>10 DEF Asking
  <2>12. Held(x) = Held(q) /\ x.pc \in Holding /\ q.pc \in Holding
    BY <2>1, <2>3, <2>8 DEF Held, Holding
  <2>13. locks[r] = Held(q) /\ locks = [s \in Requests |-> locks[s]]
    BY <2>1, <2>12 DEF IInv, Locking
  <2>14. PICK L : L = Held(q)
    OBVIOUS
  <2>15. UNCHANGED <<rows, born, trashed, locks>> /\ req' = [req EXCEPT ![r] = x]
    BY <2>3 DEF Step
  <2>16. locks' = [locks EXCEPT ![r] = L]
    BY <2>13, <2>14, <2>15
  <2>17. L = (IF x.pc \in Holding THEN Held(x) ELSE {}) /\ L \subseteq locks[r]
    BY <2>12, <2>13, <2>14
  <2>. QED  BY <2>11, <2>15, <2>16, <2>17, RowsKept
<1>. QED  BY <1>1, <1>2

(***************************************************************************)
(* One table over another, and a part of a table.                          *)
(***************************************************************************)
LEMMA OverIs ==
  ASSUME NEW f, NEW g
  PROVE  /\ DOMAIN Over(f, g) = DOMAIN f \cup DOMAIN g
         /\ \A i \in DOMAIN f : Over(f, g)[i] = f[i]
         /\ \A i \in DOMAIN g : i \notin DOMAIN f => Over(f, g)[i] = g[i]
BY DEF Over

LEMMA RestrictIs ==
  ASSUME NEW f, NEW S
  PROVE  /\ S \subseteq DOMAIN f => DOMAIN Restrict(f, S) = S
         /\ \A i \in DOMAIN Restrict(f, S) : i \in S /\ Restrict(f, S)[i] = f[i]
BY DEF Restrict

LEMMA SnapshotOver ==
  ASSUME NEW S, NEW U, NEW T, NEW B, Snapshot(S, T, B), Snapshot(U, T, B)
  PROVE  Snapshot(Over(S, U), T, B)
<1>1. PICK V : V = Over(S, U)
  OBVIOUS
<1>3. V = [i \in DOMAIN S \cup DOMAIN U |-> IF i \in DOMAIN S THEN S[i] ELSE U[i]]
  BY <1>1 DEF Over
<1>2. /\ DOMAIN V = DOMAIN S \cup DOMAIN U
      /\ \A i \in DOMAIN V : (i \in DOMAIN S /\ V[i] = S[i]) \/ (i \in DOMAIN U /\ V[i] = U[i])
  BY <1>3
<1>. QED  BY <1>1, <1>2 DEF Snapshot

LEMMA SnapshotPart ==
  ASSUME NEW S, NEW U, NEW T, NEW B, Snapshot(S, T, B), DOMAIN U \subseteq DOMAIN S,
         \A i \in DOMAIN U : U[i] = S[i]
  PROVE  Snapshot(U, T, B)
BY DEF Snapshot

(***************************************************************************)
(* The table that the source is read from.                                 *)
(***************************************************************************)
LEMMA DatabaseIs ==
  ASSUME IInv, NEW r \in Requests, req[r].pc = "source", NEW q, q = req[r]
  PROVE  /\ Snapshot(Database(q), rows, born) /\ None \notin DOMAIN Database(q)
         /\ q.src[1] # None /\ Len(q.src) >= 2 => Root \in DOMAIN Database(q)
<1>1. Tree(rows, born, trashed) /\ Asking(q, rows, born, trashed)
  BY DEF IInv
<1>2. /\ Snapshot(q.seen, rows, born) /\ Root \in DOMAIN q.seen /\ UserPath(q.dst)
      /\ UserPath(q.src) \/ (TrashPath(q.src, trashed) /\ q.op = "move")
  BY <1>1 DEF Asking
<1>3. Snapshot(rows, rows, born)
  <2>1. \A i \in DOMAIN rows : (rows[i].name \in Names => Filed(rows, i)) /\ (rows[i].name \in Nat => Binned(rows, trashed, i))
    BY <1>1, RowKinds
  <2>. QED  BY <1>1, <2>1 DEF Snapshot, Filed, Binned, Tree
<1>4. CASE q.src[1] = None
  BY <1>1, <1>3, <1>4, TreeGrounded DEF Database, Grounded
<1>5. CASE q.src[1] # None
  <2>1. PICK C, D : C = Restrict(q.seen, Cached(q)) /\ D = Restrict(rows, Live \ Hidden(q))
    OBVIOUS
  <2>2. Database(q) = Over(C, D)
    BY <1>5, <2>1 DEF Database
  <2>3. Cached(q) \subseteq DOMAIN q.seen
    BY DEF Cached
  <2>4. DOMAIN C = Cached(q) /\ \A i \in DOMAIN C : C[i] = q.seen[i]
    BY <2>1, <2>3, RestrictIs
  <2>5. DOMAIN D \subseteq DOMAIN rows /\ \A i \in DOMAIN D : D[i] = rows[i]
    <3>1. Live \ Hidden(q) \subseteq DOMAIN rows
      BY DEF Live
    <3>. QED  BY <2>1, <3>1, RestrictIs
  <2>6. Snapshot(C, rows, born) /\ Snapshot(D, rows, born)
    BY <1>2, <1>3, <2>3, <2>4, <2>5, SnapshotPart
  <2>7. Snapshot(Database(q), rows, born)
    BY <2>2, <2>6, SnapshotOver
  <2>8. None \notin DOMAIN Database(q)
    BY <1>1, <2>7, TreeAssumption DEF Snapshot, Tree
  <2>9. ASSUME Len(q.src) >= 2 PROVE Root \in DOMAIN C
    <3>1. UserPath(q.src) /\ q.src[1] = Root
      BY <1>2, <1>5 DEF TrashPath, UserPath
    <3>2. q.dst[1] = Root /\ Len(q.dst) \in Nat /\ Len(q.dst) >= 1 /\ Len(q.src) \in Nat
      BY <1>2, <3>1 DEF UserPath
    <3>3. SubSeq(q.src, 1, 1) = SubSeq(q.dst, 1, 1)
      <4>1. PICK a, b : a = SubSeq(q.src, 1, 1) /\ b = SubSeq(q.dst, 1, 1)
        OBVIOUS
      <4>2. \A i \in 1 .. 1 : q.src[i] \in {Root} /\ q.dst[i] \in {Root}
        BY <3>1, <3>2
      <4>3. a \in Seq({Root}) /\ Len(a) = 1 /\ b \in Seq({Root}) /\ Len(b) = 1
        BY <4>1, <4>2, SubSeqProperties
      <4>4. \A i \in 1 .. Len(a) : a[i] \in {Root} /\ b[i] \in {Root}
        BY <4>3, ElementOfSeq
      <4>5. a = b
        BY <4>3, <4>4, SeqEqual
      <4>. QED  BY <4>1, <4>5
    <3>4. 1 \in {m \in 1 .. Len(q.dst) : m < Len(q.src) /\ SubSeq(q.src, 1, m) = SubSeq(q.dst, 1, m)}
      BY <2>9, <3>2, <3>3
    <3>5. Root \in Walk(q.seen, q.dst)[1]
      BY <3>2, WalkStart
    <3>6. Root \in Cached(q)
      BY <1>2, <3>4, <3>5 DEF Cached
    <3>. QED  BY <2>4, <3>6
  <2>11. DOMAIN Over(C, D) = DOMAIN C \cup DOMAIN D
    BY OverIs
  <2>10. Len(q.src) >= 2 => Root \in DOMAIN Database(q)
    BY <2>2, <2>9, <2>11
  <2>. QED  BY <2>7, <2>8, <2>10
<1>. QED  BY <1>4, <1>5

LEMMA WalkGrows ==
  ASSUME NEW C, NEW V, NEW p, NEW n \in Nat, n >= 1, NEW i \in Walk(C, p)[n],
         \A j \in DOMAIN C : j \in DOMAIN V /\ V[j] = C[j]
  PROVE  i \in Walk(V, p)[n]
<1>1. ASSUME NEW m \in 2 .. n, NEW j \in Walk(C, p)[m]
      PROVE  /\ V[j].parent = C[j].parent /\ V[j].name = C[j].name
             /\ m > 2 => C[j].parent \in DOMAIN V
  <2>1. m \in Nat /\ m > 1
    OBVIOUS
  <2>2. j \in DOMAIN C
    BY <1>1, <2>1, WalkUp
  <2>3. ASSUME m > 2 PROVE C[j].parent \in DOMAIN V
    <3>1. PICK k \in Nat : k = m - 1 /\ k > 1
      BY <2>1, <2>3
    <3>2. C[j].parent \in Walk(C, p)[k]
      BY <1>1, <2>1, <3>1, WalkUp
    <3>3. C[j].parent \in DOMAIN C
      BY <3>1, <3>2, WalkUp
    <3>. QED  BY <3>3
  <2>. QED  BY <2>2, <2>3
<1>2. \A m \in 2 .. n : \A j \in Walk(C, p)[m] : j \in DOMAIN V =>
            /\ V[j].parent = C[j].parent /\ V[j].name = C[j].name
            /\ m > 2 => C[j].parent \in DOMAIN V
  BY <1>1
<1>3. n > 1 => i \in DOMAIN V
  <2>1. n > 1 => i \in DOMAIN C
    BY WalkUp
  <2>. QED  BY <2>1
<1>. QED  BY ONLY <1>2, <1>3, n \in Nat, n >= 1, i \in Walk(C, p)[n], WalkCarries

LEMMA SeenClosed ==
  ASSUME NEW D, NEW p, Named(p), NEW j \in DOMAIN Seen(D, p), j \notin {Root, None},
         D[j].parent \notin {Root, None}
  PROVE  D[j].parent \in DOMAIN Seen(D, p)
<1>1. PICK k \in 1 .. Len(p) : j \in Walk(D, p)[k]
  BY SeenIs
<1>2. k \in Nat /\ Len(p) \in Nat /\ (k = 1 \/ k > 1)
  BY DEF Named
<1>3. k # 1
  BY <1>1, WalkStart DEF Named
<1>4. PICK m \in Nat : m = k - 1 /\ m \in 1 .. Len(p) /\ (m = 1 \/ m > 1)
  BY <1>2, <1>3
<1>5. D[j].parent \in Walk(D, p)[m]
  BY <1>1, <1>2, <1>3, <1>4, WalkUp
<1>6. m # 1
  BY <1>5, WalkStart DEF Named
<1>7. D[j].parent \in DOMAIN D
  BY <1>4, <1>5, <1>6, WalkUp
<1>. QED  BY <1>4, <1>5, <1>7, SeenIs

LEMMA NotYetIs ==
  ASSUME NEW q, NEW C, NEW i
  PROVE  i \in NotYet(q, C) <=>
            \E m \in 1 .. Len(q.dst) :
               /\ i \in Walk(q.seen, q.dst)[m]
               /\ \A k \in m .. Len(q.dst) : Walk(q.seen, q.dst)[k] \cap DOMAIN C = {}
BY DEF NotYet

LEMMA NotYetSeen ==
  ASSUME NEW q, NEW C, UserPath(q.dst), Root \in DOMAIN q.seen
  PROVE  NotYet(q, C) \subseteq DOMAIN q.seen
<1>1. SUFFICES ASSUME NEW i \in NotYet(q, C) PROVE i \in DOMAIN q.seen
  OBVIOUS
<1>2. PICK m \in 1 .. Len(q.dst) : i \in Walk(q.seen, q.dst)[m]
  BY NotYetIs
<1>3. m \in Nat /\ (m = 1 \/ m > 1)
  BY DEF UserPath
<1>4. CASE m = 1
  BY <1>2, <1>4, WalkStart DEF UserPath
<1>5. CASE m > 1
  BY <1>2, <1>3, <1>5, WalkUp
<1>. QED  BY <1>3, <1>4, <1>5

(***************************************************************************)
(* What is compared with the database leads to the destination, unless     *)
(* what was read of a file for the source is not what was read for the     *)
(* destination.                                                            *)
(***************************************************************************)
LEMMA BothLead ==
  ASSUME NEW q, NEW D, NEW C, NEW p, C = Seen(D, p), Named(p), ~Torn(q, C),
         Unique(q.seen), None \notin DOMAIN q.seen,
         Root \in DOMAIN q.seen, q.seen[Root].name = None,
         UserPath(q.dst), q.at \in Walk(q.seen, q.dst)[Len(q.dst)]
  PROVE  q.at \in Walk(Both(q, C), q.dst)[Len(q.dst)]
<1>1. PICK n, S, V, R, dst : /\ n = Len(q.dst) /\ S = q.seen /\ V = Both(q, C) /\ dst = q.dst
                             /\ R = Restrict(S, NotYet(q, C))
  OBVIOUS
<1>2. n \in Nat /\ n >= 1 /\ n = Len(dst) /\ Named(dst)
  BY <1>1, UserNamed DEF UserPath
<1>0. V = Over(C, R)
  BY <1>1 DEF Both
<1>3. /\ DOMAIN V = DOMAIN C \cup DOMAIN R
      /\ \A i \in DOMAIN C : V[i] = C[i]
      /\ \A i \in DOMAIN R : i \notin DOMAIN C => V[i] = R[i]
  <2>1. V = [i \in DOMAIN C \cup DOMAIN R |-> IF i \in DOMAIN C THEN C[i] ELSE R[i]]
    BY <1>0 DEF Over
  <2>. QED  BY <2>1
<1>4. \A i : i \in NotYet(q, C) <=>
            \E m \in 1 .. n : i \in Walk(S, dst)[m] /\ \A k \in m .. n : Walk(S, dst)[k] \cap DOMAIN C = {}
  BY <1>1, NotYetIs
<1>5. DOMAIN R = DOMAIN S \cap NotYet(q, C) /\ \A i \in DOMAIN R : R[i] = S[i]
  <2>1. NotYet(q, C) \subseteq DOMAIN S
    BY <1>1, NotYetSeen
  <2>. QED  BY <1>1, <2>1 DEF Restrict
<1>6. \A i \in DOMAIN S : i \in DOMAIN C => S[i].parent = C[i].parent /\ S[i].name = C[i].name
  BY <1>1 DEF Torn
<1>7. \A i \in DOMAIN C : C[i] = D[i]
  BY SeenIs
<1>8. Grounded(S)
  BY <1>1 DEF Grounded
<1>9. ASSUME NEW m \in 2 .. n, NEW j \in Walk(S, dst)[m]
      PROVE  m \in Nat /\ m > 1 /\ j \in DOMAIN S /\ j # Root /\ S[j].parent \in Walk(S, dst)[m - 1]
  <2>1. m \in Nat /\ m > 1
    OBVIOUS
  <2>2. j \in DOMAIN S /\ S[j].name = dst[m] /\ S[j].parent \in Walk(S, dst)[m - 1]
    BY <1>9, <2>1, WalkUp
  <2>3. dst[m] # None
    BY <1>2, NoneIsNoName DEF Named
  <2>. QED  BY <1>1, <2>1, <2>2, <2>3
<1>10. ASSUME NEW m \in 2 .. n, NEW j \in Walk(S, dst)[m], j \in DOMAIN V
      PROVE  /\ V[j].parent = S[j].parent /\ V[j].name = S[j].name
             /\ m > 2 => S[j].parent \in DOMAIN V
  <2>1. m \in Nat /\ m > 1 /\ j \in DOMAIN S /\ j # Root /\ S[j].parent \in Walk(S, dst)[m - 1]
    BY <1>9, <1>10
  <2>2. V[j].parent = S[j].parent /\ V[j].name = S[j].name
    <3>1. CASE j \in DOMAIN C
      BY <1>3, <1>6, <2>1, <3>1
    <3>2. CASE j \notin DOMAIN C
      BY <1>3, <1>5, <1>10, <3>2
    <3>. QED  BY <3>1, <3>2
  <2>3. ASSUME m > 2 PROVE S[j].parent \in DOMAIN V
    <3>1. PICK l, x : l = m - 1 /\ x = S[j].parent
      OBVIOUS
    <3>2. l \in 2 .. n /\ x \in Walk(S, dst)[l]
      BY <1>2, <2>1, <2>3, <3>1
    <3>3. x \in DOMAIN S /\ x # Root /\ x # None
      BY <1>1, <1>9, <3>2
    <3>4. CASE x \in DOMAIN C
      BY <1>3, <3>1, <3>4
    <3>5. CASE x \notin DOMAIN C
      <4>1. ASSUME j \in DOMAIN C PROVE FALSE
        <5>1. D[j].parent = x
          BY <1>6, <1>7, <2>1, <3>1, <4>1
        <5>2. j # None
          BY <1>1, <2>1
        <5>3. x \in DOMAIN Seen(D, p)
          BY <2>1, <3>3, <4>1, <5>1, <5>2, SeenClosed
        <5>. QED  BY <3>5, <5>3
      <4>2. j \in NotYet(q, C)
        BY <1>3, <1>5, <1>10, <4>1
      <4>3. PICK a \in 1 .. n : j \in Walk(S, dst)[a] /\ \A k \in a .. n : Walk(S, dst)[k] \cap DOMAIN C = {}
        BY <1>4, <4>2
      <4>4. m \in 1 .. n
        BY <1>2
      <4>5. a = m
        <5>1. a \in 1 .. Len(dst) /\ m \in 1 .. Len(dst) /\ j \in Walk(S, dst)[a] /\ j \in Walk(S, dst)[m]
          BY <1>2, <1>10, <4>3, <4>4
        <5>. QED  BY <1>2, <1>8, <5>1, OnePath
      <4>6. Walk(S, dst)[l] \cap DOMAIN C = {}
        <5>1. l \in Nat /\ l >= 1 /\ Unique(S)
          BY <1>1, <3>2
        <5>2. \A y \in Walk(S, dst)[l] : y = x
          BY <3>2, <5>1, OneFile
        <5>. QED  BY <3>5, <5>2
      <4>7. \A k \in l .. n : k = l \/ k \in m .. n
        BY <1>2, <2>1, <3>1
      <4>8. \A k \in l .. n : Walk(S, dst)[k] \cap DOMAIN C = {}
        BY <4>3, <4>5, <4>6, <4>7
      <4>9. l \in 1 .. n
        BY <3>2
      <4>10. x \in NotYet(q, C)
        BY <1>4, <3>2, <4>8, <4>9
      <4>. QED  BY <1>3, <1>5, <3>1, <3>3, <4>10
    <3>. QED  BY <3>4, <3>5
  <2>. QED  BY <2>2, <2>3
<1>11. ASSUME n > 1 PROVE q.at \in DOMAIN V
  <2>1. n \in 2 .. n /\ q.at \in Walk(S, dst)[n] /\ n \in 1 .. n
    BY <1>1, <1>2, <1>11
  <2>2. q.at \in DOMAIN S
    BY <1>9, <2>1
  <2>3. CASE q.at \in DOMAIN C
    BY <1>3, <2>3
  <2>4. CASE q.at \notin DOMAIN C
    <3>1. Unique(S)
      BY <1>1
    <3>2. \A y \in Walk(S, dst)[n] : y = q.at
      BY <1>2, <2>1, <3>1, OneFile
    <3>3. \A k \in n .. n : k = n
      BY <1>2
    <3>4. \A k \in n .. n : Walk(S, dst)[k] \cap DOMAIN C = {}
      BY <2>4, <3>2, <3>3
    <3>5. q.at \in NotYet(q, C)
      BY <1>4, <2>1, <3>4
    <3>. QED  BY <1>3, <1>5, <2>2, <3>5
  <2>. QED  BY <2>3, <2>4
<1>12. \A m \in 2 .. n : \A j \in Walk(S, dst)[m] : j \in DOMAIN V =>
            /\ V[j].parent = S[j].parent /\ V[j].name = S[j].name
            /\ m > 2 => S[j].parent \in DOMAIN V
  BY <1>10
<1>13. q.at \in Walk(S, dst)[n] /\ (n > 1 => q.at \in DOMAIN V) /\ n \in Nat /\ n >= 1
  BY <1>1, <1>2, <1>11
<1>14. PICK at : at = q.at
  OBVIOUS
<1>15. at \in Walk(S, dst)[n] /\ (n > 1 => at \in DOMAIN V)
  BY <1>13, <1>14
<1>16. at \in Walk(V, dst)[n]
  BY ONLY <1>12, <1>13, <1>15, WalkCarries
<1>. QED  BY <1>1, <1>14, <1>16

(***************************************************************************)
(* The source.                                                             *)
(***************************************************************************)
LEMMA ReadSourceKeeps ==
  ASSUME IInv, ~TornReads, NEW r \in Requests, ReadSource(r)
  PROVE  IInv'
<1>1. PICK q, D, C : q = req[r] /\ D = Database(q) /\ C = Seen(D, q.src)
  OBVIOUS
<1>2. q.pc = "source" /\ Asking(q, rows, born, trashed) /\ Tree(rows, born, trashed) /\ trashed \in Nat
  BY <1>1 DEF ReadSource, At, IInv, Tree
<1>3. /\ q.op \in {"move", "copy"} /\ UserPath(q.dst) /\ Fields(q)
      /\ UserPath(q.src) \/ (TrashPath(q.src, trashed) /\ q.op = "move")
      /\ Snapshot(q.seen, rows, born) /\ Unique(q.seen)
      /\ Root \in DOMAIN q.seen /\ q.seen[Root].name = None
      /\ q.at \in born \cup {Root} /\ IsFolder(rows, q.at)
      /\ q.at \in Walk(q.seen, q.dst)[Len(q.dst)]
  BY <1>2 DEF Asking
<1>4. \/ Refuse(r)
      \/ \E t \in Resolve(D, q.src) \cap (DOMAIN D \ {Root}) :
            /\ ~(D[t].folder /\ IsPrefix(q.src, q.dst))
            /\ TornReads \/ ~Torn(q, C)
            /\ Step(r, [q EXCEPT !.pc = "lock", !.target = t, !.got = D[t],
                                 !.seen = IF q.op = "copy" THEN @ ELSE Both(q, C)])
  BY <1>1 DEF ReadSource
<1>5. CASE Refuse(r)
  BY <1>5, RefuseKeeps
<1>6. CASE \E t \in Resolve(D, q.src) \cap (DOMAIN D \ {Root}) :
            /\ ~(D[t].folder /\ IsPrefix(q.src, q.dst))
            /\ TornReads \/ ~Torn(q, C)
            /\ Step(r, [q EXCEPT !.pc = "lock", !.target = t, !.got = D[t],
                                 !.seen = IF q.op = "copy" THEN @ ELSE Both(q, C)])
  <2>1. PICK t \in Resolve(D, q.src) \cap (DOMAIN D \ {Root}) :
            /\ ~(D[t].folder /\ IsPrefix(q.src, q.dst))
            /\ ~Torn(q, C)
            /\ Step(r, [q EXCEPT !.pc = "lock", !.target = t, !.got = D[t],
                                 !.seen = IF q.op = "copy" THEN @ ELSE Both(q, C)])
    BY <1>6
  <2>2. PICK seen : seen = IF q.op = "copy" THEN q.seen ELSE Both(q, C)
    OBVIOUS
  <2>3. PICK x : x = [q EXCEPT !.pc = "lock", !.target = t, !.got = D[t], !.seen = seen]
    OBVIOUS
  <2>4. Step(r, x)
    BY <2>1, <2>2, <2>3 DEF Fields
  <2>5. /\ Fields(x) /\ x.pc = "lock" /\ x.op = q.op /\ x.src = q.src /\ x.dst = q.dst
        /\ x.at = q.at /\ x.target = t /\ x.got = D[t] /\ x.seen = seen
    BY <1>3, <2>3 DEF Fields
  <2>6. /\ Snapshot(D, rows, born) /\ None \notin DOMAIN D
        /\ q.src[1] # None /\ Len(q.src) >= 2 => Root \in DOMAIN D
    BY <1>1, <1>2, DatabaseIs
  <2>7. Named(q.src)
    BY <1>2, <1>3, UserNamed, TrashNamed
  <2>8. PICK n : n = Len(q.src)
    OBVIOUS
  <2>9. t \in Walk(D, q.src)[n] /\ t \in DOMAIN D /\ t # Root /\ t # None
    BY <2>1, <2>6, <2>8 DEF Resolve
  <2>10. n \in Nat /\ n > 1 /\ n >= 2 /\ n \in 1 .. Len(q.src) /\ Len(q.src) \in Nat
    <3>1. n \in Nat /\ n >= 1
      BY <2>7, <2>8 DEF Named
    <3>2. n # 1
      BY <2>7, <2>9, WalkStart DEF Named
    <3>3. n > 1 /\ n >= 2 /\ n \in 1 .. n
      BY <3>1, <3>2
    <3>. QED  BY <2>8, <3>1, <3>3
  <2>11. D[t].name = q.src[n]
    BY <2>9, <2>10, WalkUp
  <2>12. t \in born /\ (t \in DOMAIN rows => rows[t].folder = D[t].folder)
    BY <2>6, <2>9 DEF Snapshot
  <2>13. ASSUME UserPath(q.src) PROVE D[t].name \in Names /\ D[t].restore = None
    <3>1. D[t].name \in Names
      BY <2>10, <2>11, <2>13, <2>8 DEF UserPath
    <3>. QED  BY <2>6, <2>9, <3>1 DEF Snapshot
  <2>14. ASSUME TrashPath(q.src, trashed)
         PROVE  UserPath(D[t].restore) /\ Len(D[t].restore) >= 2
    <3>1. n = 2 /\ q.src[2] \in Nat
      BY <1>2, <2>8, <2>14 DEF TrashPath
    <3>. QED  BY <2>6, <2>9, <2>11, <3>1 DEF Snapshot
  <2>15. Facts(x, rows, born, trashed)
    <3>1. x.op \notin {"rename", "trash", "delete"} /\ x.op \notin {"folder", "file"} /\ x.op \in {"move", "copy"}
      BY <1>3, <2>5
    <3>2. /\ UserPath(x.dst) /\ x.at \in born \cup {Root} /\ IsFolder(rows, x.at) /\ x.target \in born
          /\ x.target \in DOMAIN rows => rows[x.target].folder = x.got.folder
      BY <1>3, <2>5, <2>12
    <3>3. x.op = "copy" => x.got.name \in Names
      BY <1>3, <2>5, <2>13
    <3>4. Len(x.src) >= 2 /\ x.got.name = x.src[Len(x.src)]
      BY <2>5, <2>8, <2>10, <2>11
    <3>5. \/ UserPath(x.src) /\ x.got.restore = None
          \/ TrashPath(x.src, trashed) /\ UserPath(x.got.restore) /\ Len(x.got.restore) >= 2
      BY <1>3, <2>5, <2>13, <2>14
    <3>6. x.got.folder => ~IsPrefix(x.src, x.dst)
      BY <2>1, <2>5
    <3>. QED  BY <3>1, <3>2, <3>3, <3>4, <3>5, <3>6 DEF Facts
  <2>16. HasRead(x, rows, born)
    <3>1. CASE q.op = "copy"
      BY <1>3, <2>2, <2>5, <3>1 DEF HasRead, OfTarget
    <3>2. CASE q.op # "copy"
      <4>1. seen = Both(q, C) /\ q.op = "move"
        BY <1>3, <2>2, <3>2
      <4>2. None \notin DOMAIN q.seen
        BY <1>2, <1>3, TreeAssumption DEF Snapshot, Tree
      <4>3. q.at \in Walk(seen, q.dst)[Len(q.dst)]
        BY <1>1, <1>3, <2>1, <2>7, <4>1, <4>2, BothLead
      <4>4. t \in Walk(C, q.src)[n]
        BY <1>1, <2>9, <2>10, SeenLeads
      <4>5. PICK R : R = Restrict(q.seen, NotYet(q, C))
        OBVIOUS
      <4>6. seen = Over(C, R)
        BY <4>1, <4>5 DEF Both
      <4>7. \A j \in DOMAIN C : j \in DOMAIN seen /\ seen[j] = C[j]
        BY <4>6 DEF Over
      <4>8. n >= 1
        BY <2>10
      <4>9. t \in Walk(seen, q.src)[n]
        BY <2>10, <4>4, <4>7, <4>8, WalkGrows
      <4>10. Snapshot(C, rows, born)
        <5>1. DOMAIN C \subseteq DOMAIN D /\ \A i \in DOMAIN C : C[i] = D[i]
          BY <1>1, SeenIs
        <5>. QED  BY <2>6, <5>1, SnapshotPart
      <4>11. Snapshot(R, rows, born)
        <5>2. NotYet(q, C) \subseteq DOMAIN q.seen
          BY <1>3, NotYetSeen
        <5>1. DOMAIN R \subseteq DOMAIN q.seen /\ \A i \in DOMAIN R : R[i] = q.seen[i]
          BY <4>5, <5>2 DEF Restrict
        <5>. QED  BY <1>3, <5>1, SnapshotPart
      <4>12. Snapshot(seen, rows, born)
        BY <4>6, <4>10, <4>11, SnapshotOver
      <4>. QED  BY <2>5, <2>8, <4>1, <4>3, <4>9, <4>12 DEF HasRead, OfTarget
    <3>. QED  BY <3>1, <3>2
  <2>17. Asking(x, rows, born, trashed)
    BY <1>3, <2>5, <2>15, <2>16 DEF Asking, Operations
  <2>18. x.pc \notin Holding /\ req[r].pc \notin Holding
    BY <1>1, <1>2, <2>5 DEF Holding
  <2>19. UNCHANGED <<rows, born, trashed, locks>> /\ req' = [req EXCEPT ![r] = x]
    BY <2>4 DEF Step
  <2>. QED  BY <2>17, <2>18, <2>19, ReadKeeps
<1>. QED  BY <1>4, <1>5, <1>6

(***************************************************************************)
(* What a transaction has to leave: a tree, whose ids are not used again,  *)
(* and the paths that others have locked.                                  *)
(***************************************************************************)
LEMMA LockNamed ==
  ASSUME IInv, NEW s \in Requests, NEW p \in locks[s]
  PROVE  /\ Named(p) /\ req[s].pc \in Holding /\ p \in Held(req[s])
         /\ Facts(req[s], rows, born, trashed) /\ req[s].op \in Operations
<1>1. req[s].pc \in Holding /\ p \in Held(req[s])
  BY DEF IInv, Locking
<1>2. PICK q : q = req[s]
  OBVIOUS
<1>3. Asking(q, rows, born, trashed) /\ trashed \in Nat
  BY <1>2 DEF IInv, Tree
<1>4. Facts(q, rows, born, trashed) /\ q.op \in Operations
  BY <1>1, <1>2, <1>3 DEF Asking, Holding
<1>5. Named(p)
  BY <1>1, <1>2, <1>3, <1>4, HeldNamed
<1>. QED  BY <1>1, <1>2, <1>4, <1>5

LEMMA OthersStand ==
  ASSUME IInv, NEW r \in Requests, NEW p0 \in locks[r], NEW t, t \in Walk(rows, p0)[Len(p0)],
         NEW U, NEW C, NEW M, Tree(U, C, M),
         \A i \in DOMAIN rows : i \in DOMAIN U /\ i # t =>
            U[i].parent = rows[i].parent /\ U[i].name = rows[i].name,
         NEW s \in Requests \ {r}, NEW p \in locks[s]
  PROVE  Stands(rows, U, p)
<1>1. Named(p) /\ Named(p0)
  BY LockNamed
<1>2. Tree(rows, born, trashed) /\ Grounded(rows)
  BY TreeGrounded DEF IInv
<1>3. ~IsPrefix(p0, p)
  BY DEF IInv, Locking, Clash
<1>4. ASSUME NEW n \in 2 .. Len(p), NEW i \in Walk(rows, p)[n], i \in DOMAIN U
      PROVE  U[i].parent = rows[i].parent /\ U[i].name = rows[i].name
  <2>1. n \in Nat /\ n > 1 /\ n \in 1 .. Len(p)
    BY <1>1 DEF Named
  <2>2. i \in DOMAIN rows
    BY <1>4, <2>1, WalkUp
  <2>3. i # t
    BY <1>1, <1>2, <1>3, <1>4, <2>1, NoClash
  <2>. QED  BY <1>4, <2>2, <2>3
<1>5. \A n \in 2 .. Len(p) : \A i \in Walk(rows, p)[n] :
            i \in DOMAIN U => U[i].parent = rows[i].parent /\ U[i].name = rows[i].name
  BY <1>4
<1>. QED  BY <1>1, <1>2, <1>5, StandsIf

LEMMA AllStand ==
  ASSUME IInv, NEW U, NEW C, NEW M, Tree(U, C, M),
         \A i \in DOMAIN rows : i \in DOMAIN U =>
            U[i].parent = rows[i].parent /\ U[i].name = rows[i].name,
         NEW s \in Requests, NEW p \in locks[s]
  PROVE  Stands(rows, U, p)
<1>1. Named(p)
  BY LockNamed
<1>2. Tree(rows, born, trashed)
  BY DEF IInv
<1>3. \A n \in 2 .. Len(p) : \A i \in Walk(rows, p)[n] :
            i \in DOMAIN U => U[i].parent = rows[i].parent /\ U[i].name = rows[i].name
  <2>1. ASSUME NEW n \in 2 .. Len(p), NEW i \in Walk(rows, p)[n] PROVE i \in DOMAIN rows
    <3>1. n \in Nat /\ n > 1
      OBVIOUS
    <3>. QED  BY <3>1, <2>1, WalkUp
  <2>. QED  BY <2>1
<1>. QED  BY <1>1, <1>2, <1>3, StandsIf

LEMMA EndKeeps ==
  ASSUME IInv, NEW r \in Requests, End(r),
         Tree(rows', born', trashed'), born \subseteq born', trashed <= trashed',
         Later(rows, born, rows'),
         \A s \in Requests \ {r} : \A p \in locks[s] : Stands(rows, rows', p)
  PROVE  IInv'
<1>1. req' = [req EXCEPT ![r] = Idle] /\ locks' = [locks EXCEPT ![r] = {}]
  BY DEF End
<1>2. Asking(Idle, rows', born', trashed') /\ Idle.pc \notin Holding
  BY IdleAsks
<1>3. PICK x, L : x = Idle /\ L = {}
  OBVIOUS
<1>. QED  BY <1>1, <1>2, <1>3, StepKeeps

(***************************************************************************)
(* One row is changed.                                                     *)
(***************************************************************************)
RowChange(T, U, t, row) ==
  /\ t \in DOMAIN T /\ t # Root
  /\ U = [T EXCEPT ![t] = row] /\ Rec(row) /\ row.folder = T[t].folder
  /\ \A j \in DOMAIN T : j # t => ~(T[j].parent = row.parent /\ T[j].name = row.name)

LEMMA OneRow ==
  ASSUME NEW T, NEW B, NEW N, NEW M, NEW t, NEW row, NEW U,
         Tree(T, B, N), M \in Nat, N <= M, RowChange(T, U, t, row),
         Filed(U, t) \/ Binned(U, M, t),
         Acyclic(U)
  PROVE  Tree(U, B, M) /\ Later(T, B, U)
<1>0. /\ t \in DOMAIN T /\ t # Root
      /\ U = [T EXCEPT ![t] = row] /\ Rec(row) /\ row.folder = T[t].folder
      /\ \A j \in DOMAIN T : j # t => ~(T[j].parent = row.parent /\ T[j].name = row.name)
  BY DEF RowChange
<1>1. T = [i \in DOMAIN T |-> T[i]] /\ N \in Nat
  BY DEF Tree
<1>2. /\ DOMAIN U = DOMAIN T /\ U[t] = row
      /\ \A i \in DOMAIN T : i # t => U[i] = T[i]
      /\ U = [i \in DOMAIN U |-> U[i]]
  BY <1>0, <1>1
<1>3. \A i \in DOMAIN T : U[i].folder = T[i].folder
  BY <1>0, <1>2
<1>4. ASSUME NEW i \in DOMAIN U \ {Root} PROVE Rec(U[i]) /\ (Filed(U, i) \/ Binned(U, M, i))
  <2>1. CASE i = t
    BY <1>0, <1>2, <2>1
  <2>2. CASE i # t
    <3>1. U[i] = T[i] /\ Rec(T[i]) /\ (Filed(T, i) \/ Binned(T, N, i))
      BY <1>2, <1>4, <2>2 DEF Tree
    <3>2. Filed(T, i) => Filed(U, i)
      BY <1>2, <1>3, <3>1 DEF Filed
    <3>3. Binned(T, N, i) => Binned(U, M, i)
      <4>1. ASSUME U[i].name \in 1 .. N PROVE U[i].name \in 1 .. M
        BY <1>1, <4>1
      <4>. QED  BY <3>1, <4>1 DEF Binned
    <3>. QED  BY <3>1, <3>2, <3>3
  <2>. QED  BY <2>1, <2>2
<1>5. Unique(U)
  <2>1. ASSUME NEW i \in DOMAIN U, NEW j \in DOMAIN U, U[i].parent = U[j].parent, U[i].name = U[j].name, i # j
        PROVE FALSE
    <3>1. CASE i = t
      BY <1>0, <1>2, <2>1, <3>1
    <3>2. CASE j = t
      BY <1>0, <1>2, <2>1, <3>2
    <3>3. CASE i # t /\ j # t
      BY <1>0, <1>2, <2>1, <3>3 DEF Tree, Unique
    <3>. QED  BY <3>1, <3>2, <3>3
  <2>. QED  BY <2>1 DEF Unique
<1>6. Root \in DOMAIN U /\ DOMAIN U \subseteq B \cup {Root} /\ B \subseteq Ids /\ U[Root] = Row(None, None, TRUE)
  BY <1>0, <1>2 DEF Tree
<1>7. Later(T, B, U)
  BY <1>2, <1>3 DEF Later
<1>. QED  BY <1>2, <1>4, <1>5, <1>6, <1>7 DEF Tree

LEMMA SameParents ==
  ASSUME NEW T, NEW U, Acyclic(T), DOMAIN U \subseteq DOMAIN T,
         \A i \in DOMAIN U : U[i].parent = T[i].parent \/ U[i].parent \notin DOMAIN U
  PROVE  Acyclic(U)
<1>1. SUFFICES ASSUME NEW S \in SUBSET DOMAIN U, S # {} PROVE \E i \in S : U[i].parent \notin S
  BY DEF Acyclic
<1>3. S \in SUBSET DOMAIN T
  OBVIOUS
<1>4. \A R \in SUBSET DOMAIN T : R # {} => \E i \in R : T[i].parent \notin R
  BY DEF Acyclic
<1>2. PICK i \in S : T[i].parent \notin S
  BY <1>1, <1>3, <1>4
<1>. QED  BY <1>1, <1>2

(***************************************************************************)
(* What the commit of an operation starts from.                            *)
(***************************************************************************)
LEMMA Committing ==
  ASSUME IInv, NEW r \in Requests, NEW op, Op(r, op)
  PROVE  /\ req[r].pc = "commit" /\ req[r].op = op /\ op \in Operations
         /\ Fields(req[r]) /\ Facts(req[r], rows, born, trashed) /\ Placed(req[r], rows)
         /\ locks[r] = Held(req[r])
         /\ Tree(rows, born, trashed) /\ trashed \in Nat
<1>1. req[r].pc = "commit" /\ req[r].op = op
  BY DEF Op, At
<1>2. Asking(req[r], rows, born, trashed) /\ Tree(rows, born, trashed)
  BY DEF IInv
<1>3. locks[r] = Held(req[r])
  BY <1>1 DEF IInv, Locking, Holding
<1>. QED  BY <1>1, <1>2, <1>3 DEF Asking, Tree

(***************************************************************************)
(* A rename changes the name in place.                                     *)
(***************************************************************************)
LEMMA RenameKeeps ==
  ASSUME IInv, NEW r \in Requests, Rename(r)
  PROVE  IInv'
<1>1. CASE Refuse(r)
  BY <1>1, RefuseKeeps
<1>2. CASE ~Refuse(r)
  <2>1. PICK q, t : q = req[r] /\ t = q.target
    OBVIOUS
  <2>2. /\ t \in Live /\ Child(rows[t].parent, q.name) = {}
        /\ rows' = [rows EXCEPT ![t].name = q.name]
        /\ End(r) /\ UNCHANGED <<born, trashed>>
    BY <1>2, <2>1 DEF Rename, Commit
  <2>3. /\ q.pc = "commit" /\ q.op = "rename"
        /\ Facts(q, rows, born, trashed) /\ Placed(q, rows) /\ locks[r] = Held(q)
        /\ Tree(rows, born, trashed) /\ trashed \in Nat
    BY <2>1, Committing DEF Rename
  <2>4. UserPath(q.src) /\ Len(q.src) >= 2 /\ t \in born /\ q.name \in Names
    BY <2>1, <2>3 DEF Facts
  <2>5. t \in DOMAIN rows /\ t \in Walk(rows, q.src)[Len(q.src)] /\ q.src \in locks[r]
    BY <2>1, <2>2, <2>3 DEF Live, Placed, OfTarget, Held
  <2>6. PICK n : n = Len(q.src)
    OBVIOUS
  <2>7. n \in Nat /\ n > 1 /\ n \in 2 .. Len(q.src)
    <3>1. Len(q.src) \in Nat
      BY <2>4 DEF UserPath
    <3>. QED  BY <2>4, <2>6, <3>1
  <2>8. rows[t].name \in Names
    <3>1. rows[t].name = q.src[n]
      BY <2>5, <2>6, <2>7, WalkUp
    <3>. QED  BY <2>4, <2>7, <3>1 DEF UserPath
  <2>9. Filed(rows, t) /\ t # Root /\ Rec(rows[t])
    BY <2>3, <2>5, <2>8, RowKinds DEF Tree
  <2>10. PICK row : row = [rows[t] EXCEPT !.name = q.name]
    OBVIOUS
  <2>11. /\ Rec(row) /\ row.parent = rows[t].parent /\ row.name = q.name
         /\ row.folder = rows[t].folder /\ row.restore = rows[t].restore
    BY <2>9, <2>10 DEF Rec
  <2>12. rows' = [rows EXCEPT ![t] = row]
    BY <2>2, <2>10
  <2>13. /\ DOMAIN rows' = DOMAIN rows /\ rows'[t] = row
         /\ \A i \in DOMAIN rows : i # t => rows'[i] = rows[i]
    BY <2>5, <2>12
  <2>14. Filed(rows', t)
    <3>1. rows'[rows[t].parent].folder = rows[rows[t].parent].folder
      BY <2>9, <2>11, <2>13 DEF Filed
    <3>. QED  BY <2>4, <2>9, <2>11, <2>13, <3>1 DEF Filed
  <2>15. Acyclic(rows')
    <3>1. \A i \in DOMAIN rows' : rows'[i].parent = rows[i].parent
      BY <2>11, <2>13
    <3>2. Acyclic(rows)
      BY <2>3 DEF Tree
    <3>. QED  BY <2>13, <3>1, <3>2, SameParents
  <2>16. \A j \in DOMAIN rows : j # t => ~(rows[j].parent = row.parent /\ rows[j].name = row.name)
    BY <2>2, <2>11 DEF Child, Entries
  <2>17. trashed <= trashed /\ born' = born /\ trashed' = trashed
    BY <2>2, <2>3
  <2>18. PICK U : U = rows'
    OBVIOUS
  <2>19. Tree(U, born, trashed) /\ Later(rows, born, U)
    <3>1. /\ Tree(rows, born, trashed) /\ trashed \in Nat /\ trashed <= trashed
          /\ RowChange(rows, U, t, row) /\ Filed(U, t) /\ Acyclic(U)
      BY <2>3, <2>5, <2>9, <2>11, <2>12, <2>14, <2>15, <2>16, <2>17, <2>18 DEF RowChange
    <3>. QED  BY ONLY <3>1, OneRow
  <2>20. \A s \in Requests \ {r} : \A p \in locks[s] : Stands(rows, U, p)
    <3>1. \A i \in DOMAIN rows : i \in DOMAIN U /\ i # t =>
            U[i].parent = rows[i].parent /\ U[i].name = rows[i].name
      BY <2>13, <2>18
    <3>. QED  BY <2>5, <2>19, <3>1, OthersStand
  <2>. QED  BY <2>2, <2>17, <2>18, <2>19, <2>20, EndKeeps
<1>. QED  BY <1>1, <1>2

(***************************************************************************)
(* What goes to the trash, where it is at the path that is locked.         *)
(***************************************************************************)
LEMMA SoftDeleteIs ==
  ASSUME IInv, NEW r \in Requests, SoftDelete(r), ~Refuse(r), NEW q, NEW t, NEW m,
         q = req[r], t = q.target, m = trashed + 1
  PROVE  /\ UserPath(q.src) /\ Len(q.src) >= 2 /\ t \in DOMAIN rows /\ t # Root
         /\ t \in Walk(rows, q.src)[Len(q.src)] /\ q.src \in locks[r]
         /\ trashed' = m /\ End(r) /\ UNCHANGED born
         /\ \E row : /\ rows' = [rows EXCEPT ![t] = row] /\ Rec(row)
                     /\ row.parent = None /\ row.name = m
                     /\ row.folder = rows[t].folder /\ row.restore = q.src
<1>2. /\ t \in Live
      /\ rows' = [rows EXCEPT ![t].parent = None, ![t].name = m, ![t].restore = q.src]
      /\ trashed' = m /\ End(r) /\ UNCHANGED born
  BY DEF SoftDelete, Commit
<1>3. /\ q.pc = "commit" /\ q.op = "trash"
      /\ Facts(q, rows, born, trashed) /\ Placed(q, rows) /\ locks[r] = Held(q)
      /\ Tree(rows, born, trashed) /\ trashed \in Nat
  BY Committing DEF SoftDelete
<1>4. UserPath(q.src) /\ Len(q.src) >= 2 /\ t \in born
  BY <1>3 DEF Facts
<1>5. t \in DOMAIN rows /\ t \in Walk(rows, q.src)[Len(q.src)] /\ q.src \in locks[r]
  BY <1>2, <1>3 DEF Live, Placed, OfTarget, Held
<1>6. t # Root /\ Rec(rows[t])
  BY <1>3, <1>4, <1>5, TreeAssumption DEF Tree
<1>7. PICK row : row = [rows[t] EXCEPT !.parent = None, !.name = m, !.restore = q.src]
  OBVIOUS
<1>8. /\ Rec(row) /\ row.parent = None /\ row.name = m
      /\ row.folder = rows[t].folder /\ row.restore = q.src
  BY <1>6, <1>7 DEF Rec
<1>9. rows' = [rows EXCEPT ![t] = row]
  <2>1. rows' = [rows EXCEPT ![t] = [rows[t] EXCEPT !.parent = None, !.name = m, !.restore = q.src]]
    BY <1>2, <1>5
  <2>. QED  BY <1>7, <2>1
<1>. QED  BY <1>2, <1>4, <1>5, <1>6, <1>8, <1>9

LEMMA SoftDeleteKeeps ==
  ASSUME IInv, NEW r \in Requests, SoftDelete(r)
  PROVE  IInv'
<1>1. CASE Refuse(r)
  BY <1>1, RefuseKeeps
<1>2. CASE ~Refuse(r)
  <2>1. PICK q, t, m : q = req[r] /\ t = q.target /\ m = trashed + 1
    OBVIOUS
  <2>2. /\ UserPath(q.src) /\ Len(q.src) >= 2 /\ t \in DOMAIN rows /\ t # Root
        /\ t \in Walk(rows, q.src)[Len(q.src)] /\ q.src \in locks[r]
        /\ trashed' = m /\ End(r) /\ UNCHANGED born
    BY <1>2, <2>1, SoftDeleteIs
  <2>11. PICK row : /\ rows' = [rows EXCEPT ![t] = row] /\ Rec(row)
                    /\ row.parent = None /\ row.name = m
                    /\ row.folder = rows[t].folder /\ row.restore = q.src
    BY <1>2, <2>1, SoftDeleteIs
  <2>3. Tree(rows, born, trashed) /\ trashed \in Nat
    BY DEF IInv, Tree
  <2>7. m \in Nat /\ trashed <= m /\ m \in 1 .. m /\ m \notin 1 .. trashed
    BY <2>1, <2>3
  <2>18. PICK U : U = rows'
    OBVIOUS
  <2>13. /\ DOMAIN U = DOMAIN rows /\ U[t] = row
         /\ \A i \in DOMAIN rows : i # t => U[i] = rows[i]
    BY <2>2, <2>11, <2>18
  <2>14. Binned(U, m, t)
    BY <2>2, <2>7, <2>11, <2>13 DEF Binned
  <2>15. Acyclic(U)
    <3>1. \A i \in DOMAIN U : U[i].parent = rows[i].parent \/ U[i].parent \notin DOMAIN U
      <4>1. None \notin DOMAIN U
        BY <2>3, <2>13, TreeGrounded DEF Grounded
      <4>. QED  BY <2>11, <2>13, <4>1
    <3>2. Acyclic(rows)
      BY <2>3 DEF Tree
    <3>. QED  BY <2>13, <3>1, <3>2, SameParents
  <2>16. ASSUME NEW j \in DOMAIN rows, j # t, rows[j].parent = row.parent, rows[j].name = row.name
         PROVE  FALSE
    <3>1. rows[j].name \in Nat
      BY <2>7, <2>11, <2>16
    <3>2. Binned(rows, trashed, j)
      BY <2>3, <3>1, RowKinds
    <3>. QED  BY <2>7, <2>11, <2>16, <3>2 DEF Binned
  <2>19. Tree(U, born, m) /\ Later(rows, born, U)
    <3>1. /\ Tree(rows, born, trashed) /\ m \in Nat /\ trashed <= m
          /\ RowChange(rows, U, t, row) /\ Binned(U, m, t) /\ Acyclic(U)
      BY <2>2, <2>3, <2>7, <2>11, <2>14, <2>15, <2>16, <2>18 DEF RowChange
    <3>. QED  BY ONLY <3>1, OneRow
  <2>20. \A s \in Requests \ {r} : \A p \in locks[s] : Stands(rows, U, p)
    <3>1. \A i \in DOMAIN rows : i \in DOMAIN U /\ i # t =>
            U[i].parent = rows[i].parent /\ U[i].name = rows[i].name
      BY <2>13
    <3>. QED  BY <2>2, <2>19, <3>1, OthersStand
  <2>. QED  BY <2>2, <2>7, <2>18, <2>19, <2>20, EndKeeps
<1>. QED  BY <1>1, <1>2

(***************************************************************************)
(* What goes with a folder.                                                *)
(***************************************************************************)
Sub(T, i) ==
  {j \in DOMAIN T : \A S \in SUBSET (DOMAIN T \cup {i}) :
      i \in S /\ (\A k \in DOMAIN T : T[k].parent \in S => k \in S) => j \in S}

LEMMA BelowIsSub == \A i : Below(i) = Sub(rows, i)
BY DEF Below, Sub, Live

LEMMA SubClosed ==
  ASSUME NEW T, NEW t, NEW k \in DOMAIN T, T[k].parent \in Sub(T, t) \cup {t}
  PROVE  k \in Sub(T, t)
<1>1. SUFFICES ASSUME NEW S \in SUBSET (DOMAIN T \cup {t}), t \in S,
                      \A j \in DOMAIN T : T[j].parent \in S => j \in S
               PROVE  k \in S
  BY DEF Sub
<1>2. T[k].parent \in S
  BY <1>1 DEF Sub
<1>. QED  BY <1>1, <1>2

LEMMA SubContains ==
  ASSUME NEW T, NEW t, t \in DOMAIN T
  PROVE  t \in Sub(T, t)
BY DEF Sub

LEMMA SubLeast ==
  ASSUME NEW T, NEW t, NEW S, S \subseteq DOMAIN T \cup {t}, t \in S,
         \A k \in DOMAIN T : T[k].parent \in S => k \in S
  PROVE  Sub(T, t) \subseteq S
BY DEF Sub

LEMMA SubParent ==
  ASSUME NEW T, NEW t, NEW j \in Sub(T, t), j # t
  PROVE  j \in DOMAIN T /\ T[j].parent \in Sub(T, t) \cup {t}
<1>0. j \in DOMAIN T
  BY DEF Sub
<1>. SUFFICES ASSUME T[j].parent \notin Sub(T, t) \cup {t} PROVE FALSE
  BY <1>0
<1>1. PICK S : S = (Sub(T, t) \cup {t}) \ {j}
  OBVIOUS
<1>2. S \subseteq DOMAIN T \cup {t} /\ t \in S
  BY <1>1 DEF Sub
<1>3. ASSUME NEW k \in DOMAIN T, T[k].parent \in S PROVE k \in S
  <2>1. k \in Sub(T, t) /\ T[k].parent \in Sub(T, t) \cup {t}
    BY <1>1, <1>3, SubClosed
  <2>2. k # j
    BY <2>1
  <2>. QED  BY <1>1, <2>1, <2>2
<1>4. Sub(T, t) \subseteq S
  BY <1>2, <1>3, SubLeast
<1>. QED  BY <1>1, <1>4

LEMMA SubNotRoot ==
  ASSUME NEW T, NEW B, NEW N, NEW t, Tree(T, B, N), t # Root, t # None
  PROVE  Root \notin Sub(T, t)
<1>1. PICK S : S = (DOMAIN T \cup {t}) \ {Root}
  OBVIOUS
<1>2. T[Root].parent = None /\ None \notin DOMAIN T
  BY TreeGrounded DEF Tree, Row, Grounded
<1>3. S \subseteq DOMAIN T \cup {t} /\ t \in S
  BY <1>1
<1>4. ASSUME NEW k \in DOMAIN T, T[k].parent \in S PROVE k \in S
  BY <1>1, <1>2, <1>4
<1>5. Sub(T, t) \subseteq S
  BY <1>3, <1>4, SubLeast
<1>. QED  BY <1>1, <1>5

(***************************************************************************)
(* Who is on the way to what is below it.                                  *)
(***************************************************************************)
LEMMA SubOnWay ==
  ASSUME NEW T, NEW B, NEW N, NEW t, NEW p, NEW n, NEW i, Tree(T, B, N), t # Root, t # None,
         Named(p), n \in 1 .. Len(p), i \in Walk(T, p)[n], i \in Sub(T, t)
  PROVE  \E k \in 1 .. n : t \in Walk(T, p)[k]
<1>1. PICK G : G = {k \in 1 .. n : \E j \in Walk(T, p)[k] : j \in Sub(T, t)}
  OBVIOUS
<1>2. n \in Nat /\ n \in 1 .. n /\ Len(p) \in Nat
  BY DEF Named
<1>3. G \subseteq Nat /\ G # {}
  BY <1>1, <1>2
<1>4. PICK k \in G : \A y \in G : k <= y
  BY ONLY <1>3, LeastExists
<1>5. k \in 1 .. n /\ k \in Nat /\ (k = 1 \/ k > 1)
  BY <1>1, <1>3, <1>4
<1>6. PICK j \in Walk(T, p)[k] : j \in Sub(T, t)
  BY <1>1, <1>4
<1>7. CASE k = 1
  <2>1. j \in {Root, None}
    BY <1>6, <1>7, WalkStart DEF Named
  <2>2. j \in DOMAIN T /\ None \notin DOMAIN T
    BY <1>6, TreeGrounded DEF Sub, Grounded
  <2>. QED  BY <1>6, <2>1, <2>2, SubNotRoot
<1>8. CASE k > 1
  <2>0. CASE j = t
    BY <1>5, <1>6, <2>0
  <2>9. CASE j # t
    <3>1. PICK l \in Nat : l = k - 1 /\ l \in 1 .. n /\ l < k
      BY <1>2, <1>5, <1>8
    <3>2. T[j].parent \in Walk(T, p)[l]
      BY <1>5, <1>6, <1>8, <3>1, WalkUp
    <3>3. T[j].parent \in Sub(T, t) \cup {t}
      BY <1>6, <2>9, SubParent
    <3>4. l \notin G
      BY <1>4, <1>5, <3>1
    <3>5. T[j].parent = t
      BY <1>1, <3>1, <3>2, <3>3, <3>4
    <3>. QED  BY <3>1, <3>2, <3>5
  <2>. QED  BY <2>0, <2>9
<1>. QED  BY <1>5, <1>7, <1>8

(***************************************************************************)
(* Files go with all that is in them.                                      *)
(***************************************************************************)
LEMMA WithoutIs ==
  ASSUME IInv, NEW t, t # Root, t # None, NEW gone, gone = Sub(rows, t), NEW U, U = Without(gone)
  PROVE  /\ Tree(U, born, trashed) /\ Later(rows, born, U)
         /\ DOMAIN U = DOMAIN rows \ gone
         /\ \A i \in DOMAIN U : U[i] = rows[i]
<1>1. Tree(rows, born, trashed)
  BY DEF IInv
<1>2. gone = Sub(rows, t)
  OBVIOUS
<1>3. U = [i \in DOMAIN rows \ gone |-> IF rows[i].parent \in gone
                                        THEN [rows[i] EXCEPT !.parent = None] ELSE rows[i]]
  BY DEF Without, Live
<1>4. \A i \in DOMAIN rows \ gone : rows[i].parent \notin gone
  BY <1>2, SubClosed
<1>5. DOMAIN U = DOMAIN rows \ gone /\ \A i \in DOMAIN U : U[i] = rows[i]
  BY <1>3, <1>4
<1>6. Root \in DOMAIN U
  BY <1>1, <1>2, <1>5, SubNotRoot DEF Tree
<1>7. U = [i \in DOMAIN U |-> U[i]]
  BY <1>3
<1>8. ASSUME NEW i \in DOMAIN U \ {Root} PROVE Rec(U[i]) /\ (Filed(U, i) \/ Binned(U, trashed, i))
  <2>1. U[i] = rows[i] /\ i \in DOMAIN rows \ gone /\ Rec(rows[i]) /\ (Filed(rows, i) \/ Binned(rows, trashed, i))
    BY <1>1, <1>5, <1>8 DEF Tree
  <2>2. Filed(rows, i) => Filed(U, i)
    BY <1>4, <1>5, <2>1 DEF Filed
  <2>3. Binned(rows, trashed, i) => Binned(U, trashed, i)
    BY <2>1 DEF Binned
  <2>. QED  BY <2>1, <2>2, <2>3
<1>9. Unique(U)
  BY <1>1, <1>5 DEF Tree, Unique
<1>10. Acyclic(U)
  <2>1. Acyclic(rows) /\ DOMAIN U \subseteq DOMAIN rows /\ \A i \in DOMAIN U : U[i].parent = rows[i].parent \/ U[i].parent \notin DOMAIN U
    BY <1>1, <1>5 DEF Tree
  <2>. QED  BY ONLY <2>1, SameParents
<1>11. Tree(U, born, trashed)
  BY <1>1, <1>5, <1>6, <1>7, <1>8, <1>9, <1>10 DEF Tree
<1>12. Later(rows, born, U)
  BY <1>5 DEF Later
<1>. QED  BY <1>2, <1>5, <1>11, <1>12

(***************************************************************************)
(* A delete lists what is below its target.                                *)
(***************************************************************************)
LEMMA WalkBelowKeeps ==
  ASSUME IInv, NEW r \in Requests, WalkBelow(r)
  PROVE  IInv' /\ req'[r].pc = "remove" /\ DOMAIN req'[r].seen = Sub(rows, req'[r].target) /\ rows' = rows
<1>1. PICK q, seen : q = req[r] /\ seen = Restrict(rows, Below(q.target))
  OBVIOUS
<1>2. PICK x : x = [q EXCEPT !.pc = "remove", !.seen = seen]
  OBVIOUS
<1>3. Step(r, x) /\ Op(r, "delete")
  BY <1>1, <1>2 DEF WalkBelow
<1>4. /\ q.pc = "commit" /\ q.op = "delete" /\ q.op \in Operations
      /\ Fields(q) /\ Facts(q, rows, born, trashed) /\ Placed(q, rows) /\ locks[r] = Held(q)
  BY <1>1, <1>3, Committing
<1>5. /\ Fields(x) /\ x.pc = "remove" /\ x.op = q.op /\ x.src = q.src /\ x.dst = q.dst /\ x.name = q.name
      /\ x.target = q.target /\ x.at = q.at /\ x.seen = seen /\ x.got = q.got /\ x.left = q.left
  BY <1>2, <1>4 DEF Fields
<1>6. Facts(x, rows, born, trashed)
  BY <1>4, <1>5 DEF Facts
<1>7. Placed(x, rows)
  BY <1>4, <1>5 DEF Placed
<1>8. Asking(x, rows, born, trashed)
  BY <1>4, <1>5, <1>6, <1>7 DEF Asking
<1>9. Held(x) = Held(q) /\ x.pc \in Holding
  BY <1>5 DEF Held, Holding
<1>10. PICK L : L = Held(q)
  OBVIOUS
<1>11. UNCHANGED <<rows, born, trashed, locks>> /\ req' = [req EXCEPT ![r] = x]
  BY <1>3 DEF Step
<1>12. locks = [s \in Requests |-> locks[s]] /\ req = [s \in Requests |-> req[s]]
  BY DEF IInv, Locking
<1>13. locks' = [locks EXCEPT ![r] = L]
  BY <1>4, <1>10, <1>11, <1>12
<1>14. L = (IF x.pc \in Holding THEN Held(x) ELSE {}) /\ L \subseteq locks[r]
  BY <1>4, <1>9, <1>10
<1>15. IInv'
  BY <1>8, <1>11, <1>13, <1>14, RowsKept
<1>16. req'[r] = x
  BY <1>11, <1>12
<1>17. DOMAIN seen = Sub(rows, q.target)
  <2>1. seen = [i \in Below(q.target) |-> rows[i]]
    BY <1>1 DEF Restrict
  <2>. QED  BY <2>1, BelowIsSub
<1>. QED  BY <1>5, <1>11, <1>15, <1>16, <1>17

(***************************************************************************)
(* What a delete that has listed starts from.                              *)
(***************************************************************************)
LEMMA Removing ==
  ASSUME IInv, NEW r \in Requests, req[r].pc = "remove", NEW q, NEW t, q = req[r], t = q.target
  PROVE  /\ q.op = "delete" /\ Facts(q, rows, born, trashed) /\ Placed(q, rows)
         /\ locks[r] = {q.src} /\ Named(q.src) /\ Tree(rows, born, trashed) /\ trashed \in Nat
         /\ t \in born /\ t # Root /\ t # None
         /\ t \in DOMAIN rows => t \in Walk(rows, q.src)[Len(q.src)]
<1>1. q.pc = "remove" /\ Asking(q, rows, born, trashed) /\ Tree(rows, born, trashed) /\ trashed \in Nat
  BY DEF IInv, Tree
<1>2. q.op = "delete" /\ Facts(q, rows, born, trashed) /\ Placed(q, rows)
  BY <1>1 DEF Asking
<1>3. locks[r] = {q.src}
  BY <1>1, <1>2 DEF IInv, Locking, Holding, Held
<1>4. t \in born /\ (UserPath(q.src) \/ TrashPath(q.src, trashed))
  BY <1>2 DEF Facts
<1>5. t # Root /\ t # None
  BY <1>1, <1>4, TreeAssumption DEF Tree
<1>6. Named(q.src)
  BY <1>1, <1>4, UserNamed, TrashNamed
<1>7. t \in DOMAIN rows => t \in Walk(rows, q.src)[Len(q.src)]
  BY <1>2 DEF Placed, OfTarget
<1>. QED  BY <1>1, <1>2, <1>3, <1>4, <1>5, <1>6, <1>7

(***************************************************************************)
(* A delete takes a folder and what is below it.                           *)
(***************************************************************************)
LEMMA DeleteKeeps ==
  ASSUME IInv, NEW r \in Requests, Delete(r), DOMAIN req[r].seen = Sub(rows, req[r].target)
  PROVE  IInv'
<1>1. PICK q, t, U, gone : q = req[r] /\ t = q.target /\ U = rows' /\ gone = Sub(rows, t)
  OBVIOUS
<1>2. U = Without(gone) /\ End(r) /\ UNCHANGED <<born, trashed>> /\ req[r].pc = "remove"
  BY <1>1 DEF Delete, Commit, At
<1>3. Tree(rows, born, trashed) /\ trashed \in Nat /\ t # Root /\ t # None
  BY <1>1, <1>2, Removing
<1>4. /\ Tree(U, born, trashed) /\ Later(rows, born, U)
      /\ DOMAIN U = DOMAIN rows \ gone
      /\ \A i \in DOMAIN U : U[i] = rows[i]
  <2>1. t # Root /\ t # None /\ gone = Sub(rows, t) /\ U = Without(gone)
    BY <1>1, <1>2, <1>3
  <2>. QED  BY ONLY IInv, <2>1, WithoutIs
<1>5. \A s \in Requests : \A p \in locks[s] : Stands(rows, U, p)
  BY <1>4, AllStand
<1>6. trashed <= trashed
  BY <1>3
<1>. QED  BY <1>1, <1>2, <1>4, <1>5, <1>6, EndKeeps

LEMMA WalkLevels ==
  ASSUME NEW T, NEW p, NEW n \in Nat, NEW i, i \in Walk(T, p)[n], NEW k \in 1 .. n
  PROVE  \E j : j \in Walk(T, p)[k]
<1>. SUFFICES ASSUME ~\E j : j \in Walk(T, p)[k] PROVE FALSE
  OBVIOUS
<1>1. PICK G : G = {m \in 0 .. n : n - m >= 1 /\ ~\E j : j \in Walk(T, p)[n - m]}
  OBVIOUS
<1>2. n - k \in 0 .. n /\ n - (n - k) = k
  OBVIOUS
<1>3. n - k \in G
  BY <1>1, <1>2
<1>13. G \subseteq 0 .. n /\ 0 .. n \subseteq Nat
  BY <1>1
<1>4. G \subseteq Nat /\ G # {}
  BY <1>3, <1>13
<1>5. PICK m \in G : \A y \in G : m <= y
  BY ONLY <1>4, LeastExists
<1>6. m \in Nat /\ m \in 0 .. n /\ n - m >= 1 /\ ~\E j : j \in Walk(T, p)[n - m]
  BY <1>1, <1>4, <1>5
<1>7. m # 0
  BY <1>6
<1>8. PICK l, a \in Nat, b \in Nat : l = m - 1 /\ a = n - m /\ b = n - l
  BY <1>6
<1>9. l \in 0 .. n /\ b >= 1 /\ b > 1 /\ b - 1 = a /\ ~(m <= l)
  BY <1>6, <1>7, <1>8
<1>10. l \notin G
  BY <1>5, <1>9
<1>11. PICK j : j \in Walk(T, p)[b]
  BY <1>1, <1>8, <1>9, <1>10
<1>12. T[j].parent \in Walk(T, p)[a]
  BY <1>8, <1>9, <1>11, WalkUp
<1>. QED  BY <1>6, <1>8, <1>12

Avoiding(T, dst, t) == \A k \in 1 .. Len(dst) : t \notin Walk(T, dst)[k]

Relocated(T, U, t, at) ==
  /\ DOMAIN U = DOMAIN T /\ U[t].parent = at
  /\ \A i \in DOMAIN T : i # t => U[i].parent = T[i].parent

(***************************************************************************)
(* A folder that does not go into itself is not on the way to where it     *)
(* goes; no more is a file, which nothing is in.                           *)
(***************************************************************************)
LEMMA Avoids ==
  ASSUME NEW T, NEW B, NEW N, NEW src, NEW dst, NEW t, NEW at, Tree(T, B, N), Named(src), Named(dst),
         t \in Walk(T, src)[Len(src)], t \in DOMAIN T, at \in Walk(T, dst)[Len(dst)], T[at].folder,
         T[t].folder => ~IsPrefix(src, dst)
  PROVE  Avoiding(T, dst, t)
<1>. SUFFICES ASSUME NEW k \in 1 .. Len(dst), t \in Walk(T, dst)[k] PROVE FALSE
  BY DEF Avoiding
<1>0. Grounded(T)
  BY TreeGrounded
<1>1. Grounded(T) /\ Unique(T) /\ T[Root].parent = None /\ None \notin DOMAIN T
  BY <1>0 DEF Grounded, Tree, Row
<1>2. IsPrefix(src, dst)
  BY <1>1, NoClash
<1>3. PICK n : n = Len(dst)
  OBVIOUS
<1>4. n \in Nat /\ n >= 1 /\ k \in Nat /\ k \in 1 .. n /\ k >= 1
  BY <1>3 DEF Named
<1>5. CASE k = n
  <2>1. t \in Walk(T, dst)[n] /\ at \in Walk(T, dst)[n]
    BY <1>3, <1>5
  <2>2. t = at
    BY <1>1, <1>4, <2>1, OneFile
  <2>. QED  BY <1>2, <2>2
<1>6. CASE k # n
  <2>1. PICK m \in Nat : m = k + 1 /\ m \in 1 .. n /\ m > 1 /\ m - 1 = k
    BY <1>4, <1>6
  <2>2. PICK j : j \in Walk(T, dst)[m]
    BY <1>3, <1>4, <2>1, WalkLevels
  <2>3. j \in DOMAIN T /\ T[j].parent \in Walk(T, dst)[k]
    BY <2>1, <2>2, WalkUp
  <2>4. T[j].parent = t
    BY <1>1, <1>4, <2>3, OneFile
  <2>5. Filed(T, j)
    BY <1>1, <2>3, <2>4 DEF Tree, Binned
  <2>. QED  BY <1>2, <2>4, <2>5 DEF Filed
<1>. QED  BY <1>4, <1>5, <1>6

LEMMA MovedAcyclic ==
  ASSUME NEW T, NEW B, NEW N, NEW dst, NEW t, NEW at, NEW U, Tree(T, B, N), UserPath(dst),
         at \in Walk(T, dst)[Len(dst)], t # Root, Avoiding(T, dst, t), Relocated(T, U, t, at)
  PROVE  Acyclic(U)
<1>0. /\ DOMAIN U = DOMAIN T /\ U[t].parent = at
      /\ \A i \in DOMAIN T : i # t => U[i].parent = T[i].parent
      /\ \A k \in 1 .. Len(dst) : t \notin Walk(T, dst)[k]
  BY DEF Relocated, Avoiding
<1>1. SUFFICES ASSUME NEW S \in SUBSET DOMAIN T, S # {}, \A i \in S : U[i].parent \in S PROVE FALSE
  BY <1>0 DEF Acyclic
<1>2. CASE t \notin S
  <2>1. \A i \in S : T[i].parent \in S
    BY <1>0, <1>1, <1>2
  <2>2. Acyclic(T)
    BY DEF Tree
  <2>. QED  BY <1>1, <2>1, <2>2 DEF Acyclic
<1>3. CASE t \in S
  <2>1. PICK n, G : n = Len(dst) /\ G = {k \in 1 .. n : \E j \in Walk(T, dst)[k] : j \in S}
    OBVIOUS
  <2>2. n \in Nat /\ n \in 1 .. n /\ dst[1] = Root
    BY <2>1 DEF UserPath
  <2>3. n \in G
    BY <1>0, <1>1, <1>3, <2>1, <2>2
  <2>4. G \subseteq Nat /\ G # {}
    BY <2>1, <2>3
  <2>5. PICK k \in G : \A y \in G : k <= y
    BY ONLY <2>4, LeastExists
  <2>6. k \in Nat /\ k \in 1 .. n /\ (k = 1 \/ k > 1)
    BY <2>1, <2>4, <2>5
  <2>7. PICK j \in Walk(T, dst)[k] : j \in S
    BY <2>1, <2>5
  <2>8. j # t /\ U[j].parent = T[j].parent /\ T[j].parent \in S
    BY <1>0, <1>1, <2>1, <2>6, <2>7
  <2>9. CASE k = 1
    <3>1. j = Root
      BY <2>2, <2>7, <2>9, WalkStart
    <3>3. Grounded(T)
      BY TreeGrounded
    <3>2. T[Root].parent = None /\ None \notin DOMAIN T
      BY <3>3 DEF Tree, Row, Grounded
    <3>. QED  BY <1>0, <1>1, <2>8, <3>1, <3>2
  <2>10. CASE k > 1
    <3>1. PICK l \in Nat : l = k - 1 /\ l \in 1 .. n /\ ~(k <= l)
      BY <2>2, <2>6, <2>10
    <3>2. T[j].parent \in Walk(T, dst)[l]
      BY <2>6, <2>7, <2>10, <3>1, WalkUp
    <3>3. l \in G
      BY <2>1, <2>8, <3>1, <3>2
    <3>. QED  BY <2>5, <3>1, <3>3
  <2>. QED  BY <2>6, <2>9, <2>10
<1>. QED  BY <1>2, <1>3

(***************************************************************************)
(* What a move starts from.                                                *)
(***************************************************************************)
LEMMA Moving ==
  ASSUME IInv, NEW r \in Requests, Op(r, "move"), NEW q, NEW t, q = req[r], t = q.target,
         t \in DOMAIN rows, q.at \in DOMAIN rows
  PROVE  /\ UserPath(q.dst) /\ Named(q.src) /\ Named(q.dst) /\ t # Root /\ Rec(rows[t])
         /\ t \in Walk(rows, q.src)[Len(q.src)] /\ q.at \in Walk(rows, q.dst)[Len(q.dst)]
         /\ rows[q.at].folder /\ q.src \in locks[r]
         /\ Avoiding(rows, q.dst, t)
         /\ q.got.restore = None =>
              /\ Filed(rows, t) /\ rows[t].name = q.got.name
              /\ Append(q.dst, rows[t].name) \in locks[r]
         /\ q.got.restore # None =>
              /\ Last(q.got.restore) \in Names
              /\ Append(q.dst, Last(q.got.restore)) \in locks[r]
<1>1. /\ q.pc = "commit" /\ q.op = "move" /\ q.op \in Operations
      /\ Facts(q, rows, born, trashed) /\ Placed(q, rows) /\ locks[r] = Held(q)
      /\ Tree(rows, born, trashed) /\ trashed \in Nat
  BY Committing
<1>2. /\ UserPath(q.dst) /\ IsFolder(rows, q.at) /\ t \in born
      /\ rows[t].folder = q.got.folder
      /\ Len(q.src) >= 2 /\ q.got.name = q.src[Len(q.src)]
      /\ \/ UserPath(q.src) /\ q.got.restore = None
         \/ TrashPath(q.src, trashed) /\ UserPath(q.got.restore) /\ Len(q.got.restore) >= 2
      /\ q.got.folder => ~IsPrefix(q.src, q.dst)
  BY <1>1 DEF Facts
<1>3. Named(q.src) /\ Named(q.dst)
  BY <1>1, <1>2, UserNamed, TrashNamed
<1>4. t # Root /\ Rec(rows[t])
  BY <1>1, <1>2, TreeAssumption DEF Tree
<1>5. t \in Walk(rows, q.src)[Len(q.src)] /\ q.at \in Walk(rows, q.dst)[Len(q.dst)]
  BY <1>1 DEF Placed, OfTarget
<1>6. rows[q.at].folder
  BY <1>2 DEF IsFolder
<1>7. q.src \in locks[r]
  BY <1>1 DEF Held
<1>8. rows[t].folder => ~IsPrefix(q.src, q.dst)
  BY <1>2
<1>9. Avoiding(rows, q.dst, t)
  BY <1>1, <1>3, <1>5, <1>6, <1>8, Avoids
<1>10. rows[t].name = q.got.name
  <2>1. PICK n : n = Len(q.src)
    OBVIOUS
  <2>2. n \in Nat /\ n > 1
    <3>1. n \in Nat /\ n >= 2
      BY <1>2, <1>3, <2>1 DEF Named
    <3>. QED  BY <3>1
  <2>3. rows[t].name = q.src[n]
    BY <1>5, <2>1, <2>2, WalkUp
  <2>. QED  BY <1>2, <2>1, <2>3
<1>11. ASSUME q.got.restore = None
       PROVE  Filed(rows, t) /\ Append(q.dst, rows[t].name) \in locks[r]
  <2>1. UserPath(q.src)
    <3>1. ~UserPath(q.got.restore)
      BY <1>11, TreeAssumption DEF UserPath
    <3>. QED  BY <1>2, <3>1
  <2>2. rows[t].name \in Names
    <3>1. Len(q.src) \in 2 .. Len(q.src)
      BY <1>2, <2>1 DEF UserPath
    <3>. QED  BY <1>2, <1>10, <2>1, <3>1 DEF UserPath
  <2>3. Filed(rows, t)
    BY <1>1, <2>2, RowKinds
  <2>. QED  BY <1>1, <1>10, <1>11, <2>3 DEF Held
<1>12. ASSUME q.got.restore # None
       PROVE  Last(q.got.restore) \in Names /\ Append(q.dst, Last(q.got.restore)) \in locks[r]
  <2>1. Last(q.got.restore) \in Names
    BY <1>1, <1>12, FactsNamed
  <2>. QED  BY <1>1, <1>12, <2>1 DEF Held
<1>. QED  BY <1>2, <1>3, <1>4, <1>5, <1>6, <1>7, <1>9, <1>10, <1>11, <1>12

(***************************************************************************)
(* The row of what is moved.                                               *)
(***************************************************************************)
Moved(T, t, at, back) ==
  IF back = None THEN [T[t] EXCEPT !.parent = at]
  ELSE [[T[t] EXCEPT !.parent = at] EXCEPT !.name = Last(back), !.restore = None]

(***************************************************************************)
(* What a move does, to a file in a folder or in the trash.                *)
(***************************************************************************)
LEMMA MoveIs ==
  ASSUME IInv, NEW r \in Requests, Move(r), ~Refuse(r), NEW q, NEW t, q = req[r], t = q.target
  PROVE  /\ q.at \in DOMAIN rows /\ End(r) /\ UNCHANGED <<born, trashed>>
         /\ t \notin DOMAIN rows => rows' = rows
         /\ t \in DOMAIN rows => \E row :
              /\ rows' = [rows EXCEPT ![t] = row] /\ Rec(row)
              /\ row.parent = q.at /\ row.folder = rows[t].folder
              /\ row.name \in Names /\ row.restore = None
              /\ Append(q.dst, row.name) \in locks[r]
              /\ \A j \in DOMAIN rows : j # t => ~(rows[j].parent = row.parent /\ rows[j].name = row.name)
<1>1. PICK row : row = Moved(rows, t, q.at, q.got.restore)
  OBVIOUS
<1>2. /\ q.at \in Live /\ (t \in Live => Child(q.at, row.name) \subseteq {t})
      /\ rows' = IF t \in Live THEN [rows EXCEPT ![t] = row] ELSE rows
      /\ End(r) /\ UNCHANGED <<born, trashed>>
  BY <1>1 DEF Move, Commit, Moved
<1>3. ASSUME t \in DOMAIN rows
      PROVE  /\ Rec(row)
             /\ row.parent = q.at /\ row.folder = rows[t].folder
             /\ row.name \in Names /\ row.restore = None
             /\ Append(q.dst, row.name) \in locks[r]
  <2>1. Op(r, "move") /\ q.at \in DOMAIN rows
    BY <1>2 DEF Move, Live
  <2>2. /\ Rec(rows[t])
        /\ q.got.restore = None =>
              /\ Filed(rows, t) /\ rows[t].name = q.got.name
              /\ Append(q.dst, rows[t].name) \in locks[r]
        /\ q.got.restore # None =>
              /\ Last(q.got.restore) \in Names
              /\ Append(q.dst, Last(q.got.restore)) \in locks[r]
    BY <1>3, <2>1, Moving
  <2>3. CASE q.got.restore = None
    <3>1. row = [rows[t] EXCEPT !.parent = q.at]
      BY <1>1, <2>3 DEF Moved
    <3>2. /\ Rec(row) /\ row.parent = q.at /\ row.folder = rows[t].folder
          /\ row.name = rows[t].name /\ row.restore = rows[t].restore
      BY <2>2, <3>1 DEF Rec
    <3>. QED  BY <2>2, <2>3, <3>2 DEF Filed
  <2>4. CASE q.got.restore # None
    <3>1. row = [[rows[t] EXCEPT !.parent = q.at] EXCEPT !.name = Last(q.got.restore), !.restore = None]
      BY <1>1, <2>4 DEF Moved
    <3>2. /\ Rec(row) /\ row.parent = q.at /\ row.folder = rows[t].folder
          /\ row.name = Last(q.got.restore) /\ row.restore = None
      BY <2>2, <3>1 DEF Rec
    <3>. QED  BY <2>2, <2>4, <3>2
  <2>. QED  BY <2>3, <2>4
<1>4. ASSUME t \in DOMAIN rows, NEW j \in DOMAIN rows, j # t PROVE ~(rows[j].parent = row.parent /\ rows[j].name = row.name)
  BY <1>2, <1>3, <1>4 DEF Child, Entries, Live
<1>5. t \in DOMAIN rows => rows' = [rows EXCEPT ![t] = row]
  BY <1>2 DEF Live
<1>6. t \notin DOMAIN rows => rows' = rows
  BY <1>2 DEF Live
<1>7. q.at \in DOMAIN rows /\ End(r) /\ UNCHANGED <<born, trashed>>
  BY <1>2 DEF Live
<1>. QED  BY <1>3, <1>4, <1>5, <1>6, <1>7

LEMMA MoveTree ==
  ASSUME IInv, NEW r \in Requests, Move(r), ~Refuse(r), NEW U, U = rows'
  PROVE  /\ Tree(U, born, trashed) /\ Later(rows, born, U)
         /\ End(r) /\ UNCHANGED <<born, trashed>>
         /\ \A s \in Requests \ {r} : \A p \in locks[s] : Stands(rows, U, p)
<1>1. PICK q, t : q = req[r] /\ t = q.target
  OBVIOUS
<1>2. Tree(rows, born, trashed) /\ trashed \in Nat
  BY DEF IInv, Tree
<1>3. q.at \in DOMAIN rows /\ End(r) /\ UNCHANGED <<born, trashed>>
  BY <1>1, MoveIs
<1>4. CASE t \notin DOMAIN rows
  <2>1. U = rows
    BY <1>1, <1>4, MoveIs
  <2>. QED  BY <1>2, <1>3, <2>1, Unmoved
<1>5. CASE t \in DOMAIN rows
  <2>1. PICK row :
              /\ rows' = [rows EXCEPT ![t] = row] /\ Rec(row)
              /\ row.parent = q.at /\ row.folder = rows[t].folder
              /\ row.name \in Names /\ row.restore = None
              /\ \A j \in DOMAIN rows : j # t => ~(rows[j].parent = row.parent /\ rows[j].name = row.name)
    BY <1>1, <1>5, MoveIs
  <2>2. /\ UserPath(q.dst) /\ t # Root
        /\ t \in Walk(rows, q.src)[Len(q.src)] /\ q.at \in Walk(rows, q.dst)[Len(q.dst)]
        /\ rows[q.at].folder /\ q.src \in locks[r]
        /\ Avoiding(rows, q.dst, t)
    <3>1. Op(r, "move")
      BY DEF Move
    <3>. QED  BY <1>1, <1>3, <1>5, <3>1, Moving
  <2>3. /\ DOMAIN U = DOMAIN rows /\ U[t] = row
        /\ \A i \in DOMAIN rows : i # t => U[i] = rows[i]
    BY <1>5, <2>1
  <2>4. Filed(U, t)
    <3>1. U[q.at].folder
      BY <1>3, <2>1, <2>2, <2>3
    <3>. QED  BY <1>3, <2>1, <2>3, <3>1 DEF Filed
  <2>5. Acyclic(U)
    <3>1. Relocated(rows, U, t, q.at)
      BY <2>1, <2>3 DEF Relocated
    <3>. QED  BY <1>2, <2>2, <2>3, <3>1, MovedAcyclic
  <2>6. Tree(U, born, trashed) /\ Later(rows, born, U)
    <3>1. /\ Tree(rows, born, trashed) /\ trashed \in Nat /\ trashed <= trashed
          /\ RowChange(rows, U, t, row) /\ Filed(U, t) /\ Acyclic(U)
      BY <1>2, <1>5, <2>1, <2>2, <2>4, <2>5 DEF RowChange
    <3>. QED  BY ONLY <3>1, OneRow
  <2>7. \A s \in Requests \ {r} : \A p \in locks[s] : Stands(rows, U, p)
    <3>1. \A i \in DOMAIN rows : i \in DOMAIN U /\ i # t =>
            U[i].parent = rows[i].parent /\ U[i].name = rows[i].name
      BY <2>3
    <3>. QED  BY <2>2, <2>6, <3>1, OthersStand
  <2>. QED  BY <1>3, <2>6, <2>7
<1>. QED  BY <1>4, <1>5

LEMMA MoveKeeps ==
  ASSUME IInv, NEW r \in Requests, Move(r)
  PROVE  IInv'
<1>1. CASE Refuse(r)
  BY <1>1, RefuseKeeps
<1>2. CASE ~Refuse(r)
  <2>1. PICK U : U = rows'
    OBVIOUS
  <2>2. /\ Tree(U, born, trashed) /\ Later(rows, born, U)
        /\ End(r) /\ UNCHANGED <<born, trashed>>
        /\ \A s \in Requests \ {r} : \A p \in locks[s] : Stands(rows, U, p)
    BY <1>2, <2>1, MoveTree
  <2>3. trashed <= trashed
    BY DEF IInv, Tree
  <2>. QED  BY <2>1, <2>2, <2>3, EndKeeps
<1>. QED  BY <1>1, <1>2

(***************************************************************************)
(* New files: the row of each, as new gives it an id.                      *)
(***************************************************************************)
Copied(T, t, at, got, new, i) ==
  Row(IF i = t THEN at ELSE new[T[i].parent],
      IF i = t THEN got.name ELSE T[i].name, IF i = t THEN got.folder ELSE T[i].folder)

CopyOf(T, B, t, at, got, source, new, U) ==
  /\ source = {t} \cup Sub(T, t) /\ new \in [source -> Ids \ B] /\ IsInjective(new)
  /\ DOMAIN U = DOMAIN T \cup {new[i] : i \in source}
  /\ \A i \in DOMAIN T : U[i] = T[i]
  /\ \A i \in source : U[new[i]] = Copied(T, t, at, got, new, i)

LEMMA CopyTree ==
  ASSUME NEW T, NEW B, NEW N, NEW t, NEW at, NEW got, NEW source, NEW new, NEW U, NEW C,
         Tree(T, B, N), CopyOf(T, B, t, at, got, source, new, U), U = [i \in DOMAIN U |-> U[i]],
         C = B \cup {new[i] : i \in source},
         at \in DOMAIN T, T[at].folder, t \in B, got.name \in Names,
         t \in DOMAIN T => T[t].folder = got.folder,
         \A j \in DOMAIN T : ~(T[j].parent = at /\ T[j].name = got.name)
  PROVE  Tree(U, C, N) /\ Later(T, B, U) /\ B \subseteq C
<1>1. /\ source = {t} \cup Sub(T, t) /\ new \in [source -> Ids \ B] /\ IsInjective(new)
      /\ DOMAIN U = DOMAIN T \cup {new[i] : i \in source}
      /\ \A i \in DOMAIN T : U[i] = T[i]
      /\ \A i \in source : U[new[i]] = Copied(T, t, at, got, new, i)
  BY DEF CopyOf
<1>2. Grounded(T)
  BY TreeGrounded
<1>3. /\ Root \in DOMAIN T /\ DOMAIN T \subseteq B \cup {Root} /\ B \subseteq Ids /\ N \in Nat
      /\ T[Root] = Row(None, None, TRUE) /\ Unique(T) /\ Acyclic(T) /\ None \notin DOMAIN T
  BY <1>2 DEF Tree, Grounded
<1>4. t \in Ids /\ t # None /\ t # Root /\ Root \notin Ids /\ None \notin Ids
  BY <1>3, TreeAssumption
<1>5. \A i, j \in source : new[i] = new[j] => i = j
  BY <1>1 DEF IsInjective
<1>6. \A i \in source : new[i] \in Ids /\ new[i] \notin B /\ new[i] \notin DOMAIN T
  BY <1>1, <1>3, <1>4
<1>7. ASSUME NEW i \in source, i # t
      PROVE  i \in DOMAIN T /\ T[i].parent \in source /\ Filed(T, i) /\ Rec(T[i]) /\ i # Root
  <2>1. i \in Sub(T, t)
    BY <1>1, <1>7
  <2>2. i \in DOMAIN T /\ T[i].parent \in Sub(T, t) \cup {t}
    BY <1>7, <2>1, SubParent
  <2>3. T[i].parent \in source
    BY <1>1, <2>2
  <2>4. i # Root
    BY <1>4, <2>1, SubNotRoot
  <2>5. T[i].parent # None
    BY <1>3, <1>4, <2>2 DEF Sub
  <2>6. Rec(T[i]) /\ Filed(T, i)
    BY <2>2, <2>4, <2>5 DEF Tree, Binned
  <2>. QED  BY <2>2, <2>3, <2>4, <2>6
<1>8. ASSUME NEW i \in source
      PROVE  /\ U[new[i]].parent = IF i = t THEN at ELSE new[T[i].parent]
             /\ U[new[i]].name = IF i = t THEN got.name ELSE T[i].name
             /\ U[new[i]].folder = IF i = t THEN got.folder ELSE T[i].folder
             /\ U[new[i]].restore = None /\ Rec(U[new[i]])
  <2>1. PICK a, b, c : /\ a = IF i = t THEN at ELSE new[T[i].parent]
                       /\ b = IF i = t THEN got.name ELSE T[i].name
                       /\ c = IF i = t THEN got.folder ELSE T[i].folder
    OBVIOUS
  <2>2. U[new[i]] = [parent |-> a, name |-> b, folder |-> c, restore |-> None]
    BY <1>1, <2>1 DEF Copied, Row
  <2>3. /\ U[new[i]].parent = a /\ U[new[i]].name = b /\ U[new[i]].folder = c
        /\ U[new[i]].restore = None /\ Rec(U[new[i]])
    BY <2>2 DEF Rec
  <2>. QED  BY <2>1, <2>3
<1>9. ASSUME NEW i \in source, i # t
      PROVE  /\ T[i].parent \in source /\ U[new[i]].parent = new[T[i].parent]
             /\ new[T[i].parent] \in DOMAIN U /\ U[new[T[i].parent]].folder
             /\ U[new[i]].name = T[i].name /\ T[i].name \in Names
  <2>1. i \in DOMAIN T /\ T[i].parent \in source /\ Filed(T, i)
    BY <1>7, <1>9
  <2>2. U[new[i]].parent = new[T[i].parent] /\ U[new[i]].name = T[i].name
    BY <1>8, <1>9
  <2>3. new[T[i].parent] \in DOMAIN U
    BY <1>1, <2>1
  <2>4. T[i].parent \in DOMAIN T /\ T[T[i].parent].folder /\ T[i].name \in Names
    BY <2>1 DEF Filed
  <2>5. U[new[T[i].parent]].folder
    <3>1. PICK k \in source : k = T[i].parent
      BY <2>1
    <3>2. U[new[k]].folder = IF k = t THEN got.folder ELSE T[k].folder
      BY <1>8
    <3>3. T[k].folder /\ (k = t => got.folder = T[k].folder)
      BY <2>4, <3>1
    <3>4. U[new[k]].folder = T[k].folder
      BY <3>2, <3>3
    <3>. QED  BY <3>1, <3>3, <3>4
  <2>. QED  BY <2>1, <2>2, <2>3, <2>4, <2>5
<1>10. U[new[t]].parent = at /\ U[new[t]].name = got.name /\ t \in source
  <2>1. t \in source
    BY <1>1
  <2>. QED  BY <1>8, <2>1
<1>11. \A i \in DOMAIN U : i \in DOMAIN T \/ \E k \in source : i = new[k]
  BY <1>1
<1>12. \A i \in DOMAIN T : i \in DOMAIN U
  BY <1>1
<1>13. ASSUME NEW i \in DOMAIN U \ {Root} PROVE Rec(U[i]) /\ (Filed(U, i) \/ Binned(U, N, i))
  <2>1. CASE i \in DOMAIN T
    <3>1. U[i] = T[i] /\ Rec(T[i]) /\ (Filed(T, i) \/ Binned(T, N, i))
      BY <1>1, <1>13, <2>1 DEF Tree
    <3>2. Filed(T, i) => Filed(U, i)
      BY <1>1, <1>12, <3>1 DEF Filed
    <3>3. Binned(T, N, i) => Binned(U, N, i)
      BY <3>1 DEF Binned
    <3>. QED  BY <3>1, <3>2, <3>3
  <2>2. CASE i \notin DOMAIN T
    <3>1. PICK k \in source : i = new[k]
      BY <1>11, <2>2
    <3>2. U[i].restore = None /\ Rec(U[i])
      BY <1>8, <3>1
    <3>3. U[i].parent \in DOMAIN U /\ U[U[i].parent].folder /\ U[i].name \in Names
      <4>1. CASE k = t
        <5>1. U[at].folder
          BY <1>1
        <5>. QED  BY <1>10, <1>12, <3>1, <4>1, <5>1
      <4>2. CASE k # t
        BY <1>9, <3>1, <4>2
      <4>. QED  BY <4>1, <4>2
    <3>. QED  BY <3>2, <3>3 DEF Filed
  <2>. QED  BY <2>1, <2>2
<1>14. ASSUME NEW i \in source, NEW j \in DOMAIN T, U[new[i]].parent = U[j].parent, U[new[i]].name = U[j].name
       PROVE  FALSE
  <2>1. U[j] = T[j] /\ (T[j].parent \in DOMAIN T \/ T[j].parent = None)
    BY <1>1, TreeGrounded
  <2>2. CASE i = t
    BY <1>10, <1>14, <2>1, <2>2
  <2>3. CASE i # t
    <3>1. T[i].parent \in source /\ U[new[i]].parent = new[T[i].parent]
      BY <1>9, <2>3
    <3>2. new[T[i].parent] \notin DOMAIN T /\ new[T[i].parent] # None
      BY <1>4, <1>6, <3>1
    <3>. QED  BY <1>14, <2>1, <3>1, <3>2
  <2>. QED  BY <2>2, <2>3
<1>15. ASSUME NEW i \in source, NEW j \in source, U[new[i]].parent = U[new[j]].parent,
              U[new[i]].name = U[new[j]].name
       PROVE  i = j
  <2>1. CASE i = t /\ j = t
    BY <2>1
  <2>2. CASE i = t /\ j # t
    <3>1. T[j].parent \in source /\ U[new[j]].parent = new[T[j].parent]
      BY <1>9, <2>2
    <3>2. new[T[j].parent] \notin DOMAIN T
      BY <1>6, <3>1
    <3>. QED  BY <1>10, <1>15, <2>2, <3>1, <3>2
  <2>3. CASE i # t /\ j = t
    <3>1. T[i].parent \in source /\ U[new[i]].parent = new[T[i].parent]
      BY <1>9, <2>3
    <3>2. new[T[i].parent] \notin DOMAIN T
      BY <1>6, <3>1
    <3>. QED  BY <1>10, <1>15, <2>3, <3>1, <3>2
  <2>4. CASE i # t /\ j # t
    <3>1. /\ T[i].parent \in source /\ U[new[i]].parent = new[T[i].parent] /\ U[new[i]].name = T[i].name
          /\ T[j].parent \in source /\ U[new[j]].parent = new[T[j].parent] /\ U[new[j]].name = T[j].name
      BY <1>9, <2>4
    <3>2. T[i].parent = T[j].parent
      <4>1. PICK a \in source, b \in source : a = T[i].parent /\ b = T[j].parent
        BY <3>1
      <4>2. new[a] = new[b]
        BY <1>15, <3>1, <4>1
      <4>. QED  BY <1>5, <4>1, <4>2
    <3>3. T[i].name = T[j].name /\ i \in DOMAIN T /\ j \in DOMAIN T
      BY <1>7, <1>15, <2>4, <3>1
    <3>. QED  BY <1>3, <3>2, <3>3 DEF Unique
  <2>. QED  BY <2>1, <2>2, <2>3, <2>4
<1>16. Unique(U)
  <2>1. ASSUME NEW i \in DOMAIN U, NEW j \in DOMAIN U, U[i].parent = U[j].parent, U[i].name = U[j].name
        PROVE  i = j
    <3>1. CASE i \in DOMAIN T /\ j \in DOMAIN T
      BY <1>1, <1>3, <2>1, <3>1 DEF Unique
    <3>2. CASE i \in DOMAIN T /\ j \notin DOMAIN T
      <4>1. PICK k \in source : j = new[k]
        BY <1>11, <3>2
      <4>. QED  BY <1>14, <2>1, <3>2, <4>1
    <3>3. CASE i \notin DOMAIN T /\ j \in DOMAIN T
      <4>1. PICK k \in source : i = new[k]
        BY <1>11, <3>3
      <4>. QED  BY <1>14, <2>1, <3>3, <4>1
    <3>4. CASE i \notin DOMAIN T /\ j \notin DOMAIN T
      <4>1. PICK k \in source : i = new[k]
        BY <1>11, <3>4
      <4>2. PICK l \in source : j = new[l]
        BY <1>11, <3>4
      <4>3. k = l
        BY <1>15, <2>1, <4>1, <4>2
      <4>. QED  BY <4>1, <4>2, <4>3
    <3>. QED  BY <3>1, <3>2, <3>3, <3>4
  <2>. QED  BY <2>1 DEF Unique
<1>17. Acyclic(U)
  <2>1. SUFFICES ASSUME NEW S \in SUBSET DOMAIN U, S # {}, \A i \in S : U[i].parent \in S PROVE FALSE
    BY DEF Acyclic
  <2>2. \A R \in SUBSET DOMAIN T : R # {} => \E i \in R : T[i].parent \notin R
    BY <1>3 DEF Acyclic
  <2>3. None \notin S
    <3>1. None \notin DOMAIN U
      BY <1>3, <1>4, <1>6, <1>11
    <3>. QED  BY <2>1, <3>1
  <2>4. S \cap DOMAIN T = {}
    <3>1. PICK R : R = S \cap DOMAIN T
      OBVIOUS
    <3>2. \A i \in R : T[i].parent \in S /\ (T[i].parent \in DOMAIN T \/ T[i].parent = None)
      BY <1>1, <2>1, <3>1, TreeGrounded
    <3>3. \A i \in R : T[i].parent \in R
      BY <2>3, <3>1, <3>2
    <3>4. R \in SUBSET DOMAIN T
      BY <3>1
    <3>5. R = {}
      BY <2>2, <3>3, <3>4
    <3>. QED  BY <3>1, <3>5
  <2>5. PICK P : P = {i \in source : new[i] \in S}
    OBVIOUS
  <2>6. t \notin P
    BY <1>10, <2>1, <2>4, <2>5
  <2>7. \A i \in P : i # t /\ i \in source /\ new[i] \in S
    BY <2>5, <2>6
  <2>8. \A i \in P : i \in DOMAIN T /\ T[i].parent \in P
    BY <1>7, <1>9, <2>1, <2>5, <2>7
  <2>9. P \in SUBSET DOMAIN T
    BY <2>8
  <2>10. P # {}
    <3>1. PICK i \in S : i \in DOMAIN U /\ i \notin DOMAIN T
      BY <2>1, <2>4
    <3>2. PICK k \in source : i = new[k]
      BY <1>11, <3>1
    <3>. QED  BY <2>5, <3>1, <3>2
  <2>. QED  BY <2>2, <2>8, <2>9, <2>10
<1>18. Later(T, B, U)
  <2>1. ASSUME NEW i \in DOMAIN U, i \in B \cup {Root} PROVE i \in DOMAIN T /\ U[i].folder = T[i].folder
    <3>1. i \in DOMAIN T
      BY <1>3, <1>4, <1>6, <1>11, <2>1
    <3>. QED  BY <1>1, <3>1
  <2>. QED  BY <2>1 DEF Later
<1>19. B \subseteq C /\ C \subseteq Ids /\ DOMAIN U \subseteq C \cup {Root}
  BY <1>1, <1>3, <1>6
<1>20. Root \in DOMAIN U /\ U[Root] = Row(None, None, TRUE)
  BY <1>1, <1>3
<1>. QED  BY <1>3, <1>13, <1>16, <1>17, <1>18, <1>19, <1>20 DEF Tree

(***************************************************************************)
(* What a copy does.                                                       *)
(***************************************************************************)
LEMMA CopyIs ==
  ASSUME IInv, NEW r \in Requests, Copy(r), ~Refuse(r), NEW q, NEW t, q = req[r], t = q.target
  PROVE  /\ q.at \in DOMAIN rows /\ End(r) /\ UNCHANGED trashed
         /\ \A j \in DOMAIN rows : ~(rows[j].parent = q.at /\ rows[j].name = q.got.name)
         /\ \E source, new : /\ CopyOf(rows, born, t, q.at, q.got, source, new, rows')
                             /\ rows' = [i \in DOMAIN rows' |-> rows'[i]]
                             /\ born' = born \cup {new[i] : i \in source}
<1>1. Tree(rows, born, trashed) /\ Root \notin Ids
  BY TreeAssumption DEF IInv
<1>2. PICK source : source = Source(r)
  OBVIOUS
<1>17. source = {t} \cup Sub(rows, t)
  BY <1>2, BelowIsSub DEF Source
<1>3. q.at \in Live /\ Child(q.at, q.got.name) = {}
  BY DEF Copy
<1>4. PICK new \in [Source(r) -> Ids \ born] :
                  /\ IsInjective(new)
                  /\ rows' = Over(rows, [n \in {new[i] : i \in Source(r)} |->
                                CopyRow(r, new, CHOOSE i \in Source(r) : new[i] = n)])
                  /\ born' = born \cup {new[i] : i \in Source(r)}
                  /\ End(r) /\ UNCHANGED trashed
  BY DEF Copy, Commit
<1>5. PICK g : g = [n \in {new[i] : i \in Source(r)} |->
                                CopyRow(r, new, CHOOSE i \in Source(r) : new[i] = n)]
  OBVIOUS
<1>6. rows' = Over(rows, g)
  BY <1>4, <1>5
<1>7. DOMAIN g = {new[i] : i \in source}
  BY <1>2, <1>5
<1>8. ASSUME NEW i \in source PROVE g[new[i]] = Copied(rows, t, q.at, q.got, new, i)
  <2>0. i \in Source(r)
    BY <1>2
  <2>1. PICK k : k = CHOOSE j \in Source(r) : new[j] = new[i]
    OBVIOUS
  <2>2. k \in Source(r) /\ new[k] = new[i]
    BY <2>0, <2>1
  <2>3. k = i
    BY <1>4, <2>0, <2>2 DEF IsInjective
  <2>4. g[new[i]] = CopyRow(r, new, i)
    BY <1>5, <2>0, <2>1, <2>3
  <2>. QED  BY <2>4 DEF Copied, CopyRow
<1>9. rows' = [i \in DOMAIN rows \cup DOMAIN g |-> IF i \in DOMAIN rows THEN rows[i] ELSE g[i]]
  BY <1>6 DEF Over
<1>10. ASSUME NEW i \in source PROVE new[i] \notin DOMAIN rows
  BY <1>1, <1>2, <1>4 DEF Tree
<1>11. CopyOf(rows, born, t, q.at, q.got, source, new, rows')
  <2>1. DOMAIN rows' = DOMAIN rows \cup {new[i] : i \in source}
    BY <1>7, <1>9
  <2>2. \A i \in DOMAIN rows : rows'[i] = rows[i]
    BY <1>9
  <2>3. ASSUME NEW i \in source PROVE rows'[new[i]] = Copied(rows, t, q.at, q.got, new, i)
    BY <1>7, <1>8, <1>9, <1>10
  <2>. QED  BY <1>2, <1>4, <1>17, <2>1, <2>2, <2>3 DEF CopyOf
<1>12. rows' = [i \in DOMAIN rows' |-> rows'[i]]
  BY <1>9
<1>13. \A j \in DOMAIN rows : ~(rows[j].parent = q.at /\ rows[j].name = q.got.name)
  BY <1>3 DEF Child, Entries
<1>14. q.at \in DOMAIN rows /\ End(r) /\ UNCHANGED trashed
  BY <1>3, <1>4 DEF Live
<1>15. /\ CopyOf(rows, born, t, q.at, q.got, source, new, rows')
       /\ rows' = [i \in DOMAIN rows' |-> rows'[i]]
       /\ born' = born \cup {new[i] : i \in source}
  BY <1>2, <1>4, <1>11, <1>12
<1>16. \E source1, new1 : /\ CopyOf(rows, born, t, q.at, q.got, source1, new1, rows')
                          /\ rows' = [i \in DOMAIN rows' |-> rows'[i]]
                          /\ born' = born \cup {new1[i] : i \in source1}
  BY <1>15, Zenon
<1>. QED  BY <1>13, <1>14, <1>16

LEMMA CopyKeeps ==
  ASSUME IInv, NEW r \in Requests, Copy(r)
  PROVE  IInv'
<1>1. CASE Refuse(r)
  BY <1>1, RefuseKeeps
<1>2. CASE ~Refuse(r)
  <2>1. PICK q, t, at, got, U, C : q = req[r] /\ t = q.target /\ at = q.at /\ got = q.got /\ U = rows' /\ C = born'
    OBVIOUS
  <2>2. /\ q.at \in DOMAIN rows /\ End(r) /\ UNCHANGED trashed
        /\ \A j \in DOMAIN rows : ~(rows[j].parent = q.at /\ rows[j].name = q.got.name)
        /\ \E source, new : /\ CopyOf(rows, born, t, q.at, q.got, source, new, rows')
                            /\ rows' = [i \in DOMAIN rows' |-> rows'[i]]
                            /\ born' = born \cup {new[i] : i \in source}
    BY <1>2, <2>1, CopyIs
  <2>3. PICK source, new : /\ CopyOf(rows, born, t, at, got, source, new, U)
                           /\ U = [i \in DOMAIN U |-> U[i]]
                           /\ C = born \cup {new[i] : i \in source}
    BY <2>1, <2>2
  <2>4. /\ q.op = "copy" /\ Facts(q, rows, born, trashed) /\ Tree(rows, born, trashed) /\ trashed \in Nat
    BY <2>1, Committing DEF Copy
  <2>5. /\ t \in born /\ got.name \in Names /\ (t \in DOMAIN rows => rows[t].folder = got.folder)
        /\ at \in DOMAIN rows /\ rows[at].folder
        /\ \A j \in DOMAIN rows : ~(rows[j].parent = at /\ rows[j].name = got.name)
    BY <2>1, <2>2, <2>4 DEF Facts, IsFolder
  <2>6. Tree(U, C, trashed) /\ Later(rows, born, U) /\ born \subseteq C
    BY <2>3, <2>4, <2>5, CopyTree
  <2>7. \A s \in Requests : \A p \in locks[s] : Stands(rows, U, p)
    <3>1. \A i \in DOMAIN rows : i \in DOMAIN U =>
            U[i].parent = rows[i].parent /\ U[i].name = rows[i].name
      BY <2>3 DEF CopyOf
    <3>. QED  BY <2>6, <3>1, AllStand
  <2>8. trashed <= trashed /\ trashed' = trashed
    BY <2>2, <2>4
  <2>. QED  BY <2>1, <2>2, <2>6, <2>7, <2>8, EndKeeps
<1>. QED  BY <1>1, <1>2

(***************************************************************************)
(* What is left of a path to make, without its first name.                 *)
(***************************************************************************)
LEMMA LeftTail ==
  ASSUME NEW src, UserPath(src), NEW left \in Seq(Names), Len(left) >= 1, Len(left) < Len(src),
         \A k \in 1 .. Len(left) : left[k] = src[Len(src) - Len(left) + k],
         Len(left) # 1
  PROVE  /\ Tail(left) \in Seq(Names) /\ Len(Tail(left)) >= 1 /\ Len(Tail(left)) < Len(src)
         /\ \A k \in 1 .. Len(Tail(left)) : Tail(left)[k] = src[Len(src) - Len(Tail(left)) + k]
         /\ \E n \in Nat : /\ n > 1 /\ n - 1 = Len(src) - Len(left) /\ n = Len(src) - Len(Tail(left))
                           /\ src[n] = Head(left) /\ n - 1 \in 1 .. Len(src)
<1>1. PICK a \in Nat, b \in Nat : a = Len(left) /\ b = Len(src)
  BY DEF UserPath
<1>2. a > 1 /\ a < b
  BY <1>1
<1>3. PICK x : x = Tail(left)
  OBVIOUS
<1>4. left # <<>>
  BY <1>1, <1>2
<1>5. x \in Seq(Names) /\ Len(x) = a - 1 /\ \A k \in 1 .. a - 1 : x[k] = left[k + 1]
  BY <1>1, <1>3, <1>4, HeadTailProperties
<1>6. Len(x) >= 1 /\ Len(x) < b
  BY <1>2, <1>5
<1>7. ASSUME NEW k \in 1 .. a - 1 PROVE x[k] = src[b - (a - 1) + k]
  <2>1. k + 1 \in 1 .. a /\ b - a + (k + 1) = b - (a - 1) + k
    BY <1>2
  <2>2. left[k + 1] = src[b - a + (k + 1)]
    BY <1>1, <2>1
  <2>. QED  BY <1>5, <2>1, <2>2
<1>8. PICK n \in Nat : n = b - a + 1
  BY <1>2
<1>9. n > 1 /\ n - 1 = b - a /\ n = b - (a - 1) /\ n - 1 \in 1 .. b
  BY <1>2, <1>8
<1>10. src[n] = left[1]
  <2>1. 1 \in 1 .. a
    BY <1>2
  <2>. QED  BY <1>1, <1>8, <2>1
<1>11. Head(left) = left[1]
  BY <1>4
<1>12. n > 1 /\ n - 1 = Len(src) - Len(left) /\ n = Len(src) - Len(x)
       /\ src[n] = Head(left) /\ n - 1 \in 1 .. Len(src)
  BY <1>1, <1>5, <1>9, <1>10, <1>11
<1>13. \A k \in 1 .. Len(x) : x[k] = src[Len(src) - Len(x) + k]
  BY <1>1, <1>5, <1>7
<1>. QED  BY <1>1, <1>3, <1>5, <1>6, <1>12, <1>13

(***************************************************************************)
(* What each transaction of a create starts from.                          *)
(***************************************************************************)
LEMMA Making ==
  ASSUME IInv, NEW r \in Requests, At(r, "make"), NEW q, q = req[r]
  PROVE  /\ q.pc = "make" /\ q.op \in {"folder", "file"} /\ q.op \in Operations
         /\ Fields(q) /\ Facts(q, rows, born, trashed) /\ Placed(q, rows)
         /\ locks[r] = Held(q) /\ Held(q) = {q.src}
         /\ Tree(rows, born, trashed) /\ trashed \in Nat
<1>1. q.pc = "make"
  BY DEF At
<1>2. Asking(q, rows, born, trashed) /\ Tree(rows, born, trashed)
  BY DEF IInv
<1>3. q.op \in {"folder", "file"} /\ Held(q) = {q.src}
  BY <1>1, <1>2 DEF Asking, Held
<1>4. locks[r] = Held(q)
  BY <1>1 DEF IInv, Locking, Holding
<1>. QED  BY <1>1, <1>2, <1>3, <1>4 DEF Asking, Tree

(***************************************************************************)
(* A file that was in a folder, or is inserted, is gone down to.           *)
(***************************************************************************)
Grown(T, B, U, C, N, at, name, i) ==
  /\ Tree(U, C, N) /\ B \subseteq C /\ Later(T, B, U)
  /\ \A j \in DOMAIN T : j \in DOMAIN U /\ U[j] = T[j]
  /\ at \in DOMAIN T /\ i \in DOMAIN U /\ U[i].parent = at /\ U[i].name = name

LEMMA DescendKeeps ==
  ASSUME IInv, NEW r \in Requests, At(r, "make"), NEW q, q = req[r], NEW i, Descend(r, i),
         trashed' = trashed, Grown(rows, born, rows', born', trashed, q.at, Head(q.left), i)
  PROVE  IInv'
<1>1. PICK U, C : U = rows' /\ C = born'
  OBVIOUS
<1>2. /\ Tree(U, C, trashed) /\ born \subseteq C /\ Later(rows, born, U)
      /\ \A j \in DOMAIN rows : j \in DOMAIN U /\ U[j] = rows[j]
      /\ q.at \in DOMAIN rows /\ i \in DOMAIN U /\ U[i].parent = q.at /\ U[i].name = Head(q.left)
  BY <1>1 DEF Grown
<1>3. /\ q.pc = "make" /\ q.op \in {"folder", "file"} /\ q.op \in Operations
      /\ Fields(q) /\ Facts(q, rows, born, trashed) /\ Placed(q, rows)
      /\ locks[r] = Held(q) /\ Held(q) = {q.src}
      /\ trashed \in Nat
  BY Making
<1>4. \A s \in Requests : \A p \in locks[s] : Stands(rows, U, p)
  <2>1. \A j \in DOMAIN rows : j \in DOMAIN U =>
            U[j].parent = rows[j].parent /\ U[j].name = rows[j].name
    BY <1>2
  <2>. QED  BY <1>2, <2>1, AllStand
<1>5. CASE Len(q.left) = 1
  <2>1. End(r)
    BY <1>5 DEF Descend
  <2>2. trashed <= trashed'
    BY <1>3
  <2>. QED  BY <1>1, <1>2, <1>4, <2>1, <2>2, EndKeeps
<1>6. CASE Len(q.left) # 1
  <2>1. PICK x : x = [q EXCEPT !.at = i, !.left = Tail(q.left)]
    OBVIOUS
  <2>2. /\ x.pc = q.pc /\ x.op = q.op /\ x.src = q.src /\ x.at = i /\ x.left = Tail(q.left)
        /\ Fields(x)
    BY <1>3, <2>1 DEF Fields
  <2>3. req = [s \in Requests |-> req[s]] /\ locks = [s \in Requests |-> locks[s]]
    BY DEF IInv, Locking
  <2>4. req' = [req EXCEPT ![r] = x] /\ locks' = locks
    <3>1. req' = [req EXCEPT ![r].at = i, ![r].left = Tail(@)] /\ locks' = locks
      BY <1>6 DEF Descend
    <3>2. [req EXCEPT ![r].at = i, ![r].left = Tail(@)] = [req EXCEPT ![r] = x]
      BY <2>1, <2>3
    <3>. QED  BY <3>1, <3>2
  <2>5. PICK L : L = {q.src}
    OBVIOUS
  <2>6. L = locks[r] /\ locks' = [locks EXCEPT ![r] = L]
    BY <1>3, <2>3, <2>4, <2>5
  <2>7. L = Held(x) /\ x.pc \in Holding
    BY <1>3, <2>2, <2>5 DEF Held, Holding
  <2>8. /\ UserPath(q.src) /\ q.left \in Seq(Names) /\ Len(q.left) >= 1 /\ Len(q.left) < Len(q.src)
        /\ \A k \in 1 .. Len(q.left) : q.left[k] = q.src[Len(q.src) - Len(q.left) + k]
    BY <1>3 DEF Facts
  <2>9. PICK src, left : src = q.src /\ left = q.left
    OBVIOUS
  <2>10. /\ Tail(left) \in Seq(Names) /\ Len(Tail(left)) >= 1 /\ Len(Tail(left)) < Len(src)
         /\ \A k \in 1 .. Len(Tail(left)) : Tail(left)[k] = src[Len(src) - Len(Tail(left)) + k]
         /\ \E n \in Nat : /\ n > 1 /\ n - 1 = Len(src) - Len(left) /\ n = Len(src) - Len(Tail(left))
                           /\ src[n] = Head(left) /\ n - 1 \in 1 .. Len(src)
    <3>1. /\ UserPath(src) /\ left \in Seq(Names) /\ Len(left) >= 1 /\ Len(left) < Len(src)
          /\ \A k \in 1 .. Len(left) : left[k] = src[Len(src) - Len(left) + k]
          /\ Len(left) # 1
      BY <1>6, <2>8, <2>9
    <3>. QED  BY ONLY <3>1, LeftTail
  <2>11. PICK n \in Nat : /\ n > 1 /\ n - 1 = Len(src) - Len(left) /\ n = Len(src) - Len(Tail(left))
                          /\ src[n] = Head(left) /\ n - 1 \in 1 .. Len(src)
    BY <2>10
  <2>12. i \in C \cup {Root}
    BY <1>2 DEF Tree
  <2>13. Facts(x, U, C, trashed)
    <3>1. x.op \in {"folder", "file"} /\ x.src = src /\ x.left = Tail(left) /\ x.at = i
      BY <1>3, <2>2, <2>9
    <3>2. UserPath(src)
      BY <2>8, <2>9
    <3>. QED  BY <2>10, <2>12, <3>1, <3>2 DEF Facts
  <2>14. q.at \in Walk(U, src)[n - 1]
    <3>1. q.at \in Walk(rows, src)[n - 1]
      BY <1>2, <1>3, <2>9, <2>11 DEF Placed
    <3>2. Stands(rows, U, src)
      BY <1>3, <1>4, <2>9
    <3>3. q.at \in DOMAIN U
      BY <1>2
    <3>. QED  BY <2>11, <3>1, <3>2, <3>3 DEF Stands
  <2>15. i \in Walk(U, src)[n]
    <3>1. n \in Nat /\ n > 1 /\ i \in DOMAIN U /\ U[i].name = src[n]
      BY <1>2, <2>9, <2>11
    <3>2. U[i].parent \in Walk(U, src)[n - 1]
      BY <1>2, <2>14
    <3>. QED  BY ONLY <3>1, <3>2, WalkDown
  <2>16. Placed(x, U)
    <3>1. x.op \in {"folder", "file"} /\ x.src = src /\ x.left = Tail(left) /\ x.at = i
      BY <1>3, <2>2, <2>9
    <3>2. x.at \in Walk(U, x.src)[Len(x.src) - Len(x.left)]
      BY <2>11, <2>15, <3>1
    <3>. QED  BY <3>1, <3>2 DEF Placed, OfTarget
  <2>17. Asking(x, U, C, trashed)
    BY <1>3, <2>2, <2>13, <2>16 DEF Asking
  <2>18. trashed <= trashed'
    BY <1>3
  <2>. QED  BY <1>1, <1>2, <1>4, <2>4, <2>6, <2>7, <2>17, <2>18, StepKeeps
<1>. QED  BY <1>5, <1>6

(***************************************************************************)
(* A row is inserted.                                                      *)
(***************************************************************************)
Inserted(T, B, U, i, at, name, folder) ==
  /\ i \in Ids \ B /\ at \in DOMAIN T /\ T[at].folder /\ name \in Names
  /\ \A j \in DOMAIN T : ~(T[j].parent = at /\ T[j].name = name)
  /\ DOMAIN U = DOMAIN T \cup {i} /\ U = [j \in DOMAIN U |-> U[j]]
  /\ \A j \in DOMAIN T : U[j] = T[j]
  /\ U[i] = Row(at, name, folder)

LEMMA InsertTree ==
  ASSUME NEW T, NEW B, NEW N, NEW U, NEW i, NEW at, NEW name, NEW folder, NEW C,
         Tree(T, B, N), Inserted(T, B, U, i, at, name, folder), C = B \cup {i}
  PROVE  Grown(T, B, U, C, N, at, name, i)
<1>1. /\ i \in Ids \ B /\ at \in DOMAIN T /\ T[at].folder /\ name \in Names
      /\ \A j \in DOMAIN T : ~(T[j].parent = at /\ T[j].name = name)
      /\ DOMAIN U = DOMAIN T \cup {i} /\ U = [j \in DOMAIN U |-> U[j]]
      /\ \A j \in DOMAIN T : U[j] = T[j]
  BY DEF Inserted
<1>2. /\ U[i].parent = at /\ U[i].name = name /\ U[i].folder = folder /\ U[i].restore = None
      /\ Rec(U[i])
  BY DEF Inserted, Row, Rec
<1>3. Grounded(T)
  BY TreeGrounded
<1>4. /\ Root \in DOMAIN T /\ DOMAIN T \subseteq B \cup {Root} /\ B \subseteq Ids /\ N \in Nat
      /\ T[Root] = Row(None, None, TRUE) /\ Unique(T) /\ Acyclic(T) /\ None \notin DOMAIN T
  BY <1>3 DEF Tree, Grounded
<1>5. i \notin DOMAIN T /\ i # Root /\ i # None
  BY <1>1, <1>4, TreeAssumption
<1>6. ASSUME NEW j \in DOMAIN U \ {Root} PROVE Rec(U[j]) /\ (Filed(U, j) \/ Binned(U, N, j))
  <2>1. CASE j = i
    <3>1. U[at].folder /\ at \in DOMAIN U
      BY <1>1
    <3>. QED  BY <1>1, <1>2, <2>1, <3>1 DEF Filed
  <2>2. CASE j # i
    <3>1. j \in DOMAIN T /\ U[j] = T[j] /\ Rec(T[j]) /\ (Filed(T, j) \/ Binned(T, N, j))
      BY <1>1, <1>6, <2>2 DEF Tree
    <3>2. Filed(T, j) => Filed(U, j)
      BY <1>1, <3>1 DEF Filed
    <3>3. Binned(T, N, j) => Binned(U, N, j)
      BY <3>1 DEF Binned
    <3>. QED  BY <3>1, <3>2, <3>3
  <2>. QED  BY <2>1, <2>2
<1>7. Unique(U)
  <2>1. ASSUME NEW j \in DOMAIN U, NEW k \in DOMAIN U, U[j].parent = U[k].parent, U[j].name = U[k].name, j # k
        PROVE FALSE
    <3>1. CASE j = i
      <4>1. k \in DOMAIN T /\ U[k] = T[k]
        BY <1>1, <2>1, <3>1
      <4>. QED  BY <1>1, <1>2, <2>1, <3>1, <4>1
    <3>2. CASE k = i
      <4>1. j \in DOMAIN T /\ U[j] = T[j]
        BY <1>1, <2>1, <3>2
      <4>. QED  BY <1>1, <1>2, <2>1, <3>2, <4>1
    <3>3. CASE j # i /\ k # i
      BY <1>1, <1>4, <2>1, <3>3 DEF Unique
    <3>. QED  BY <3>1, <3>2, <3>3
  <2>. QED  BY <2>1 DEF Unique
<1>8. Acyclic(U)
  <2>1. SUFFICES ASSUME NEW S \in SUBSET DOMAIN U, S # {}, \A j \in S : U[j].parent \in S PROVE FALSE
    BY DEF Acyclic
  <2>2. \A R \in SUBSET DOMAIN T : R # {} => \E j \in R : T[j].parent \notin R
    BY <1>4 DEF Acyclic
  <2>3. PICK R : R = S \ {i}
    OBVIOUS
  <2>4. \A j \in R : j \in DOMAIN T /\ T[j].parent \in S
    BY <1>1, <2>1, <2>3
  <2>5. \A j \in R : T[j].parent \in DOMAIN T \/ T[j].parent = None
    BY <2>4, TreeGrounded
  <2>6. \A j \in R : T[j].parent \in R
    BY <1>5, <2>3, <2>4, <2>5
  <2>7. R = {}
    <3>1. R \in SUBSET DOMAIN T
      BY <2>4
    <3>. QED  BY <2>2, <2>6, <3>1
  <2>8. i \in S /\ U[i].parent \in S
    BY <2>1, <2>3, <2>7
  <2>9. at = i
    BY <1>2, <2>3, <2>7, <2>8
  <2>. QED  BY <1>1, <1>5, <2>9
<1>9. Later(T, B, U)
  <2>1. ASSUME NEW j \in DOMAIN U, j \in B \cup {Root} PROVE j \in DOMAIN T /\ U[j].folder = T[j].folder
    BY <1>1, <1>5, <2>1
  <2>. QED  BY <2>1 DEF Later
<1>10. Root \in DOMAIN U /\ DOMAIN U \subseteq C \cup {Root} /\ C \subseteq Ids /\ U[Root] = Row(None, None, TRUE)
       /\ B \subseteq C
  BY <1>1, <1>4
<1>11. Tree(U, C, N)
  BY <1>1, <1>4, <1>6, <1>7, <1>8, <1>10 DEF Tree
<1>. QED  BY <1>1, <1>2, <1>9, <1>10, <1>11 DEF Grown

(***************************************************************************)
(* What the insertion of a row does.                                       *)
(***************************************************************************)
LEMMA InsertIs ==
  ASSUME IInv, NEW r \in Requests, At(r, "make"), Parent(r), Made(r) = {}, NEW folder, Insert(r, folder),
         NEW q, q = req[r]
  PROVE  /\ trashed' = trashed
         /\ \E i : Descend(r, i) /\ Inserted(rows, born, rows', i, q.at, Head(q.left), folder)
                   /\ born' = born \cup {i}
<1>1. PICK i \in Ids \ born :
        /\ rows' = Over(rows, [n \in {i} |-> Row(req[r].at, Head(req[r].left), folder)])
        /\ born' = born \cup {i}
        /\ Descend(r, i)
        /\ UNCHANGED trashed
  BY DEF Insert
<1>2. PICK g : g = [n \in {i} |-> Row(req[r].at, Head(req[r].left), folder)]
  OBVIOUS
<1>3. rows' = [j \in DOMAIN rows \cup DOMAIN g |-> IF j \in DOMAIN rows THEN rows[j] ELSE g[j]]
  BY <1>1, <1>2 DEF Over
<1>4. q.op \in {"folder", "file"} /\ Facts(q, rows, born, trashed) /\ Tree(rows, born, trashed)
  BY Making
<1>5. i \notin DOMAIN rows
  BY <1>1, <1>4, TreeAssumption DEF Tree
<1>6. Head(q.left) \in Names
  <2>1. q.left \in Seq(Names) /\ Len(q.left) >= 1
    BY <1>4 DEF Facts
  <2>2. q.left # <<>>
    BY <2>1
  <2>. QED  BY <2>1, <2>2, HeadTailProperties
<1>7. q.at \in DOMAIN rows /\ rows[q.at].folder
  BY DEF Parent, Live
<1>8. \A j \in DOMAIN rows : ~(rows[j].parent = q.at /\ rows[j].name = Head(q.left))
  BY DEF Made, Child, Entries
<1>9. /\ DOMAIN rows' = DOMAIN rows \cup {i} /\ rows' = [j \in DOMAIN rows' |-> rows'[j]]
      /\ \A j \in DOMAIN rows : rows'[j] = rows[j]
      /\ rows'[i] = Row(q.at, Head(q.left), folder)
  BY <1>2, <1>3, <1>5
<1>10. Inserted(rows, born, rows', i, q.at, Head(q.left), folder)
  BY <1>1, <1>6, <1>7, <1>8, <1>9 DEF Inserted
<1>. QED  BY <1>1, <1>10

LEMMA InsertKeeps ==
  ASSUME IInv, NEW r \in Requests, At(r, "make"), Parent(r), Made(r) = {}, NEW folder, Insert(r, folder)
  PROVE  IInv'
<1>1. PICK q, at, name : q = req[r] /\ at = q.at /\ name = Head(q.left)
  OBVIOUS
<1>2. PICK i : Descend(r, i) /\ Inserted(rows, born, rows', i, at, name, folder) /\ born' = born \cup {i}
  BY <1>1, InsertIs
<1>3. trashed' = trashed
  BY <1>1, InsertIs
<1>4. Tree(rows, born, trashed)
  BY DEF IInv
<1>5. PICK U, C : U = rows' /\ C = born'
  OBVIOUS
<1>6. Inserted(rows, born, U, i, at, name, folder) /\ C = born \cup {i}
  BY <1>2, <1>5
<1>7. Grown(rows, born, U, C, trashed, at, name, i)
  BY ONLY <1>4, <1>6, InsertTree
<1>. QED  BY <1>1, <1>2, <1>3, <1>5, <1>7, DescendKeeps

LEMMA CreateFolderKeeps ==
  ASSUME IInv, NEW r \in Requests, CreateFolder(r)
  PROVE  IInv'
<1>1. At(r, "make")
  BY DEF CreateFolder
<1>2. CASE Refuse(r)
  BY <1>2, RefuseKeeps
<1>3. CASE \E i \in Made(r) : Parent(r) /\ Descend(r, i) /\ UNCHANGED <<rows, born, trashed>>
  <2>1. PICK i \in Made(r) : Parent(r) /\ Descend(r, i) /\ UNCHANGED <<rows, born, trashed>>
    BY <1>3
  <2>2. PICK q : q = req[r]
    OBVIOUS
  <2>3. Tree(rows, born, trashed) /\ Later(rows, born, rows)
    BY Unmoved DEF IInv
  <2>4. q.at \in DOMAIN rows /\ i \in DOMAIN rows /\ rows[i].parent = q.at /\ rows[i].name = Head(q.left)
    BY <2>1, <2>2 DEF Parent, Live, Made, Child, Entries
  <2>5. rows' = rows /\ born' = born /\ trashed' = trashed
    BY <2>1
  <2>6. Grown(rows, born, rows, born, trashed, q.at, Head(q.left), i)
    BY <2>3, <2>4 DEF Grown
  <2>. QED  BY <1>1, <2>1, <2>2, <2>5, <2>6, DescendKeeps
<1>4. CASE Parent(r) /\ Made(r) = {} /\ Insert(r, TRUE)
  BY <1>1, <1>4, InsertKeeps
<1>. QED  BY <1>2, <1>3, <1>4 DEF CreateFolder

LEMMA CreateFileKeeps ==
  ASSUME IInv, NEW r \in Requests, CreateFile(r)
  PROVE  IInv'
<1>1. At(r, "make")
  BY DEF CreateFile
<1>2. CASE Refuse(r)
  BY <1>2, RefuseKeeps
<1>3. CASE Parent(r) /\ Made(r) = {} /\ Insert(r, FALSE)
  BY <1>1, <1>3, InsertKeeps
<1>. QED  BY <1>2, <1>3 DEF CreateFile

(***************************************************************************)
(* What a delete has listed is what is below its target, until it is       *)
(* deleted: others do nothing there.                                       *)
(***************************************************************************)
Gathered ==
  \A r \in Requests : req[r].pc = "remove" => DOMAIN req[r].seen = Sub(rows, req[r].target)

LEMMA NotBelow ==
  ASSUME IInv, NEW r \in Requests, NEW s \in Requests \ {r}, req[r].pc = "remove",
         NEW t, t = req[r].target, NEW x \in locks[s], NEW n \in 1 .. Len(x), NEW i \in Walk(rows, x)[n]
  PROVE  i \notin Sub(rows, t)
<1>1. SUFFICES ASSUME i \in Sub(rows, t) PROVE FALSE
  OBVIOUS
<1>2. PICK q : q = req[r]
  OBVIOUS
<1>3. /\ locks[r] = {q.src} /\ Named(q.src) /\ Tree(rows, born, trashed) /\ t # Root /\ t # None
      /\ t \in DOMAIN rows => t \in Walk(rows, q.src)[Len(q.src)]
  BY <1>2, Removing
<1>4. Named(x)
  BY LockNamed
<1>5. ~IsPrefix(q.src, x)
  BY <1>3 DEF IInv, Locking, Clash
<1>6. PICK k \in 1 .. n : t \in Walk(rows, x)[k]
  BY <1>1, <1>3, <1>4, SubOnWay
<1>7. k \in 1 .. Len(x) /\ k \in Nat
  BY <1>4 DEF Named
<1>8. t \in DOMAIN rows
  <2>1. CASE k = 1
    BY <1>3, <1>4, <1>6, <2>1, WalkStart DEF Named
  <2>2. CASE k # 1
    <3>1. k > 1
      BY <1>7, <2>2
    <3>. QED  BY <1>6, <1>7, <3>1, WalkUp
  <2>. QED  BY <2>1, <2>2
<1>9. Grounded(rows)
  BY <1>3, TreeGrounded
<1>. QED  BY <1>3, <1>4, <1>5, <1>6, <1>7, <1>8, <1>9, NoClash

(***************************************************************************)
(* What is below stays if its rows do and nothing else comes there.        *)
(***************************************************************************)
LEMMA SubSame ==
  ASSUME NEW T, NEW U, NEW t, t \in DOMAIN U => t \in DOMAIN T,
         \A i \in Sub(T, t) : i \in DOMAIN U /\ U[i].parent = T[i].parent,
         \A i \in DOMAIN U : U[i].parent \in Sub(T, t) \cup {t} => i \in Sub(T, t)
  PROVE  Sub(U, t) = Sub(T, t)
<1>1. Sub(T, t) \subseteq DOMAIN T /\ Sub(U, t) \subseteq DOMAIN U
  BY DEF Sub
<1>2. Sub(U, t) \subseteq Sub(T, t) \cup {t}
  <2>1. PICK S : S = Sub(T, t) \cup {t}
    OBVIOUS
  <2>2. /\ S \subseteq DOMAIN U \cup {t} /\ t \in S
        /\ \A k \in DOMAIN U : U[k].parent \in S => k \in S
    BY <2>1
  <2>. QED  BY <2>1, <2>2, SubLeast
<1>3. t \in DOMAIN T => t \in Sub(T, t)
  BY SubContains
<1>4. Sub(U, t) \subseteq Sub(T, t)
  BY <1>1, <1>2, <1>3
<1>5. Sub(T, t) \subseteq Sub(U, t) \cup {t}
  <2>1. PICK S : S = Sub(U, t) \cup {t}
    OBVIOUS
  <2>2. ASSUME NEW k \in DOMAIN T, T[k].parent \in S PROVE k \in S
    <3>1. k \in Sub(T, t)
      BY <1>4, <2>1, <2>2, SubClosed
    <3>2. k \in DOMAIN U /\ U[k].parent \in Sub(U, t) \cup {t}
      BY <2>1, <2>2, <3>1
    <3>. QED  BY <2>1, <3>2, SubClosed
  <2>3. S \subseteq DOMAIN T \cup {t} /\ t \in S
    BY <1>1, <1>4, <2>1
  <2>. QED  BY <2>1, <2>2, <2>3, SubLeast
<1>6. t \in Sub(T, t) => t \in Sub(U, t)
  BY SubContains
<1>. QED  BY <1>4, <1>5, <1>6

LEMMA SubGone ==
  ASSUME NEW T, NEW B, NEW N, NEW t, Tree(T, B, N), t \notin DOMAIN T, t # None
  PROVE  Sub(T, t) = {}
<1>1. \A i \in DOMAIN T : T[i].parent \in DOMAIN T \/ T[i].parent = None
  BY TreeGrounded
<1>2. PICK S : S = {t}
  OBVIOUS
<1>3. S \subseteq DOMAIN T \cup {t} /\ t \in S /\ \A k \in DOMAIN T : T[k].parent \in S => k \in S
  BY <1>1, <1>2
<1>4. Sub(T, t) \subseteq S
  BY <1>3, SubLeast
<1>. QED  BY <1>2, <1>4 DEF Sub

(***************************************************************************)
(* Of two files none below the other, nothing is below both.               *)
(***************************************************************************)
LEMMA SubApart ==
  ASSUME NEW T, NEW t, NEW u, t \in DOMAIN T, t \notin Sub(T, u), u \notin Sub(T, t)
  PROVE  \A i \in Sub(T, t) : i \notin Sub(T, u)
<1>1. PICK S : S = Sub(T, t) \ Sub(T, u)
  OBVIOUS
<1>2. S \subseteq DOMAIN T \cup {t} /\ t \in S
  BY <1>1, SubContains DEF Sub
<1>3. ASSUME NEW k \in DOMAIN T, T[k].parent \in S PROVE k \in S
  <2>1. k \in Sub(T, t)
    BY <1>1, <1>3, SubClosed
  <2>2. ASSUME k \in Sub(T, u) PROVE FALSE
    <3>1. k # u
      BY <2>1
    <3>2. T[k].parent \in Sub(T, u) \cup {u}
      BY <2>2, <3>1, SubParent
    <3>. QED  BY <1>1, <1>3, <3>2
  <2>. QED  BY <1>1, <2>1, <2>2
<1>4. Sub(T, t) \subseteq S
  BY <1>2, <1>3, SubLeast
<1>. QED  BY <1>1, <1>4

(***************************************************************************)
(* One file is moved that is not below, to where nothing is below.         *)
(***************************************************************************)
LEMMA RowSpares ==
  ASSUME NEW T, NEW U, NEW t, NEW i, NEW row, i \in DOMAIN T, U = [T EXCEPT ![i] = row],
         i \notin Sub(T, t), row.parent \notin Sub(T, t) \cup {t}
  PROVE  Sub(U, t) = Sub(T, t)
<1>1. DOMAIN U = DOMAIN T /\ U[i] = row /\ \A j \in DOMAIN T : j # i => U[j] = T[j]
  OBVIOUS
<1>2. \A j \in Sub(T, t) : j \in DOMAIN U /\ U[j].parent = T[j].parent
  BY <1>1 DEF Sub
<1>3. \A j \in DOMAIN U : U[j].parent \in Sub(T, t) \cup {t} => j \in Sub(T, t)
  BY <1>1, SubClosed
<1>4. t \in DOMAIN U => t \in DOMAIN T
  BY <1>1
<1>. QED  BY ONLY <1>2, <1>3, <1>4, SubSame

(***************************************************************************)
(* Rows are added, none where something is below.                          *)
(***************************************************************************)
LEMMA AddedSpares ==
  ASSUME NEW T, NEW U, NEW t, t \in DOMAIN U => t \in DOMAIN T,
         \A j \in DOMAIN T : j \in DOMAIN U /\ U[j] = T[j],
         \A j \in DOMAIN U : j \in DOMAIN T \/ U[j].parent \notin Sub(T, t) \cup {t}
  PROVE  Sub(U, t) = Sub(T, t)
<1>1. \A j \in Sub(T, t) : j \in DOMAIN U /\ U[j].parent = T[j].parent
  BY DEF Sub
<1>2. \A j \in DOMAIN U : U[j].parent \in Sub(T, t) \cup {t} => j \in Sub(T, t)
  BY SubClosed
<1>. QED  BY <1>1, <1>2, SubSame

(***************************************************************************)
(* A destination that another has placed is not below.                     *)
(***************************************************************************)
LEMMA PlaceSpared ==
  ASSUME IInv, NEW r \in Requests, NEW s \in Requests \ {r}, req[r].pc = "remove",
         NEW t, t = req[r].target, NEW x \in locks[s], NEW n \in 1 .. Len(x), NEW i \in Walk(rows, x)[n],
         i \in DOMAIN rows
  PROVE  i \notin Sub(rows, t) \cup {t}
<1>1. i \notin Sub(rows, t)
  BY NotBelow
<1>2. i = t => i \in Sub(rows, t)
  BY SubContains
<1>. QED  BY <1>1, <1>2

LEMMA UnderLocked ==
  ASSUME IInv, NEW r \in Requests, NEW s \in Requests \ {r}, req[r].pc = "remove",
         NEW t, t = req[r].target, NEW dst, NEW name, Named(dst), name \in Names \cup Nat,
         Append(dst, name) \in locks[s], NEW at \in DOMAIN rows, at \in Walk(rows, dst)[Len(dst)]
  PROVE  at \notin Sub(rows, t) \cup {t}
<1>1. PICK x, n : x = Append(dst, name) /\ n = Len(dst)
  OBVIOUS
<1>2. n \in 1 .. Len(dst) /\ n \in Nat
  BY <1>1 DEF Named
<1>3. Len(x) = Len(dst) + 1
  BY <1>1, Longer
<1>4. n \in 1 .. Len(x)
  BY <1>1, <1>2, <1>3
<1>5. Walk(rows, x)[n] = Walk(rows, dst)[n]
  BY <1>1, <1>2, AboveLocked
<1>6. x \in locks[s] /\ at \in Walk(rows, x)[n]
  BY <1>1, <1>5
<1>. QED  BY <1>4, <1>6, PlaceSpared

(***************************************************************************)
(* What each transaction of another leaves below.                          *)
(***************************************************************************)
LEMMA RenameSpares ==
  ASSUME IInv, NEW s \in Requests, Rename(s), NEW t
  PROVE  Sub(rows', t) = Sub(rows, t)
<1>1. PICK U, i, name : U = rows' /\ i = req[s].target /\ name = req[s].name
  OBVIOUS
<1>2. CASE Refuse(s)
  BY <1>2 DEF Refuse
<1>3. CASE ~Refuse(s)
  <2>1. i \in DOMAIN rows /\ U = [rows EXCEPT ![i].name = name]
    BY <1>1, <1>3 DEF Rename, Live
  <2>2. Tree(rows, born, trashed)
    BY DEF IInv
  <2>3. i \in DOMAIN rows \ {Root}
    <3>1. i \in born
      BY <1>1, <1>3, Committing DEF Rename, Facts
    <3>. QED  BY <2>1, <2>2, <3>1, TreeAssumption DEF Tree
  <2>4. Rec(rows[i])
    BY <2>2, <2>3 DEF Tree
  <2>5. DOMAIN U = DOMAIN rows /\ \A j \in DOMAIN rows : U[j].parent = rows[j].parent
    BY <2>1, <2>4 DEF Rec
  <2>6. /\ t \in DOMAIN U => t \in DOMAIN rows
        /\ \A j \in Sub(rows, t) : j \in DOMAIN U /\ U[j].parent = rows[j].parent
        /\ \A j \in DOMAIN U : U[j].parent \in Sub(rows, t) \cup {t} => j \in Sub(rows, t)
    BY <2>5, SubClosed DEF Sub
  <2>7. Sub(U, t) = Sub(rows, t)
    BY ONLY <2>6, SubSame
  <2>. QED  BY <1>1, <2>7
<1>. QED  BY <1>2, <1>3

LEMMA SoftDeleteSpares ==
  ASSUME IInv, NEW r \in Requests, NEW s \in Requests \ {r}, req[r].pc = "remove",
         NEW t, t = req[r].target, SoftDelete(s)
  PROVE  Sub(rows', t) = Sub(rows, t)
<1>1. CASE Refuse(s)
  BY <1>1 DEF Refuse
<1>2. CASE ~Refuse(s)
  <2>1. PICK q, i, m, U : q = req[s] /\ i = q.target /\ m = trashed + 1 /\ U = rows'
    OBVIOUS
  <2>2. /\ UserPath(q.src) /\ i \in DOMAIN rows
        /\ i \in Walk(rows, q.src)[Len(q.src)] /\ q.src \in locks[s]
    BY <1>2, <2>1, SoftDeleteIs
  <2>3. PICK row : rows' = [rows EXCEPT ![i] = row] /\ row.parent = None
    BY <1>2, <2>1, SoftDeleteIs
  <2>4. Len(q.src) \in 1 .. Len(q.src)
    BY <2>2 DEF UserPath
  <2>5. i \notin Sub(rows, t)
    BY <2>2, <2>4, NotBelow
  <2>6. None \notin Sub(rows, t) \cup {t}
    <3>1. t # None /\ Tree(rows, born, trashed)
      BY Removing
    <3>. QED  BY <3>1, TreeGrounded DEF Sub, Grounded
  <2>7. U = [rows EXCEPT ![i] = row] /\ row.parent \notin Sub(rows, t) \cup {t}
    BY <2>1, <2>3, <2>6
  <2>8. Sub(U, t) = Sub(rows, t)
    BY ONLY <2>2, <2>5, <2>7, RowSpares
  <2>. QED  BY <2>1, <2>8
<1>. QED  BY <1>1, <1>2

LEMMA MoveSpares ==
  ASSUME IInv, NEW r \in Requests, NEW s \in Requests \ {r}, req[r].pc = "remove",
         NEW t, t = req[r].target, Move(s)
  PROVE  Sub(rows', t) = Sub(rows, t)
<1>1. PICK q, i, U : q = req[s] /\ i = q.target /\ U = rows'
  OBVIOUS
<1>2. CASE Refuse(s)
  BY <1>2 DEF Refuse
<1>3. CASE ~Refuse(s) /\ i \notin DOMAIN rows
  <2>1. rows' = rows
    BY <1>1, <1>3, MoveIs
  <2>. QED  BY <2>1
<1>4. CASE ~Refuse(s) /\ i \in DOMAIN rows
  <2>1. q.at \in DOMAIN rows
    BY <1>1, <1>4, MoveIs
  <2>2. PICK row : /\ rows' = [rows EXCEPT ![i] = row]
                   /\ row.parent = q.at /\ row.name \in Names
                   /\ Append(q.dst, row.name) \in locks[s]
    BY <1>1, <1>4, MoveIs
  <2>3. /\ Named(q.src) /\ Named(q.dst)
        /\ i \in Walk(rows, q.src)[Len(q.src)] /\ q.at \in Walk(rows, q.dst)[Len(q.dst)]
        /\ q.src \in locks[s]
    <3>1. Op(s, "move")
      BY DEF Move
    <3>. QED  BY <1>1, <1>4, <2>1, <3>1, Moving
  <2>4. Len(q.src) \in 1 .. Len(q.src)
    BY <2>3 DEF Named
  <2>5. i \notin Sub(rows, t)
    BY <2>3, <2>4, NotBelow
  <2>6. PICK at, dst, name : at = q.at /\ dst = q.dst /\ name = row.name
    OBVIOUS
  <2>7. /\ Named(dst) /\ name \in Names \cup Nat /\ Append(dst, name) \in locks[s]
        /\ at \in DOMAIN rows /\ at \in Walk(rows, dst)[Len(dst)]
    BY <2>1, <2>2, <2>3, <2>6
  <2>8. at \notin Sub(rows, t) \cup {t}
    BY <2>7, UnderLocked
  <2>9. U = [rows EXCEPT ![i] = row] /\ row.parent \notin Sub(rows, t) \cup {t}
    BY <1>1, <2>2, <2>6, <2>8
  <2>10. Sub(U, t) = Sub(rows, t)
    BY ONLY <1>4, <2>5, <2>9, RowSpares
  <2>. QED  BY <1>1, <2>10
<1>. QED  BY <1>2, <1>3, <1>4

LEMMA CopySpares ==
  ASSUME IInv, NEW r \in Requests, NEW s \in Requests \ {r}, req[r].pc = "remove",
         NEW t, t = req[r].target, Copy(s)
  PROVE  Sub(rows', t) = Sub(rows, t)
<1>1. CASE Refuse(s)
  BY <1>1 DEF Refuse
<1>2. CASE ~Refuse(s)
  <2>1. PICK q, i, at, got, U : q = req[s] /\ i = q.target /\ at = q.at /\ got = q.got /\ U = rows'
    OBVIOUS
  <2>2. at \in DOMAIN rows
    BY <1>2, <2>1, CopyIs
  <2>3. PICK source, new : CopyOf(rows, born, i, at, got, source, new, U)
    BY <1>2, <2>1, CopyIs
  <2>4. /\ q.op = "copy" /\ Facts(q, rows, born, trashed) /\ Placed(q, rows) /\ locks[s] = Held(q)
        /\ q.op \in Operations /\ Tree(rows, born, trashed) /\ trashed \in Nat
    BY <2>1, Committing DEF Copy
  <2>5. /\ Named(q.dst) /\ q.got.name \in Names \cup Nat /\ Append(q.dst, q.got.name) \in locks[s]
        /\ at \in Walk(rows, q.dst)[Len(q.dst)]
    BY <2>1, <2>2, <2>4, FactsNamed DEF Held, Placed
  <2>6. at \notin Sub(rows, t) \cup {t}
    <3>1. PICK dst, name : dst = q.dst /\ name = q.got.name
      OBVIOUS
    <3>. QED  BY <2>2, <2>5, <3>1, UnderLocked
  <2>7. /\ source = {i} \cup Sub(rows, i) /\ new \in [source -> Ids \ born]
        /\ DOMAIN U = DOMAIN rows \cup {new[j] : j \in source}
        /\ \A j \in DOMAIN rows : U[j] = rows[j]
        /\ \A j \in source : U[new[j]] = Copied(rows, i, at, got, new, j)
    BY <2>3 DEF CopyOf
  <2>8. t \in born /\ DOMAIN rows \subseteq born \cup {Root} /\ Root \notin Ids /\ Sub(rows, t) \subseteq DOMAIN rows
    BY <2>4, Removing, TreeAssumption DEF Tree, Sub
  <2>9. \A n \in Ids \ born : n \notin Sub(rows, t) \cup {t} /\ n \notin DOMAIN rows
    BY <2>8
  <2>10. ASSUME NEW j \in source PROVE U[new[j]].parent \notin Sub(rows, t) \cup {t}
    <3>1. U[new[j]].parent = IF j = i THEN at ELSE new[rows[j].parent]
      <4>1. U[new[j]] = Copied(rows, i, at, got, new, j)
        BY <2>7
      <4>. QED  BY ONLY <4>1 DEF Copied, Row
    <3>2. ASSUME j # i PROVE new[rows[j].parent] \in Ids \ born
      <4>1. rows[j].parent \in source
        BY <2>7, <3>2, SubParent
      <4>. QED  BY <2>7, <4>1
    <3>. QED  BY <2>6, <2>9, <3>1, <3>2
  <2>11. t \in DOMAIN U => t \in DOMAIN rows
    BY <2>7, <2>8
  <2>12. \A j \in DOMAIN rows : j \in DOMAIN U /\ U[j] = rows[j]
    BY <2>7
  <2>13. \A j \in DOMAIN U : j \in DOMAIN rows \/ U[j].parent \notin Sub(rows, t) \cup {t}
    BY <2>7, <2>10
  <2>14. Sub(U, t) = Sub(rows, t)
    BY ONLY <2>11, <2>12, <2>13, AddedSpares
  <2>. QED  BY <2>1, <2>14
<1>. QED  BY <1>1, <1>2

LEMMA InsertSpares ==
  ASSUME IInv, NEW r \in Requests, NEW s \in Requests \ {r}, req[r].pc = "remove",
         NEW t, t = req[r].target, At(s, "make"), Parent(s), Made(s) = {}, NEW folder, Insert(s, folder)
  PROVE  Sub(rows', t) = Sub(rows, t)
<1>1. PICK q, at, name, U : q = req[s] /\ at = q.at /\ name = Head(q.left) /\ U = rows'
  OBVIOUS
<1>2. PICK i : Inserted(rows, born, U, i, at, name, folder)
  BY <1>1, InsertIs
<1>3. /\ i \in Ids \ born /\ at \in DOMAIN rows /\ DOMAIN U = DOMAIN rows \cup {i}
      /\ \A j \in DOMAIN rows : j \in DOMAIN U /\ U[j] = rows[j]
      /\ U[i].parent = at
  BY <1>2 DEF Inserted, Row
<1>4. /\ q.op \in {"folder", "file"} /\ q.op \in Operations /\ Facts(q, rows, born, trashed) /\ Placed(q, rows)
      /\ locks[s] = {q.src} /\ trashed \in Nat
  BY <1>1, Making
<1>5. PICK n : n = Len(q.src) - Len(q.left)
  OBVIOUS
<1>6. n \in 1 .. Len(q.src)
  BY <1>4, <1>5, FactsNamed
<1>7. at \in Walk(rows, q.src)[n]
  BY <1>1, <1>3, <1>4, <1>5 DEF Placed
<1>8. at \notin Sub(rows, t) \cup {t}
  BY <1>3, <1>4, <1>6, <1>7, PlaceSpared
<1>9. t \in born
  BY Removing
<1>10. /\ t \in DOMAIN U => t \in DOMAIN rows
       /\ \A j \in DOMAIN rows : j \in DOMAIN U /\ U[j] = rows[j]
       /\ \A j \in DOMAIN U : j \in DOMAIN rows \/ U[j].parent \notin Sub(rows, t) \cup {t}
  BY <1>3, <1>8, <1>9
<1>11. Sub(U, t) = Sub(rows, t)
  BY ONLY <1>10, AddedSpares
<1>. QED  BY <1>1, <1>11

LEMMA DeleteSpares ==
  ASSUME IInv, Gathered, NEW r \in Requests, NEW s \in Requests \ {r}, req[r].pc = "remove",
         NEW t, t = req[r].target, Delete(s)
  PROVE  Sub(rows', t) = Sub(rows, t)
<1>1. PICK u, gone, U : u = req[s].target /\ gone = Sub(rows, u) /\ U = rows'
  OBVIOUS
<1>2. req[s].pc = "remove" /\ U = Without(gone)
  BY <1>1 DEF Delete, At, Gathered
<1>3. PICK p, q : p = req[r].src /\ q = req[s].src
  OBVIOUS
<1>4. /\ Tree(rows, born, trashed) /\ t \in born /\ t # None /\ locks[r] = {p} /\ Named(p)
      /\ t \in DOMAIN rows => t \in Walk(rows, p)[Len(p)]
  BY <1>3, Removing
<1>5. /\ u # Root /\ u # None /\ locks[s] = {q} /\ Named(q)
      /\ u \in DOMAIN rows => u \in Walk(rows, q)[Len(q)]
  BY <1>1, <1>2, <1>3, Removing
<1>6. DOMAIN U = DOMAIN rows \ gone /\ \A i \in DOMAIN U : U[i] = rows[i]
  <2>1. u # Root /\ u # None /\ gone = Sub(rows, u) /\ U = Without(gone)
    BY <1>1, <1>2, <1>5
  <2>. QED  BY ONLY IInv, <2>1, WithoutIs
<1>7. \A i \in Sub(rows, t) : i \notin gone
  <2>1. CASE t \notin DOMAIN rows
    BY <1>4, <2>1, SubGone
  <2>2. CASE t \in DOMAIN rows
    <3>1. Len(p) \in 1 .. Len(p) /\ Len(q) \in 1 .. Len(q)
      BY <1>4, <1>5 DEF Named
    <3>2. t \notin Sub(rows, u)
      BY <1>1, <1>2, <1>4, <2>2, <3>1, NotBelow
    <3>3. u \notin Sub(rows, t)
      <4>1. CASE u \in DOMAIN rows
        BY <1>5, <3>1, <4>1, NotBelow
      <4>. QED  BY <4>1 DEF Sub
    <3>. QED  BY <1>1, <2>2, <3>2, <3>3, SubApart
  <2>. QED  BY <2>1, <2>2
<1>8. /\ t \in DOMAIN U => t \in DOMAIN rows
      /\ \A i \in Sub(rows, t) : i \in DOMAIN U /\ U[i].parent = rows[i].parent
      /\ \A i \in DOMAIN U : U[i].parent \in Sub(rows, t) \cup {t} => i \in Sub(rows, t)
  BY <1>6, <1>7, SubClosed DEF Sub
<1>9. Sub(U, t) = Sub(rows, t)
  BY ONLY <1>8, SubSame
<1>. QED  BY <1>1, <1>9

LEMMA TransactionSpares ==
  ASSUME IInv, Gathered, NEW r \in Requests, NEW s \in Requests \ {r}, req[r].pc = "remove",
         NEW t, t = req[r].target, Transaction(s)
  PROVE  Sub(rows', t) = Sub(rows, t)
<1>1. Refuse(s) \/ UNCHANGED rows => rows' = rows
  BY DEF Refuse
<1>2. WalkBelow(s) => rows' = rows
  BY DEF WalkBelow, Step
<1>3. CreateFolder(s) => Sub(rows', t) = Sub(rows, t)
  <2>1. SUFFICES ASSUME CreateFolder(s) PROVE Sub(rows', t) = Sub(rows, t)
    OBVIOUS
  <2>2. At(s, "make")
    BY <2>1 DEF CreateFolder
  <2>3. UNCHANGED rows \/ Refuse(s) \/ (Parent(s) /\ Made(s) = {} /\ Insert(s, TRUE))
    BY <2>1 DEF CreateFolder
  <2>. QED  BY <1>1, <2>2, <2>3, InsertSpares
<1>4. CreateFile(s) => Sub(rows', t) = Sub(rows, t)
  <2>1. SUFFICES ASSUME CreateFile(s) PROVE Sub(rows', t) = Sub(rows, t)
    OBVIOUS
  <2>2. At(s, "make") /\ (Refuse(s) \/ (Parent(s) /\ Made(s) = {} /\ Insert(s, FALSE)))
    BY <2>1 DEF CreateFile
  <2>. QED  BY <1>1, <2>2, InsertSpares
<1>. QED  BY <1>1, <1>2, <1>3, <1>4, RenameSpares, SoftDeleteSpares, DeleteSpares, MoveSpares, CopySpares
     DEF Transaction
(***************************************************************************)
(* A step is of one request, which is to delete only once it has listed.   *)
(***************************************************************************)
Does(s) ==
  \/ Asked(s) \/ ReadOrigin(s) \/ ReadSource(s)
  \/ Lock(s) \/ EnsureConsistency(s) \/ Transaction(s)

LEMMA OneRequest ==
  ASSUME IInv, NEW s \in Requests, Does(s)
  PROVE  /\ \E x : req' = [req EXCEPT ![s] = x] /\ (x.pc = "remove" => WalkBelow(s))
         /\ rows' = rows \/ Transaction(s)
<1>. DEFINE Fine == /\ \E x : req' = [req EXCEPT ![s] = x] /\ x.pc # "remove"
                    /\ rows' = rows \/ Transaction(s)
<1>1. PICK q : q = req[s]
  OBVIOUS
<1>2. Fields(q)
  BY <1>1 DEF IInv, Asking
<1>3. End(s) => \E x : req' = [req EXCEPT ![s] = x] /\ x.pc # "remove"
  <2>1. Idle.pc # "remove"
    BY DEF Idle
  <2>. QED  BY <2>1 DEF End
<1>4. Refuse(s) => Fine
  BY <1>3 DEF Refuse
<1>5. ASSUME NEW x, x.pc # "remove", Begin(s, x) \/ Step(s, x) PROVE Fine
  BY <1>5 DEF Begin, Step
<1>6. ASSUME Asked(s) PROVE Fine
  <2>1. PICK op, path :
          \/ \E name : ReadTarget(s, op, path, name)
          \/ ReadAncestor(s, op, path)
          \/ \E dst : ReadDestination(s, op, path, dst)
          \/ ReadTrash(s, op, path)
    BY <1>6 DEF Asked
  <2>2. ASSUME NEW name, ReadTarget(s, op, path, name) PROVE Fine
    <3>1. PICK t : Begin(s, [Idle EXCEPT !.pc = "lock", !.op = op, !.src = path, !.name = name,
                                     !.target = t, !.seen = Seen(rows, path), !.got = rows[t]])
      BY <2>2 DEF ReadTarget
    <3>2. PICK x : x = [Idle EXCEPT !.pc = "lock", !.op = op, !.src = path, !.name = name,
                       !.target = t, !.seen = Seen(rows, path), !.got = rows[t]]
      OBVIOUS
    <3>3. x.pc # "remove"
      BY <3>2 DEF Idle
    <3>. QED  BY <1>5, <3>1, <3>2, <3>3
  <2>3. ASSUME ReadAncestor(s, op, path) PROVE Fine
    <3>1. PICK n, a : Begin(s, [Idle EXCEPT !.pc = "lock", !.op = op, !.src = path, !.at = a,
                                      !.seen = Seen(rows, SubSeq(path, 1, n)),
                                      !.left = SubSeq(path, n + 1, Len(path))])
      BY <2>3 DEF ReadAncestor
    <3>2. PICK x : x = [Idle EXCEPT !.pc = "lock", !.op = op, !.src = path, !.at = a,
                       !.seen = Seen(rows, SubSeq(path, 1, n)),
                       !.left = SubSeq(path, n + 1, Len(path))]
      OBVIOUS
    <3>3. x.pc # "remove"
      BY <3>2 DEF Idle
    <3>. QED  BY <1>5, <3>1, <3>2, <3>3
  <2>4. ASSUME NEW dst, ReadDestination(s, op, path, dst) PROVE Fine
    <3>1. PICK d : Begin(s, [Idle EXCEPT !.pc = "source", !.op = op, !.src = path, !.dst = dst,
                                   !.at = d, !.seen = Seen(rows, dst)])
      BY <2>4 DEF ReadDestination
    <3>2. PICK x : x = [Idle EXCEPT !.pc = "source", !.op = op, !.src = path, !.dst = dst,
                       !.at = d, !.seen = Seen(rows, dst)]
      OBVIOUS
    <3>3. x.pc # "remove"
      BY <3>2 DEF Idle
    <3>. QED  BY <1>5, <3>1, <3>2, <3>3
  <2>5. ASSUME ReadTrash(s, op, path) PROVE Fine
    <3>1. PICK t : Begin(s, [Idle EXCEPT !.pc = "destination", !.op = "move",
                                !.src = path, !.dst = Front(rows[t].restore)])
      BY <2>5 DEF ReadTrash
    <3>2. PICK x : x = [Idle EXCEPT !.pc = "destination", !.op = "move",
                       !.src = path, !.dst = Front(rows[t].restore)]
      OBVIOUS
    <3>3. x.pc # "remove"
      BY <3>2 DEF Idle
    <3>. QED  BY <1>5, <3>1, <3>2, <3>3
  <2>. QED  BY <2>1, <2>2, <2>3, <2>4, <2>5
<1>7. ASSUME ReadOrigin(s) PROVE Fine
  <2>1. ASSUME NEW d, Step(s, [req[s] EXCEPT !.pc = "source", !.at = d, !.seen = Seen(rows, req[s].dst)])
        PROVE Fine
    <3>1. PICK x : x = [q EXCEPT !.pc = "source", !.at = d, !.seen = Seen(rows, q.dst)]
      OBVIOUS
    <3>2. x.pc # "remove"
      BY <1>2, <3>1 DEF Fields
    <3>. QED  BY <1>1, <1>5, <2>1, <3>1, <3>2
  <2>. QED  BY <1>4, <1>7, <2>1 DEF ReadOrigin
<1>8. ASSUME ReadSource(s) PROVE Fine
  <2>1. ASSUME NEW t, NEW got, NEW seen,
               Step(s, [q EXCEPT !.pc = "lock", !.target = t, !.got = got, !.seen = seen])
        PROVE Fine
    <3>1. PICK x : x = [q EXCEPT !.pc = "lock", !.target = t, !.got = got, !.seen = seen]
      OBVIOUS
    <3>2. x.pc # "remove"
      BY <1>2, <3>1 DEF Fields
    <3>. QED  BY <1>5, <2>1, <3>1, <3>2
  <2>2. PICK table, chain : table = Database(q) /\ chain = Seen(table, q.src)
    OBVIOUS
  <2>3. \/ \E t : Step(s, [q EXCEPT !.pc = "lock", !.target = t, !.got = table[t],
                                   !.seen = IF q.op = "copy" THEN @ ELSE Both(q, chain)])
        \/ Refuse(s)
    BY <1>1, <1>8, <2>2 DEF ReadSource
  <2>4. ASSUME NEW t, Step(s, [q EXCEPT !.pc = "lock", !.target = t, !.got = table[t],
                                   !.seen = IF q.op = "copy" THEN @ ELSE Both(q, chain)])
        PROVE  Fine
    <3>1. PICK seen, got : seen = (IF q.op = "copy" THEN q.seen ELSE Both(q, chain)) /\ got = table[t]
      OBVIOUS
    <3>2. Step(s, [q EXCEPT !.pc = "lock", !.target = t, !.got = got, !.seen = seen])
      BY <2>4, <3>1
    <3>. QED  BY <2>1, <3>2
  <2>. QED  BY <1>4, <2>3, <2>4
<1>9. ASSUME Lock(s) PROVE Fine
  <2>1. ASSUME req' = [req EXCEPT ![s].pc = "check"], rows' = rows PROVE Fine
    <3>1. PICK x : x = [q EXCEPT !.pc = "check"]
      OBVIOUS
    <3>2. req' = [req EXCEPT ![s] = x] /\ x.pc = "check"
      BY <1>1, <1>2, <2>1, <3>1 DEF Fields
    <3>. QED  BY <2>1, <3>2
  <2>. QED  BY <1>4, <1>9, <2>1 DEF Lock
<1>10. ASSUME EnsureConsistency(s) PROVE Fine
  <2>1. PICK pc : pc = IF req[s].op \in {"folder", "file"} THEN "make" ELSE "commit"
    OBVIOUS
  <2>2. Step(s, [q EXCEPT !.pc = pc]) \/ Refuse(s)
    BY <1>1, <1>10, <2>1 DEF EnsureConsistency
  <2>3. ASSUME Step(s, [q EXCEPT !.pc = pc]) PROVE Fine
    BY <1>2, <1>5, <2>1, <2>3 DEF Fields
  <2>. QED  BY <1>4, <2>2, <2>3
<1>11. ASSUME NEW i, Descend(s, i), At(s, "make")
       PROVE  \E x : req' = [req EXCEPT ![s] = x] /\ x.pc # "remove"
  <2>1. ASSUME req' = [req EXCEPT ![s].at = i, ![s].left = Tail(@)]
        PROVE  \E x : req' = [req EXCEPT ![s] = x] /\ x.pc # "remove"
    <3>1. PICK x : x = [q EXCEPT !.at = i, !.left = Tail(@)]
      OBVIOUS
    <3>2. x.pc = "make"
      BY <1>1, <1>2, <1>11, <3>1 DEF Fields, At
    <3>3. req' = [req EXCEPT ![s] = x]
      <4>1. x = [[q EXCEPT !.at = i] EXCEPT !.left = Tail(q.left)]
        BY <1>2, <3>1 DEF Fields
      <4>2. req = [u \in Requests |-> req[u]]
        BY DEF IInv, Locking
      <4>. QED  BY <1>1, <1>2, <2>1, <4>1, <4>2 DEF Fields
    <3>. QED  BY <3>2, <3>3
  <2>. QED  BY <1>3, <1>11, <2>1 DEF Descend
<1>12. ASSUME Transaction(s)
       PROVE  WalkBelow(s) \/ Refuse(s) \/ End(s) \/ (At(s, "make") /\ \E i : Descend(s, i))
  <2>1. Rename(s) \/ SoftDelete(s) \/ Delete(s) \/ Move(s) \/ Copy(s) => Refuse(s) \/ End(s)
    BY DEF Rename, SoftDelete, Delete, Move, Copy, Commit
  <2>2. CreateFolder(s) \/ CreateFile(s) => Refuse(s) \/ (At(s, "make") /\ \E i : Descend(s, i))
    BY DEF CreateFolder, CreateFile, Insert
  <2>. QED  BY <1>12, <2>1, <2>2 DEF Transaction
<1>13. ASSUME WalkBelow(s) PROVE \E x : req' = [req EXCEPT ![s] = x] /\ (x.pc = "remove" => WalkBelow(s))
  BY <1>13 DEF WalkBelow, Step
<1>. QED  BY <1>3, <1>4, <1>6, <1>7, <1>8, <1>9, <1>10, <1>11, <1>12, <1>13 DEF Does

(***************************************************************************)
(* So what is listed is what is there when it is deleted.                  *)
(***************************************************************************)
LEMMA GatheredKept ==
  ASSUME IInv, Gathered, NEW s \in Requests, Does(s)
  PROVE  Gathered'
<1>1. SUFFICES ASSUME NEW r \in Requests, req'[r].pc = "remove"
               PROVE  DOMAIN req'[r].seen = Sub(rows', req'[r].target)
  BY DEF Gathered
<1>2. PICK x : req' = [req EXCEPT ![s] = x] /\ (x.pc = "remove" => WalkBelow(s))
  BY OneRequest
<1>3. req = [u \in Requests |-> req[u]]
  BY DEF IInv, Locking
<1>4. CASE s = r
  <2>1. WalkBelow(r)
    BY <1>1, <1>2, <1>3, <1>4
  <2>. QED  BY <2>1, WalkBelowKeeps
<1>5. CASE s # r
  <2>1. req'[r] = req[r]
    BY <1>2, <1>3, <1>5
  <2>2. PICK t : t = req[r].target
    OBVIOUS
  <2>3. req[r].pc = "remove" /\ DOMAIN req[r].seen = Sub(rows, t)
    BY <1>1, <2>1, <2>2 DEF Gathered
  <2>4. Sub(rows', t) = Sub(rows, t)
    <3>1. CASE rows' = rows
      BY <3>1
    <3>2. CASE Transaction(s)
      BY <1>5, <2>2, <2>3, <3>2, TransactionSpares
    <3>. QED  BY <3>1, <3>2, OneRequest
  <2>. QED  BY <2>1, <2>2, <2>3, <2>4
<1>. QED  BY <1>4, <1>5

Start(T, x, y, n, m, parent, folder) ==
  /\ x \in Ids /\ y \in Ids /\ n \in Names /\ m \in Names /\ x # y
  /\ parent \in {x, Root} /\ (parent = Root => n # m)
  /\ T = [i \in {Root, x, y} |-> CASE i = Root -> Row(None, None, TRUE)
                                    [] i = x -> Row(Root, n, TRUE)
                                    [] i = y -> Row(parent, m, folder)]

(***************************************************************************)
(* The files at first, and the invariant for good.                         *)
(***************************************************************************)
LEMMA InitTree ==
  ASSUME NEW T, NEW x, NEW y, NEW n, NEW m, NEW parent, NEW folder,
         Start(T, x, y, n, m, parent, folder)
  PROVE  Tree(T, {x, y}, 0)
<1>0. /\ x \in Ids /\ y \in Ids /\ n \in Names /\ m \in Names /\ x # y
      /\ parent \in {x, Root} /\ (parent = Root => n # m)
  BY DEF Start
<1>1. /\ Root \notin Ids /\ None \notin Ids /\ None # Root /\ None \notin Names
  BY TreeAssumption
<1>2. /\ T[Root] = Row(None, None, TRUE) /\ T[x] = Row(Root, n, TRUE) /\ T[y] = Row(parent, m, folder)
      /\ DOMAIN T = {Root, x, y} /\ T = [i \in DOMAIN T |-> T[i]]
  BY <1>0, <1>1 DEF Start
<1>3. /\ T[Root].parent = None /\ T[Root].name = None /\ T[Root].folder = TRUE
      /\ T[x].parent = Root /\ T[x].name = n /\ T[x].folder = TRUE /\ T[x].restore = None /\ Rec(T[x])
      /\ T[y].parent = parent /\ T[y].name = m /\ T[y].restore = None /\ Rec(T[y])
  BY <1>2 DEF Row, Rec
<1>4. \A i \in DOMAIN T \ {Root} : Rec(T[i]) /\ (Filed(T, i) \/ Binned(T, 0, i))
  BY <1>0, <1>2, <1>3 DEF Filed
<1>5. Unique(T)
  <2>1. SUFFICES ASSUME NEW i \in DOMAIN T, NEW j \in DOMAIN T,
                        T[i].parent = T[j].parent, T[i].name = T[j].name
                 PROVE  i = j
    BY DEF Unique
  <2>4. \A k \in DOMAIN T : k = Root <=> T[k].parent = None
    <3>1. T[x].parent # None /\ T[y].parent # None
      BY <1>0, <1>1, <1>3
    <3>. QED  BY <1>2, <1>3, <3>1
  <2>2. i = Root <=> j = Root
    BY <2>1, <2>4
  <2>3. ~(i = x /\ j = y) /\ ~(i = y /\ j = x)
    BY <1>0, <1>1, <1>3, <2>1
  <2>. QED  BY <1>2, <2>2, <2>3
<1>6. Acyclic(T)
  <2>1. SUFFICES ASSUME NEW S \in SUBSET DOMAIN T, S # {}, \A i \in S : T[i].parent \in S PROVE FALSE
    BY DEF Acyclic
  <2>2. None \notin S
    BY <1>0, <1>1, <1>2, <2>1
  <2>3. Root \notin S
    BY <1>2, <1>3, <2>1, <2>2
  <2>4. x \notin S
    BY <1>3, <2>1, <2>3
  <2>5. y \notin S
    BY <1>0, <1>2, <1>3, <2>1, <2>3, <2>4
  <2>. QED  BY <1>2, <2>1, <2>3, <2>4, <2>5
<1>7. 0 \in Nat /\ Root \in DOMAIN T /\ DOMAIN T \subseteq {x, y} \cup {Root} /\ {x, y} \subseteq Ids
  BY <1>0, <1>2
<1>. QED  BY <1>2, <1>4, <1>5, <1>6, <1>7 DEF Tree

LEMMA InitHolds == Init => IInv /\ Gathered
<1>. SUFFICES ASSUME Init PROVE IInv /\ Gathered
  OBVIOUS
<1>1. PICK x \in Ids, y \in Ids, n \in Names, m \in Names, parent \in Ids \cup {Root}, folder \in BOOLEAN :
          /\ x # y /\ parent \in {x, Root} /\ (parent = Root => n # m)
          /\ rows = [i \in {Root, x, y} |-> CASE i = Root -> Row(None, None, TRUE)
                                              [] i = x -> Row(Root, n, TRUE)
                                              [] i = y -> Row(parent, m, folder)]
          /\ born = {x, y}
  BY DEF Init
<1>2. Start(rows, x, y, n, m, parent, folder)
  BY <1>1 DEF Start
<1>3. Tree(rows, {x, y}, 0)
  BY <1>2, InitTree
<1>4. Tree(rows, born, trashed)
  BY <1>1, <1>3 DEF Init
<1>5. \A r \in Requests : req[r] = Idle /\ locks[r] = {}
  BY DEF Init
<1>6. \A r \in Requests : Asking(req[r], rows, born, trashed)
  BY <1>5, IdleAsks
<1>7. Locking
  <2>1. req = [r \in Requests |-> req[r]] /\ locks = [r \in Requests |-> locks[r]]
    BY DEF Init
  <2>2. Idle.pc \notin Holding
    BY IdleAsks
  <2>. QED  BY <1>5, <2>1, <2>2 DEF Locking
<1>8. Gathered
  <2>1. Idle.pc # "remove"
    BY DEF Idle
  <2>. QED  BY <1>5, <2>1 DEF Gathered
<1>. QED  BY <1>4, <1>6, <1>7, <1>8 DEF IInv

LEMMA NextKeeps ==
  ASSUME IInv, Gathered, ~TornReads, [Next]_vars
  PROVE  IInv' /\ Gathered'
<1>1. CASE UNCHANGED vars
  <2>1. /\ rows' = rows /\ born' = born /\ trashed' = trashed /\ locks' = locks /\ req' = req
    BY <1>1 DEF vars
  <2>. QED  BY <2>1 DEF IInv, Locking, Gathered
<1>2. CASE Next
  <2>1. PICK r \in Requests : \/ Asked(r) \/ ReadOrigin(r) \/ ReadSource(r)
                              \/ Lock(r) \/ EnsureConsistency(r) \/ Transaction(r)
    BY <1>2 DEF Next
  <2>2. Gathered'
    BY <2>1, GatheredKept DEF Does
  <2>3. CASE Asked(r)
    <3>1. At(r, "idle")
      BY <2>3 DEF Asked
    <3>2. PICK op \in Calls, path \in Paths \cup TrashPaths :
            \/ \E name \in Names \cup {None} : ReadTarget(r, op, path, name)
            \/ ReadAncestor(r, op, path)
            \/ \E dst \in Paths : ReadDestination(r, op, path, dst)
            \/ ReadTrash(r, op, path)
      BY <2>3 DEF Asked
    <3>. QED  BY <2>2, <3>1, <3>2, ReadTargetKeeps, ReadAncestorKeeps, ReadDestinationKeeps, ReadTrashKeeps
  <2>4. CASE ReadOrigin(r)
    BY <2>2, <2>4, ReadOriginKeeps
  <2>5. CASE ReadSource(r)
    BY <2>2, <2>5, ReadSourceKeeps
  <2>6. CASE Lock(r)
    BY <2>2, <2>6, LockKeeps
  <2>7. CASE EnsureConsistency(r)
    BY <2>2, <2>7, EnsureConsistencyKeeps
  <2>8. CASE Transaction(r)
    <3>1. Delete(r) => DOMAIN req[r].seen = Sub(rows, req[r].target)
      BY DEF Delete, At, Gathered
    <3>. QED  BY <2>2, <2>8, <3>1, RenameKeeps, SoftDeleteKeeps, WalkBelowKeeps, DeleteKeeps, MoveKeeps, CopyKeeps,
                 CreateFolderKeeps, CreateFileKeeps DEF Transaction
  <2>. QED  BY <2>1, <2>3, <2>4, <2>5, <2>6, <2>7, <2>8
<1>. QED  BY <1>1, <1>2

(***************************************************************************)
(* The invariant says that the files are a tree, and where what is read is.*)
(***************************************************************************)
LEMMA TreeRooted == IInv => Rooted
<1>. SUFFICES ASSUME IInv PROVE Rooted
  OBVIOUS
<1>1. Tree(rows, born, trashed)
  BY DEF IInv
<1>2. \A S \in (SUBSET Live) \ {{}} : \E i \in S : rows[i].parent \notin S
  <2>1. \A S \in SUBSET DOMAIN rows : S # {} => \E i \in S : rows[i].parent \notin S
    BY <1>1 DEF Tree, Acyclic
  <2>. QED  BY <2>1 DEF Live
<1>3. ASSUME NEW i \in Live
      PROVE  IF rows[i].parent = None THEN i = Root \/ rows[i].restore # None
             ELSE rows[i].parent \in Live /\ rows[rows[i].parent].folder
  <2>1. CASE i = Root
    <3>1. rows[Root].parent = None
      BY <1>1 DEF Tree, Row
    <3>. QED  BY <2>1, <3>1
  <2>2. CASE i # Root
    <3>1. Filed(rows, i) \/ Binned(rows, trashed, i)
      BY <1>1, <1>3, <2>2 DEF Tree, Live
    <3>2. Filed(rows, i) => /\ rows[i].parent # None
                            /\ rows[i].parent \in Live /\ rows[rows[i].parent].folder
      <4>1. None \notin DOMAIN rows
        BY <1>1, TreeGrounded DEF Grounded
      <4>. QED  BY <4>1 DEF Filed, Live
    <3>3. Binned(rows, trashed, i) => rows[i].parent = None /\ rows[i].restore # None
      BY TreeAssumption DEF Binned, UserPath
    <3>. QED  BY <3>1, <3>2, <3>3
  <2>. QED  BY <2>1, <2>2
<1>. QED  BY <1>2, <1>3 DEF Rooted

(***************************************************************************)
(* A path leads to one file.                                               *)
(***************************************************************************)
LEMMA OneAtEnd ==
  ASSUME NEW T, NEW B, NEW N, NEW p, NEW i, Tree(T, B, N), Len(p) \in Nat, Len(p) >= 1,
         i \in Walk(T, p)[Len(p)]
  PROVE  Resolve(T, p) = {i}
<1>1. Unique(T)
  BY DEF Tree
<1>2. PICK n \in Nat : n = Len(p)
  OBVIOUS
<1>3. \A j \in Walk(T, p)[n] : j = i
  BY <1>1, <1>2, OneFile
<1>. QED  BY <1>2, <1>3 DEF Resolve

LEMMA PlacedThere == IInv => StillThere
<1>. SUFFICES ASSUME IInv, NEW r \in Requests, NEW q, q = req[r]
              PROVE  /\ q.pc \in {"commit", "remove"} /\ q.target \in Live /\ q.op # "copy" =>
                           Resolve(rows, q.src) = {q.target}
                     /\ q.pc = "commit" /\ q.at \in Live => Resolve(rows, q.dst) = {q.at}
                     /\ q.pc = "make" /\ q.at \in Live =>
                           Resolve(rows, SubSeq(q.src, 1, Len(q.src) - Len(q.left))) = {q.at}
  BY DEF StillThere
<1>1. Asking(q, rows, born, trashed) /\ Tree(rows, born, trashed) /\ trashed \in Nat
  BY DEF IInv, Tree
<1>2. None \notin DOMAIN rows
  BY <1>1, TreeGrounded DEF Grounded
<1>3. q.pc \in {"commit", "remove", "make"} => Facts(q, rows, born, trashed) /\ Placed(q, rows) /\ q.op \in Operations
  BY <1>1 DEF Asking
<1>4. q.pc \in {"commit", "remove"} => q.op \in OfTarget \cup {"copy"}
  BY <1>1, <1>3 DEF Asking, OfTarget, Operations
<1>5. ASSUME q.pc \in {"commit", "remove"}, q.target \in Live, q.op # "copy" PROVE Resolve(rows, q.src) = {q.target}
  <2>1. Named(q.src) /\ q.target \in Walk(rows, q.src)[Len(q.src)]
    BY <1>1, <1>3, <1>4, <1>5, FactsNamed DEF Placed, Live
  <2>2. Len(q.src) \in Nat /\ Len(q.src) >= 1
    BY <2>1 DEF Named
  <2>. QED  BY <1>1, <2>1, <2>2, OneAtEnd
<1>6. ASSUME q.pc = "commit", q.at \in Live PROVE Resolve(rows, q.dst) = {q.at}
  <2>1. q.op \in {"move", "copy"}
    <3>1. q.op \in {"rename", "trash", "delete"} => q.at = None
      BY <1>3, <1>6 DEF Facts
    <3>. QED  BY <1>2, <1>4, <1>6, <3>1 DEF OfTarget, Live
  <2>2. Named(q.dst) /\ q.at \in Walk(rows, q.dst)[Len(q.dst)]
    BY <1>1, <1>3, <1>6, <2>1, FactsNamed DEF Placed, Live
  <2>3. Len(q.dst) \in Nat /\ Len(q.dst) >= 1
    BY <2>2 DEF Named
  <2>. QED  BY <1>1, <2>2, <2>3, OneAtEnd
<1>7. ASSUME q.pc = "make", q.at \in Live
      PROVE  Resolve(rows, SubSeq(q.src, 1, Len(q.src) - Len(q.left))) = {q.at}
  <2>1. q.op \in {"folder", "file"}
    BY <1>1, <1>7 DEF Asking
  <2>2. UserPath(q.src) /\ Len(q.src) - Len(q.left) \in 1 .. Len(q.src)
        /\ q.at \in Walk(rows, q.src)[Len(q.src) - Len(q.left)]
    BY <1>1, <1>3, <1>7, <2>1, FactsNamed DEF Placed, Live, Facts
  <2>3. PICK n : n = Len(q.src) - Len(q.left)
    OBVIOUS
  <2>4. PICK p : p = SubSeq(q.src, 1, n)
    OBVIOUS
  <2>9. q.src \in Seq(Names \cup {Root}) /\ Len(q.src) \in Nat
    BY <2>2 DEF UserPath
  <2>11. n \in 1 .. Len(q.src)
    BY <2>2, <2>3
  <2>5. n \in Nat /\ n >= 1 /\ n <= Len(q.src)
    BY <2>9, <2>11
  <2>6. Len(p) = n /\ \A k \in 1 .. n : p[k] = q.src[k]
    BY <2>4, <2>5, <2>9, SubSeqProperties
  <2>7. Walk(rows, p)[n] = Walk(rows, q.src)[n]
    <3>1. PICK src : src = q.src
      OBVIOUS
    <3>2. \A k \in 1 .. n : p[k] = src[k]
      BY <2>6, <3>1
    <3>3. Walk(rows, p)[n] = Walk(rows, src)[n]
      BY ONLY <2>5, <3>2, n \in Nat, WalkPrefix
    <3>. QED  BY <3>1, <3>3
  <2>8. q.at \in Walk(rows, p)[n]
    BY <2>2, <2>3, <2>7
  <2>12. Len(p) \in Nat /\ Len(p) >= 1 /\ q.at \in Walk(rows, p)[Len(p)]
    BY <2>5, <2>6, <2>8
  <2>10. Resolve(rows, p) = {q.at}
    BY <1>1, <2>12, OneAtEnd
  <2>. QED  BY <2>3, <2>4, <2>10
<1>. QED  BY <1>5, <1>6, <1>7

(***************************************************************************)
(* Every file is in a folder that is there, and going up one comes to the  *)
(* root or to a file in the trash that knows where it was: moves, deletes, *)
(* restores and creates at once (manage.go) make no cycle and lose nothing.*)
(***************************************************************************)
THEOREM FilesAreATree == ~TornReads => (Spec => []Rooted)
<1>. SUFFICES ASSUME ~TornReads PROVE Spec => []Rooted
  OBVIOUS
<1>1. Init => IInv /\ Gathered
  BY InitHolds
<1>2. IInv /\ Gathered /\ [Next]_vars => IInv' /\ Gathered'
  BY NextKeeps
<1>3. IInv => Rooted
  BY TreeRooted
<1>. QED  BY <1>1, <1>2, <1>3, PTL DEF Spec

(***************************************************************************)
(* When its transaction runs, what an operation has read without a lock is *)
(* still where it was asked for, thanks to the locks and ensureConsistency.*)
(***************************************************************************)
THEOREM WhatIsReadIsStillThere == ~TornReads => (Spec => []StillThere)
<1>. SUFFICES ASSUME ~TornReads PROVE Spec => []StillThere
  OBVIOUS
<1>1. Init => IInv /\ Gathered
  BY InitHolds
<1>2. IInv /\ Gathered /\ [Next]_vars => IInv' /\ Gathered'
  BY NextKeeps
<1>3. IInv => StillThere
  BY PlacedThere
<1>. QED  BY <1>1, <1>2, <1>3, PTL DEF Spec

(***************************************************************************)
(* What is at a path that stands both ways.                                *)
(***************************************************************************)
LEMMA SameThere ==
  ASSUME IInv, NEW r \in Requests, NEW p \in locks[r],
         NEW U, NEW C, NEW M, Tree(U, C, M), Stands(rows, U, p),
         \A i \in Walk(rows, p)[Len(p)] : i \in DOMAIN rows => i \in DOMAIN U,
         \A n \in 2 .. Len(p) : \A i \in Walk(U, p)[n] :
            i \in DOMAIN rows => U[i].parent = rows[i].parent /\ U[i].name = rows[i].name,
         \A i \in Walk(U, p)[Len(p)] : i \in DOMAIN U => i \in DOMAIN rows
  PROVE  Resolve(U, p) = Resolve(rows, p)
<1>1. Named(p)
  BY LockNamed
<1>2. Tree(rows, born, trashed)
  BY DEF IInv
<1>3. \A n \in 2 .. Len(p) : \A i \in Walk(U, p)[n] :
            i \in DOMAIN rows => rows[i].parent = U[i].parent /\ rows[i].name = U[i].name
  OBVIOUS
<1>4. Stands(U, rows, p)
  BY <1>1, <1>2, <1>3, StandsIf
<1>5. PICK n \in Nat : n = Len(p) /\ n \in 1 .. Len(p)
  BY <1>1 DEF Named
<1>6. ASSUME NEW i \in Walk(rows, p)[n] PROVE i \in Walk(U, p)[n]
  <2>1. n > 1 => i \in DOMAIN rows
    BY <1>5, <1>6, WalkUp
  <2>2. n > 1 => i \in DOMAIN U
    BY <1>5, <1>6, <2>1
  <2>. QED  BY <1>5, <1>6, <2>2 DEF Stands
<1>7. ASSUME NEW i \in Walk(U, p)[n] PROVE i \in Walk(rows, p)[n]
  <2>1. n > 1 => i \in DOMAIN U
    BY <1>5, <1>7, WalkUp
  <2>2. n > 1 => i \in DOMAIN rows
    BY <1>5, <1>7, <2>1
  <2>. QED  BY <1>4, <1>5, <1>7, <2>2 DEF Stands
<1>. QED  BY <1>5, <1>6, <1>7 DEF Resolve

(***************************************************************************)
(* Two requests hold no path of which one is above the other.              *)
(***************************************************************************)
LEMMA Apart ==
  ASSUME IInv, NEW r \in Requests, NEW s \in Requests \ {r}, NEW p \in locks[r], NEW x \in locks[s]
  PROVE  ~IsPrefix(x, p) /\ ~IsPrefix(p, x) /\ Named(p) /\ Named(x)
<1>1. ~Clash(p, x)
  BY DEF IInv, Locking
<1>. QED  BY <1>1, LockNamed DEF Clash

(***************************************************************************)
(* The names in a path that is locked are drawn.                           *)
(***************************************************************************)
LEMMA LockDrawn ==
  ASSUME IInv, NEW r \in Requests, NEW p \in locks[r], NEW n \in 2 .. Len(p)
  PROVE  p[n] \in Names \cup (1 .. trashed)
<1>1. PICK q : q = req[r]
  OBVIOUS
<1>2. p \in Held(q) /\ Facts(q, rows, born, trashed) /\ q.op \in Operations /\ trashed \in Nat
  BY <1>1, LockNamed DEF IInv, Tree
<1>. DEFINE Drawn(x) == \A k \in 2 .. Len(x) : x[k] \in Names \cup (1 .. trashed)
<1>3. \A x : UserPath(x) => Drawn(x)
  BY DEF UserPath
<1>4. \A x : TrashPath(x, trashed) => Drawn(x)
  BY DEF TrashPath
<1>5. ASSUME NEW x, NEW name, UserPath(x), name \in Names \cup (1 .. trashed)
      PROVE  Drawn(Append(x, name))
  <2>1. name \in Names \cup Nat
    BY <1>5
  <2>2. Named(x)
    BY <1>5, UserNamed
  <2>3. /\ Len(Append(x, name)) = Len(x) + 1
        /\ \A k \in 1 .. Len(x) : Append(x, name)[k] = x[k]
        /\ Append(x, name)[Len(x) + 1] = name
    BY <2>1, <2>2, Longer
  <2>4. Len(x) \in Nat
    BY <2>2 DEF Named
  <2>5. ASSUME NEW k \in 2 .. Len(x) + 1
        PROVE  k = Len(x) + 1 \/ (k \in 1 .. Len(x) /\ k \in 2 .. Len(x))
    BY <2>4, <2>5
  <2>6. \A k \in 2 .. Len(x) : x[k] \in Names
    BY <1>5 DEF UserPath
  <2>. QED  BY <1>5, <2>3, <2>5, <2>6
<1>6. CASE q.op \in {"rename", "trash", "delete", "folder", "file"}
  <2>1. p = q.src
    BY <1>2, <1>6 DEF Held
  <2>2. UserPath(q.src) \/ TrashPath(q.src, trashed)
    BY <1>2, <1>6 DEF Facts
  <2>. QED  BY <1>3, <1>4, <2>1, <2>2
<1>7. CASE q.op = "copy"
  <2>1. p = Append(q.dst, q.got.name)
    BY <1>2, <1>7 DEF Held
  <2>2. UserPath(q.dst) /\ q.got.name \in Names
    BY <1>2, <1>7 DEF Facts
  <2>. QED  BY <1>5, <2>1, <2>2
<1>8. CASE q.op = "move"
  <2>1. UserPath(q.src) \/ TrashPath(q.src, trashed)
    BY <1>2, <1>8 DEF Facts
  <2>2. UserPath(q.dst) /\ Len(q.src) >= 2 /\ q.got.name = q.src[Len(q.src)]
    BY <1>2, <1>8 DEF Facts
  <2>3. Len(q.src) \in 2 .. Len(q.src)
    <3>1. Len(q.src) \in Nat
      BY <2>1 DEF UserPath, TrashPath
    <3>. QED  BY <2>2, <3>1
  <2>4. q.got.name \in Names \cup (1 .. trashed)
    BY <1>3, <1>4, <2>1, <2>2, <2>3
  <2>5. q.got.restore # None => Last(q.got.restore) \in Names
    BY <1>2, <1>8, FactsNamed
  <2>6. \/ p = q.src
        \/ p = Append(q.dst, q.got.name)
        \/ q.got.restore # None /\ p = Append(q.dst, Last(q.got.restore))
    BY <1>2, <1>8 DEF Held
  <2>. QED  BY <1>3, <1>4, <1>5, <2>1, <2>2, <2>4, <2>5, <2>6
<1>. QED  BY <1>2, <1>6, <1>7, <1>8 DEF Operations

(***************************************************************************)
(* What others do at their paths changes nothing at a path that is locked. *)
(***************************************************************************)
LEMMA SoftDeleteStands ==
  ASSUME IInv, NEW r \in Requests, NEW p \in locks[r], NEW s \in Requests \ {r}, SoftDelete(s), ~Refuse(s),
         NEW U, U = rows', NEW M, M = trashed', Tree(U, born, M)
  PROVE  Resolve(U, p) = Resolve(rows, p)
<1>1. PICK q, t, m : q = req[s] /\ t = q.target /\ m = trashed + 1
  OBVIOUS
<1>2. /\ t \in DOMAIN rows /\ t \in Walk(rows, q.src)[Len(q.src)] /\ q.src \in locks[s]
  BY <1>1, SoftDeleteIs
<1>3. PICK row : U = [rows EXCEPT ![t] = row] /\ row.name = m
  BY <1>1, SoftDeleteIs
<1>4. DOMAIN U = DOMAIN rows /\ U[t] = row /\ \A i \in DOMAIN rows : i # t => U[i] = rows[i]
  BY <1>2, <1>3
<1>5. \A i \in DOMAIN rows : i \in DOMAIN U /\ i # t =>
            U[i].parent = rows[i].parent /\ U[i].name = rows[i].name
  BY <1>4
<1>6. Stands(rows, U, p)
  BY <1>2, <1>5, OthersStand
<1>7. ASSUME NEW n \in 2 .. Len(p), NEW i \in Walk(U, p)[n], i \in DOMAIN rows
      PROVE  U[i].parent = rows[i].parent /\ U[i].name = rows[i].name
  <2>1. U[i].name = p[n]
    <3>1. n \in Nat /\ n > 1
      OBVIOUS
    <3>. QED  BY <1>7, <3>1, WalkUp
  <2>2. p[n] \in Names \cup (1 .. trashed)
    BY LockDrawn
  <2>3. m \notin Names \cup (1 .. trashed)
    <3>1. trashed \in Nat
      BY DEF IInv, Tree
    <3>2. m \in Nat /\ m \notin 1 .. trashed
      BY <1>1, <3>1
    <3>. QED  BY <3>2, TreeAssumption
  <2>4. i # t
    BY <1>3, <1>4, <2>1, <2>2, <2>3
  <2>. QED  BY <1>5, <1>4, <1>7, <2>4
<1>. QED  BY <1>4, <1>6, <1>7, SameThere

LEMMA DeleteStands ==
  ASSUME IInv, Gathered, NEW r \in Requests, NEW p \in locks[r], NEW s \in Requests \ {r}, Delete(s),
         NEW U, U = rows'
  PROVE  Resolve(U, p) = Resolve(rows, p)
<1>1. PICK q, t, gone : q = req[s] /\ t = q.target /\ gone = Sub(rows, t)
  OBVIOUS
<1>2. req[s].pc = "remove" /\ U = Without(gone)
  BY <1>1 DEF Delete, At, Gathered
<1>3. /\ q.op = "delete" /\ Placed(q, rows) /\ Tree(rows, born, trashed) /\ locks[s] = {q.src}
      /\ t # Root /\ t # None
  BY <1>1, <1>2, Removing
<1>4. t # Root /\ t # None
  BY <1>3
<1>5. /\ Tree(U, born, trashed)
      /\ DOMAIN U = DOMAIN rows \ Sub(rows, t)
      /\ \A i \in DOMAIN U : U[i] = rows[i]
  <2>1. t # Root /\ t # None /\ gone = Sub(rows, t) /\ U = Without(gone)
    BY <1>1, <1>2, <1>3
  <2>. QED  BY ONLY IInv, <2>1, WithoutIs
<1>6. Stands(rows, U, p)
  BY <1>5, AllStand
<1>7. q.src \in locks[s]
  BY <1>3
<1>8. ASSUME NEW i \in Walk(rows, p)[Len(p)], i \in DOMAIN rows PROVE i \in DOMAIN U
  <2>1. SUFFICES ASSUME i \in Sub(rows, t) PROVE FALSE
    BY <1>5, <1>8
  <2>2. Named(p) /\ Named(q.src) /\ ~IsPrefix(q.src, p)
    BY <1>7, Apart
  <2>3. PICK n : n = Len(p)
    OBVIOUS
  <2>4. n \in 1 .. Len(p) /\ n \in Nat /\ i \in Walk(rows, p)[n]
    BY <1>8, <2>2, <2>3 DEF Named
  <2>5. PICK k \in 1 .. n : t \in Walk(rows, p)[k]
    BY <1>3, <1>4, <2>1, <2>2, <2>4, SubOnWay
  <2>6. t \in DOMAIN rows
    <3>1. CASE k = 1
      BY <1>4, <2>2, <2>5, <3>1, WalkStart DEF Named
    <3>2. CASE k # 1
      <4>1. k \in Nat /\ k > 1
        BY <3>2
      <4>. QED  BY <2>5, <4>1, WalkUp
    <3>. QED  BY <3>1, <3>2
  <2>7. t \in Walk(rows, q.src)[Len(q.src)]
    BY <1>1, <1>3, <2>6 DEF Placed, OfTarget
  <2>8. Grounded(rows) /\ k \in 1 .. Len(p)
    BY <1>3, <2>3, TreeGrounded
  <2>. QED  BY <2>2, <2>5, <2>7, <2>8, NoClash
<1>9. \A i \in DOMAIN U : i \in DOMAIN rows
  BY <1>5
<1>10. \A n \in 2 .. Len(p) : \A i \in Walk(U, p)[n] :
            i \in DOMAIN rows => U[i].parent = rows[i].parent /\ U[i].name = rows[i].name
  <2>1. ASSUME NEW n \in 2 .. Len(p), NEW i \in Walk(U, p)[n] PROVE i \in DOMAIN U
    <3>1. n \in Nat /\ n > 1
      OBVIOUS
    <3>. QED  BY <2>1, <3>1, WalkUp
  <2>. QED  BY <1>5, <2>1
<1>. QED  BY <1>5, <1>6, <1>8, <1>9, <1>10, SameThere

(***************************************************************************)
(* What is moved, copied or made is at a path that is locked.              *)
(***************************************************************************)
LEMMA InPlace ==
  ASSUME NEW U, NEW dst, NEW at, NEW name, NEW i, Named(dst), name \in Names \cup Nat,
         at \in Walk(U, dst)[Len(dst)], i \in DOMAIN U, U[i].parent = at, U[i].name = name,
         NEW x, x = Append(dst, name)
  PROVE  i \in Walk(U, x)[Len(x)]
<1>1. Named(x) /\ Len(x) = Len(dst) + 1 /\ x[Len(dst) + 1] = name
  BY Longer
<1>2. PICK n : n = Len(dst)
  OBVIOUS
<1>3. n \in Nat /\ n >= 1 /\ n \in 1 .. Len(dst)
  BY <1>2 DEF Named
<1>4. Walk(U, x)[n] = Walk(U, dst)[n]
  BY <1>3, AboveLocked
<1>5. PICK m : m = n + 1
  OBVIOUS
<1>6. m \in Nat /\ m > 1 /\ m - 1 = n
  BY <1>3, <1>5
<1>7. x[m] = name /\ Len(x) = m
  BY <1>1, <1>2, <1>5
<1>8. at \in Walk(U, x)[m - 1]
  BY <1>2, <1>4, <1>6
<1>9. i \in Walk(U, x)[m]
  BY <1>6, <1>7, <1>8, WalkDown
<1>. QED  BY <1>7, <1>9

LEMMA MoveStands ==
  ASSUME IInv, NEW r \in Requests, NEW p \in locks[r], NEW s \in Requests \ {r}, Move(s), ~Refuse(s),
         NEW U, U = rows'
  PROVE  Resolve(U, p) = Resolve(rows, p)
<1>1. PICK q, t : q = req[s] /\ t = q.target
  OBVIOUS
<1>2. Tree(U, born, trashed) /\ Stands(rows, U, p)
  BY MoveTree
<1>3. Tree(rows, born, trashed) /\ q.at \in DOMAIN rows
  BY <1>1, MoveIs DEF IInv
<1>4. CASE t \notin DOMAIN rows
  BY <1>1, <1>4, MoveIs
<1>5. CASE t \in DOMAIN rows
  <2>1. PICK row : /\ U = [rows EXCEPT ![t] = row] /\ row.parent = q.at
                   /\ row.name \in Names /\ Append(q.dst, row.name) \in locks[s]
    BY <1>1, <1>5, MoveIs
  <2>2. Named(q.dst) /\ q.at \in Walk(rows, q.dst)[Len(q.dst)] /\ Avoiding(rows, q.dst, t)
    <3>1. Op(s, "move")
      BY DEF Move
    <3>. QED  BY <1>1, <1>3, <1>5, <3>1, Moving
  <2>3. DOMAIN U = DOMAIN rows /\ U[t] = row /\ \A i \in DOMAIN rows : i # t => U[i] = rows[i]
    BY <1>5, <2>1
  <2>4. Stands(rows, U, q.dst)
    <3>1. ASSUME NEW n \in 2 .. Len(q.dst), NEW i \in Walk(rows, q.dst)[n], i \in DOMAIN U
          PROVE  U[i].parent = rows[i].parent /\ U[i].name = rows[i].name
      <4>1. n \in 1 .. Len(q.dst)
        BY <2>2 DEF Named
      <4>2. i # t
        BY <2>2, <3>1, <4>1 DEF Avoiding
      <4>. QED  BY <2>3, <3>1, <4>2
    <3>2. \A n \in 2 .. Len(q.dst) : \A i \in Walk(rows, q.dst)[n] :
            i \in DOMAIN U => U[i].parent = rows[i].parent /\ U[i].name = rows[i].name
      BY <3>1
    <3>. QED  BY <1>2, <1>3, <2>2, <3>2, StandsIf
  <2>5. q.at \in Walk(U, q.dst)[Len(q.dst)]
    <3>1. Len(q.dst) \in 1 .. Len(q.dst)
      BY <2>2 DEF Named
    <3>. QED  BY <1>3, <2>2, <2>3, <2>4, <3>1 DEF Stands
  <2>6. PICK x, dst, at, name : x = Append(q.dst, row.name) /\ dst = q.dst /\ at = q.at /\ name = row.name
    OBVIOUS
  <2>7. t \in Walk(U, x)[Len(x)]
    <3>1. /\ Named(dst) /\ name \in Names \cup Nat /\ at \in Walk(U, dst)[Len(dst)] /\ t \in DOMAIN U
          /\ U[t].parent = at /\ U[t].name = name /\ x = Append(dst, name)
      BY <1>5, <2>1, <2>2, <2>3, <2>5, <2>6
    <3>. QED  BY ONLY <3>1, InPlace
  <2>8. Named(p) /\ Named(x) /\ ~IsPrefix(x, p)
    BY <2>1, <2>6, Apart
  <2>9. ASSUME NEW n \in 2 .. Len(p), NEW i \in Walk(U, p)[n], i \in DOMAIN rows
        PROVE  U[i].parent = rows[i].parent /\ U[i].name = rows[i].name
    <3>1. n \in 1 .. Len(p)
      BY <2>8 DEF Named
    <3>2. Grounded(U)
      BY <1>2, TreeGrounded
    <3>3. i # t
      BY <2>7, <2>8, <2>9, <3>1, <3>2, NoClash
    <3>. QED  BY <2>3, <2>9, <3>3
  <2>. QED  BY <1>2, <2>3, <2>9, SameThere
<1>. QED  BY <1>4, <1>5

(***************************************************************************)
(* Where rows are only added, what was on a path stays on it.              *)
(***************************************************************************)
LEMMA NothingMoved ==
  ASSUME IInv, NEW p, Named(p), NEW U, NEW C, NEW M, Tree(U, C, M),
         \A j \in DOMAIN rows : j \in DOMAIN U /\ U[j] = rows[j],
         NEW n \in 1 .. Len(p), NEW i \in Walk(rows, p)[n], i \in DOMAIN rows
  PROVE  i \in Walk(U, p)[n]
<1>1. Tree(rows, born, trashed)
  BY DEF IInv
<1>2. \A m \in 2 .. Len(p) : \A j \in Walk(rows, p)[m] :
            j \in DOMAIN U => U[j].parent = rows[j].parent /\ U[j].name = rows[j].name
  <2>1. ASSUME NEW m \in 2 .. Len(p), NEW j \in Walk(rows, p)[m] PROVE j \in DOMAIN rows
    <3>1. m \in Nat /\ m > 1
      OBVIOUS
    <3>. QED  BY <2>1, <3>1, WalkUp
  <2>. QED  BY <2>1
<1>3. Stands(rows, U, p)
  BY <1>1, <1>2, StandsIf
<1>. QED  BY <1>3 DEF Stands

LEMMA AddedStands ==
  ASSUME IInv, NEW r \in Requests, NEW p \in locks[r],
         NEW U, NEW C, NEW M, Tree(U, C, M),
         \A j \in DOMAIN rows : j \in DOMAIN U /\ U[j] = rows[j],
         \A i \in Walk(U, p)[Len(p)] : i \in DOMAIN U => i \in DOMAIN rows
  PROVE  Resolve(U, p) = Resolve(rows, p)
<1>1. Stands(rows, U, p)
  <2>1. \A j \in DOMAIN rows : j \in DOMAIN U =>
            U[j].parent = rows[j].parent /\ U[j].name = rows[j].name
    OBVIOUS
  <2>. QED  BY <2>1, AllStand
<1>2. \A i \in Walk(rows, p)[Len(p)] : i \in DOMAIN rows => i \in DOMAIN U
  OBVIOUS
<1>3. \A n \in 2 .. Len(p) : \A i \in Walk(U, p)[n] :
            i \in DOMAIN rows => U[i].parent = rows[i].parent /\ U[i].name = rows[i].name
  OBVIOUS
<1>. QED  BY <1>1, <1>2, <1>3, SameThere

LEMMA CopyStands ==
  ASSUME IInv, NEW r \in Requests, NEW p \in locks[r], NEW s \in Requests \ {r}, Copy(s), ~Refuse(s),
         NEW U, U = rows', NEW C, C = born', Tree(U, C, trashed)
  PROVE  Resolve(U, p) = Resolve(rows, p)
<1>1. PICK q, t, at, got : q = req[s] /\ t = q.target /\ at = q.at /\ got = q.got
  OBVIOUS
<1>2. at \in DOMAIN rows
  BY <1>1, CopyIs
<1>3. PICK source, new : CopyOf(rows, born, t, at, got, source, new, U)
  BY <1>1, CopyIs
<1>4. /\ source = {t} \cup Sub(rows, t) /\ new \in [source -> Ids \ born]
      /\ DOMAIN U = DOMAIN rows \cup {new[i] : i \in source}
      /\ \A i \in DOMAIN rows : U[i] = rows[i]
      /\ \A i \in source : U[new[i]] = Copied(rows, t, at, got, new, i)
  BY <1>3 DEF CopyOf
<1>5. /\ q.op = "copy" /\ Facts(q, rows, born, trashed) /\ Placed(q, rows) /\ trashed \in Nat
      /\ locks[s] = Held(q) /\ q.op \in Operations /\ Tree(rows, born, trashed)
  BY <1>1, Committing DEF Copy
<1>6. PICK x, dst, name : x = Append(q.dst, q.got.name) /\ dst = q.dst /\ name = q.got.name
  OBVIOUS
<1>7. x \in locks[s]
  BY <1>5, <1>6 DEF Held
<1>8. Named(dst) /\ name \in Names \cup Nat
  BY <1>5, <1>6, FactsNamed
<1>9. \A j \in DOMAIN rows : j \in DOMAIN U /\ U[j] = rows[j]
  BY <1>4
<1>10. at \in Walk(U, dst)[Len(dst)]
  <2>1. PICK n : n = Len(dst)
    OBVIOUS
  <2>2. n \in 1 .. Len(dst)
    BY <1>8, <2>1 DEF Named
  <2>3. at \in Walk(rows, dst)[n]
    BY <1>1, <1>2, <1>5, <1>6, <2>1 DEF Placed
  <2>. QED  BY <1>2, <1>8, <1>9, <2>1, <2>2, <2>3, NothingMoved
<1>11. PICK c : c = new[t]
  OBVIOUS
<1>12. t \in source /\ c \in DOMAIN U /\ c \in Ids
  BY <1>4, <1>11
<1>13. U[c].parent = at /\ U[c].name = name
  <2>1. U[c] = Copied(rows, t, at, got, new, t)
    BY <1>4, <1>11, <1>12
  <2>2. Copied(rows, t, at, got, new, t) = Row(at, name, got.folder)
    BY <1>1, <1>6 DEF Copied
  <2>. QED  BY <2>1, <2>2 DEF Row
<1>14. c \in Walk(U, x)[Len(x)]
  <2>1. /\ Named(dst) /\ name \in Names \cup Nat /\ at \in Walk(U, dst)[Len(dst)] /\ c \in DOMAIN U
        /\ U[c].parent = at /\ U[c].name = name /\ x = Append(dst, name)
    BY <1>6, <1>8, <1>10, <1>12, <1>13
  <2>. QED  BY ONLY <2>1, InPlace
<1>15. Named(p) /\ Named(x) /\ ~IsPrefix(x, p) /\ Grounded(U)
  BY <1>7, Apart, TreeGrounded
<1>16. \A n \in 1 .. Len(p) : c \notin Walk(U, p)[n]
  BY <1>14, <1>15, NoClash
<1>17. ASSUME NEW k \in source, k # t
       PROVE  rows[k].parent \in source /\ U[new[k]].parent = new[rows[k].parent]
  <2>1. k \in Sub(rows, t)
    BY <1>4, <1>17
  <2>2. rows[k].parent \in source
    BY <1>4, <1>17, <2>1, SubParent
  <2>3. U[new[k]] = Copied(rows, t, at, got, new, k)
    BY <1>4, <1>17
  <2>4. Copied(rows, t, at, got, new, k) = Row(new[rows[k].parent], rows[k].name, rows[k].folder)
    BY <1>17 DEF Copied
  <2>5. U[new[k]].parent = new[rows[k].parent]
    BY <2>3, <2>4 DEF Row
  <2>. QED  BY <2>2, <2>5
<1>18. PICK Bad : Bad = {n \in 1 .. Len(p) : \E k \in source : new[k] \in Walk(U, p)[n]}
  OBVIOUS
<1>19. Bad = {}
  <2>1. SUFFICES ASSUME Bad # {} PROVE FALSE
    OBVIOUS
  <2>2. Bad \subseteq Nat
    BY <1>18
  <2>3. PICK n \in Bad : \A y \in Bad : n <= y
    BY ONLY <2>1, <2>2, LeastExists
  <2>4. n \in 1 .. Len(p) /\ n \in Nat
    BY <1>18, <2>3
  <2>5. PICK k \in source : new[k] \in Walk(U, p)[n]
    BY <1>18, <2>3
  <2>6. k # t
    BY <1>11, <1>16, <2>4, <2>5
  <2>7. n > 1
    <3>1. new[k] \in Ids
      BY <1>4, <2>5
    <3>2. n # 1
      BY <1>15, <2>5, <3>1, WalkStart, TreeAssumption DEF Named
    <3>. QED  BY <2>4, <3>2
  <2>8. n - 1 \in 1 .. Len(p) /\ n - 1 \notin Bad
    <3>1. Len(p) \in Nat
      BY <1>15 DEF Named
    <3>2. n - 1 \in Nat /\ ~(n <= n - 1)
      BY <2>4, <2>7
    <3>. QED  BY <2>3, <2>4, <2>7, <3>1, <3>2
  <2>9. U[new[k]].parent \in Walk(U, p)[n - 1]
    BY <2>4, <2>5, <2>7, WalkUp
  <2>10. rows[k].parent \in source /\ new[rows[k].parent] \in Walk(U, p)[n - 1]
    BY <1>17, <2>5, <2>6, <2>9
  <2>. QED  BY <1>18, <2>8, <2>10
<1>20. \A i \in Walk(U, p)[Len(p)] : i \in DOMAIN U => i \in DOMAIN rows
  <2>1. Len(p) \in 1 .. Len(p)
    BY <1>15 DEF Named
  <2>. QED  BY <1>4, <1>18, <1>19, <2>1
<1>. QED  BY <1>9, <1>20, AddedStands

LEMMA InsertStands ==
  ASSUME IInv, NEW r \in Requests, NEW p \in locks[r], NEW s \in Requests \ {r}, At(s, "make"),
         Parent(s), Made(s) = {}, NEW folder, Insert(s, folder),
         NEW U, U = rows', NEW C, C = born', Tree(U, C, trashed)
  PROVE  Resolve(U, p) = Resolve(rows, p)
<1>1. PICK q, at, name : q = req[s] /\ at = q.at /\ name = Head(q.left)
  OBVIOUS
<1>2. PICK i : Inserted(rows, born, U, i, at, name, folder)
  BY <1>1, InsertIs
<1>3. /\ at \in DOMAIN rows /\ DOMAIN U = DOMAIN rows \cup {i} /\ i \in DOMAIN U
      /\ \A j \in DOMAIN rows : j \in DOMAIN U /\ U[j] = rows[j]
      /\ U[i].parent = at /\ U[i].name = name
  BY <1>2 DEF Inserted, Row
<1>4. /\ q.op \in {"folder", "file"} /\ Facts(q, rows, born, trashed) /\ Placed(q, rows)
      /\ locks[s] = {q.src}
  BY <1>1, Making
<1>5. /\ UserPath(q.src) /\ q.left \in Seq(Names) /\ Len(q.left) >= 1 /\ Len(q.left) < Len(q.src)
      /\ \A k \in 1 .. Len(q.left) : q.left[k] = q.src[Len(q.src) - Len(q.left) + k]
  BY <1>4 DEF Facts
<1>6. PICK src : src = q.src
  OBVIOUS
<1>7. Named(p) /\ Named(src) /\ ~IsPrefix(p, src) /\ Grounded(U)
  BY <1>4, <1>6, Apart, TreeGrounded
<1>8. PICK a \in Nat, b \in Nat : a = Len(q.left) /\ b = Len(src)
  BY <1>5, <1>6 DEF UserPath
<1>16. a >= 1 /\ a < b
  BY <1>5, <1>6, <1>8
<1>9. PICK n \in Nat : n = b - a + 1
  BY <1>16
<1>10. n > 1 /\ n - 1 = b - a /\ n - 1 \in 1 .. b /\ n \in 1 .. b
  BY <1>9, <1>16
<1>11. src[n] = name
  <2>1. 1 \in 1 .. a
    BY <1>5, <1>8
  <2>2. q.left # <<>>
    BY <1>5
  <2>3. Head(q.left) = q.left[1]
    BY <2>2
  <2>. QED  BY <1>1, <1>5, <1>6, <1>8, <1>9, <2>1, <2>3
<1>12. at \in Walk(U, src)[n - 1]
  <2>1. PICK m : m = n - 1
    OBVIOUS
  <2>2. m \in 1 .. Len(src)
    BY <1>8, <1>10, <2>1
  <2>3. at \in Walk(rows, src)[m]
    <3>1. m = Len(q.src) - Len(q.left)
      BY <1>6, <1>8, <1>10, <2>1
    <3>. QED  BY <1>1, <1>3, <1>4, <1>6, <3>1 DEF Placed
  <2>. QED  BY <1>3, <1>7, <2>1, <2>2, <2>3, NothingMoved
<1>13. i \in Walk(U, src)[n]
  BY <1>3, <1>10, <1>11, <1>12, WalkDown
<1>14. i \notin Walk(U, p)[Len(p)]
  <2>1. n \in 1 .. Len(src)
    BY <1>8, <1>10
  <2>. QED  BY <1>7, <1>13, <2>1, NoClash
<1>15. \A j \in Walk(U, p)[Len(p)] : j \in DOMAIN U => j \in DOMAIN rows
  BY <1>3, <1>14
<1>. QED  BY <1>3, <1>15, AddedStands

(***************************************************************************)
(* A request that does not wait has its record changed.                    *)
(***************************************************************************)
LEMMA Ended ==
  ASSUME IInv, NEW r \in Requests, req[r].pc \in Holding, End(r)
  PROVE  req'[r] # req[r]
<1>1. req'[r] = Idle
  BY DEF End, IInv, Locking
<1>2. Idle.pc \notin Holding
  BY IdleAsks
<1>. QED  BY <1>1, <1>2

LEMMA Descended ==
  ASSUME IInv, NEW r \in Requests, At(r, "make"), NEW i, Descend(r, i)
  PROVE  req'[r] # req[r]
<1>1. PICK q : q = req[r]
  OBVIOUS
<1>2. q.pc = "make" /\ q.op \in {"folder", "file"} /\ Facts(q, rows, born, trashed) /\ Fields(q)
  BY <1>1, Making
<1>3. CASE End(r)
  BY <1>1, <1>2, <1>3, Ended DEF Holding
<1>4. CASE req' = [req EXCEPT ![r].at = i, ![r].left = Tail(@)]
  <2>1. q.left \in Seq(Names) /\ Len(q.left) >= 1
    BY <1>2 DEF Facts
  <2>2. q.left # <<>>
    BY <2>1
  <2>3. Len(Tail(q.left)) = Len(q.left) - 1 /\ Len(q.left) \in Nat
    BY <2>1, <2>2, HeadTailProperties
  <2>4. req'[r].left = Tail(q.left)
    <3>1. req = [s \in Requests |-> req[s]]
      BY DEF IInv, Locking
    <3>. QED  BY <1>1, <1>2, <1>4, <3>1 DEF Fields
  <2>5. Tail(q.left) # q.left
    <3>1. PICK a \in Nat : a = Len(q.left)
      BY <2>3
    <3>2. Len(Tail(q.left)) = a - 1 /\ a - 1 # a
      BY <2>3, <3>1
    <3>. QED  BY <3>1, <3>2
  <2>. QED  BY <1>1, <2>4, <2>5
<1>. QED  BY <1>3, <1>4 DEF Descend

(***************************************************************************)
(* Any step of another request.                                            *)
(***************************************************************************)
LEMMA LockedStands ==
  ASSUME IInv, Gathered, ~TornReads, Next, NEW r \in Requests, req[r].pc \in Holding, req'[r] = req[r],
         \A s \in Requests : ~Rename(s), NEW p \in locks[r]
  PROVE  Resolve(rows', p) = Resolve(rows, p)
<1>1. PICK s \in Requests : \/ Asked(s) \/ ReadOrigin(s) \/ ReadSource(s)
                            \/ Lock(s) \/ EnsureConsistency(s) \/ Transaction(s)
  BY DEF Next
<1>2. IInv'
  BY NextKeeps
<1>3. PICK U, C, N : U = rows' /\ C = born' /\ N = trashed'
  OBVIOUS
<1>4. Tree(U, C, N)
  BY <1>2, <1>3 DEF IInv
<1>5. CASE rows' = rows
  BY <1>5
<1>6. End(s) => s \in Requests \ {r}
  BY Ended
<1>7. CASE SoftDelete(s) /\ ~Refuse(s)
  <2>1. End(s) /\ UNCHANGED born
    BY <1>7, SoftDeleteIs
  <2>2. s \in Requests \ {r} /\ C = born
    BY <1>3, <1>6, <2>1
  <2>. QED  BY <1>3, <1>4, <1>7, <2>2, SoftDeleteStands
<1>8. CASE Delete(s)
  <2>1. s \in Requests \ {r}
    BY <1>6, <1>8 DEF Delete, Commit
  <2>. QED  BY <1>8, <2>1, DeleteStands
<1>9. CASE Move(s) /\ ~Refuse(s)
  <2>1. s \in Requests \ {r}
    BY <1>6, <1>9, MoveIs
  <2>. QED  BY <1>9, <2>1, MoveStands
<1>10. CASE Copy(s) /\ ~Refuse(s)
  <2>1. End(s) /\ UNCHANGED trashed
    BY <1>10, CopyIs
  <2>2. s \in Requests \ {r} /\ N = trashed
    BY <1>3, <1>6, <2>1
  <2>. QED  BY <1>3, <1>4, <1>10, <2>2, CopyStands
<1>11. ASSUME NEW folder, At(s, "make"), Parent(s), Made(s) = {}, Insert(s, folder)
       PROVE  Resolve(rows', p) = Resolve(rows, p)
  <2>1. PICK i : Descend(s, i) /\ UNCHANGED trashed
    BY <1>11 DEF Insert
  <2>2. s \in Requests \ {r} /\ N = trashed
    BY <1>3, <1>11, <2>1, Descended
  <2>. QED  BY <1>3, <1>4, <1>11, <2>2, InsertStands
<1>12. Refuse(s) => rows' = rows
  BY DEF Refuse
<1>13. CASE CreateFolder(s)
  BY <1>5, <1>11, <1>12, <1>13 DEF CreateFolder
<1>14. CASE CreateFile(s)
  BY <1>5, <1>11, <1>12, <1>14 DEF CreateFile
<1>15. CASE Asked(s)
  <2>1. PICK x : Begin(s, x)
    <3>1. PICK op, path :
            \/ \E name : ReadTarget(s, op, path, name)
            \/ ReadAncestor(s, op, path)
            \/ \E dst : ReadDestination(s, op, path, dst)
            \/ ReadTrash(s, op, path)
      BY <1>15 DEF Asked
    <3>2. ASSUME NEW name, ReadTarget(s, op, path, name) PROVE \E x : Begin(s, x)
      BY <3>2 DEF ReadTarget
    <3>3. ASSUME ReadAncestor(s, op, path) PROVE \E x : Begin(s, x)
      BY <3>3 DEF ReadAncestor
    <3>4. ASSUME NEW dst, ReadDestination(s, op, path, dst) PROVE \E x : Begin(s, x)
      BY <3>4 DEF ReadDestination
    <3>5. ASSUME ReadTrash(s, op, path) PROVE \E x : Begin(s, x)
      BY <3>5 DEF ReadTrash
    <3>. QED  BY <3>1, <3>2, <3>3, <3>4, <3>5
  <2>. QED  BY <1>5, <2>1 DEF Begin
<1>16. CASE ReadOrigin(s)
  BY <1>5, <1>12, <1>16 DEF ReadOrigin, Step
<1>17. CASE ReadSource(s)
  BY <1>5, <1>12, <1>17 DEF ReadSource, Step
<1>18. CASE Lock(s)
  BY <1>5, <1>12, <1>18 DEF Lock
<1>19. CASE EnsureConsistency(s)
  BY <1>5, <1>12, <1>19 DEF EnsureConsistency, Step
<1>21. WalkBelow(s) => rows' = rows
  BY DEF WalkBelow, Step
<1>20. CASE Transaction(s)
  BY <1>5, <1>7, <1>21, <1>8, <1>9, <1>10, <1>12, <1>13, <1>14, <1>20 DEF Transaction
<1>. QED  BY <1>1, <1>15, <1>16, <1>17, <1>18, <1>19, <1>20

(***************************************************************************)
(* What is at a path a request has locked (acquireByPath) stays there, or  *)
(* stays away, whatever others do, except for a rename of something above. *)
(***************************************************************************)
THEOREM OthersLeaveLockedPaths == ~TornReads => (Spec => LockedPathsStand)
<1>. SUFFICES ASSUME ~TornReads PROVE Spec => LockedPathsStand
  OBVIOUS
<1>1. Init => IInv /\ Gathered
  BY InitHolds
<1>2. IInv /\ Gathered /\ [Next]_vars => IInv' /\ Gathered'
  BY NextKeeps
<1>3. IInv /\ Gathered /\ [Next]_vars =>
        [\A r \in Requests : req[r].pc \in {"check", "commit", "remove", "make"} /\ req'[r] = req[r]
          /\ (\A s \in Requests : ~Rename(s))
        => \A p \in locks[r] : Resolve(rows', p) = Resolve(rows, p)]_vars
  BY LockedStands DEF Holding
<1>. QED  BY <1>1, <1>2, <1>3, PTL DEF Spec, LockedPathsStand

(***************************************************************************)
(* A destination below what is moved would have it on its own path.        *)
(***************************************************************************)
LEMMA OutOfItself ==
  ASSUME IInv, NEW r \in Requests, Move(r), rows' # rows
  PROVE  req[r].at \notin Below(req[r].target)
<1>1. PICK q, t : q = req[r] /\ t = q.target
  OBVIOUS
<1>2. ~Refuse(r)
  BY DEF Refuse
<1>3. Tree(rows, born, trashed) /\ q.at \in DOMAIN rows /\ t \in DOMAIN rows
  BY <1>1, <1>2, MoveIs DEF IInv
<1>4. Named(q.dst) /\ t # Root /\ q.at \in Walk(rows, q.dst)[Len(q.dst)] /\ Avoiding(rows, q.dst, t)
  <2>1. Op(r, "move")
    BY DEF Move
  <2>. QED  BY <1>1, <1>3, <2>1, Moving
<1>5. SUFFICES ASSUME q.at \in Sub(rows, t) PROVE FALSE
  BY <1>1, BelowIsSub
<1>6. t # None
  BY <1>3, TreeGrounded DEF Grounded
<1>7. PICK n, i : n = Len(q.dst) /\ i = q.at
  OBVIOUS
<1>8. n \in 1 .. Len(q.dst) /\ i \in Walk(rows, q.dst)[n] /\ i \in Sub(rows, t)
  BY <1>4, <1>5, <1>7 DEF Named
<1>9. \E k \in 1 .. n : t \in Walk(rows, q.dst)[k]
  BY <1>3, <1>4, <1>6, <1>8, SubOnWay
<1>. QED  BY <1>4, <1>7, <1>9 DEF Avoiding

(***************************************************************************)
(* "cannot move or copy folder to itself or its descendant": a move puts no*)
(* folder into itself or below, if what it read shows each file at one path*)
(* (manage.go:622 compares paths only).                                    *)
(***************************************************************************)
THEOREM WholeReadsKeepOutOfItself == ~TornReads => (Spec => NotIntoItself)
<1>. SUFFICES ASSUME ~TornReads PROVE Spec => NotIntoItself
  OBVIOUS
<1>1. Init => IInv /\ Gathered
  BY InitHolds
<1>2. IInv /\ Gathered /\ [Next]_vars => IInv' /\ Gathered'
  BY NextKeeps
<1>3. IInv /\ [Next]_vars =>
        [\A r \in Requests : Move(r) /\ rows' # rows => req[r].at \notin Below(req[r].target)]_vars
  BY OutOfItself
<1>. QED  BY <1>1, <1>2, <1>3, PTL DEF Spec, NotIntoItself
=============================================================================
