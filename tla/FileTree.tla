------------------------------ MODULE FileTree ------------------------------
(* The tree of an owner's files, as the operations of fs/dbfs/manage.go on   *)
(* the rows of inventory/file.go make it.  An operation reads the files it   *)
(* is about with no lock, locks their paths, compares what it had read with  *)
(* the database (ensureConsistency) and runs one transaction on it, or       *)
(* several.  A transaction is one step, but that a delete lists first.       *)
EXTENDS Naturals, Sequences, FiniteSets, SequencesExt

CONSTANTS Ids, Root,     \* ids of rows that can be made; the user's root folder
          Names, Requests, None,
          Depth,         \* bound: names that a new path adds to the tree
          TornReads,     \* whether a file may have two paths in what a move reads
          Calls,         \* operations that are called
          MaxCalls       \* bound: operations in all

Operations == {"folder", "file", "rename", "trash", "delete", "move", "copy"}

ASSUME TreeAssumption ==
    /\ IsFiniteSet(Ids) /\ Root \notin Ids /\ None \notin Ids \cup Nat /\ None # Root
    /\ IsFiniteSet(Names) /\ Names \cap Nat = {} /\ None \notin Seq(Names \cup {Root})
    /\ Names \cap (Ids \cup {Root, None}) = {}
    /\ Depth \in Nat /\ MaxCalls \in Nat /\ TornReads \in BOOLEAN
    /\ Calls \subseteq Operations

VARIABLES
    rows,     \* id -> the row of a file or folder that is in the database
    born,     \* ids given out so far
    trashed,  \* names drawn for files in the trash so far: 1, 2, ...
    locks,    \* request -> the paths it has locked
    req,      \* what a request does, and what it has read
    calls

vars == <<rows, born, trashed, locks, req, calls>>

Live == DOMAIN rows

(* A path begins with where its walk begins: the root of the user or, for    *)
(* the trash, no row at all, as what is in the trash has no parent.          *)
Paths == {<<Root>> \o names : names \in UNION {[1 .. n -> Names] : n \in 0 .. Depth}}
TrashPaths == {<<None, n>> : n \in 1 .. trashed}

(* restore is the metadata of a file in the trash: the path it had.          *)
Row(parent, name, folder) ==
    [parent |-> parent, name |-> name, folder |-> folder, restore |-> None]

(* One table over another.                                                   *)
Over(f, g) == [i \in DOMAIN f \cup DOMAIN g |-> IF i \in DOMAIN f THEN f[i] ELSE g[i]]

(* What is in some folders under a name; a table is the database, or what    *)
(* was read of it.                                                           *)
Entries(table, folders, name) ==
    {i \in DOMAIN table : table[i].parent \in folders /\ table[i].name = name}

Child(parent, name) == Entries(rows, {parent}, name)

(* The walk down a path, name by name.                                       *)
Walk(table, path) ==
    LET at[n \in Nat] == IF n <= 1 THEN {path[1]} ELSE Entries(table, at[n - 1], path[n])
    IN  at

Resolve(table, path) == Walk(table, path)[Len(path)]

(* What was read: a file and its ancestors.                                  *)
Seen(table, path) ==
    Restrict(table, DOMAIN table \cap UNION {Walk(table, path)[n] : n \in 1 .. Len(path)})

(* A file with what is in it, and in what is in it.                          *)
Below(i) ==
    {j \in Live : \A S \in SUBSET (Live \cup {i}) :
        i \in S /\ (\A k \in Live : rows[k].parent \in S => k \in S) => j \in S}

Idle == [pc |-> "idle", op |-> None, src |-> <<>>, dst |-> <<>>, name |-> None,
         target |-> None, at |-> None, seen |-> <<>>, got |-> None, left |-> <<>>]

Init ==
    /\ \E x, y \in Ids, n, m \in Names, parent \in Ids \cup {Root}, folder \in BOOLEAN :
          /\ x # y /\ parent \in {x, Root} /\ (parent = Root => n # m)
          /\ rows = [i \in {Root, x, y} |-> CASE i = Root -> Row(None, None, TRUE)
                                              [] i = x -> Row(Root, n, TRUE)
                                              [] i = y -> Row(parent, m, folder)]
          /\ born = {x, y}
    /\ trashed = 0
    /\ locks = [r \in Requests |-> {}]
    /\ req = [r \in Requests |-> Idle]
    /\ calls = 0

-----------------------------------------------------------------------------
(* Reading: getFileByPath, with no lock.                                     *)

At(r, pc) == req[r].pc = pc

Begin(r, record) ==
    /\ calls' = calls + 1
    /\ req' = [req EXCEPT ![r] = record]
    /\ UNCHANGED <<rows, born, trashed, locks>>

(* Rename, SoftDelete and Delete, of a file or folder that is not the root;  *)
(* what is in the trash can be deleted.                                      *)
ReadTarget(r, op, path, name) ==
    /\ op \in {"rename", "trash", "delete"} /\ (path \in TrashPaths => op = "delete")
    /\ \E t \in Resolve(rows, path) \cap (Live \ {Root}) :
          /\ IF op = "rename" THEN name \in Names \ {rows[t].name} ELSE name = None
          /\ Begin(r, [Idle EXCEPT !.pc = "lock", !.op = op, !.src = path, !.name = name,
                                   !.target = t, !.seen = Seen(rows, path), !.got = rows[t]])

(* Create reads the closest ancestor of a path where nothing is.             *)
ReadAncestor(r, op, path) ==
    /\ op \in {"folder", "file"} /\ path \in Paths
    /\ \E n \in 1 .. Len(path) - 1 : LET above == SubSeq(path, 1, n) IN
          \E a \in Resolve(rows, above) :
             /\ Child(a, path[n + 1]) = {}
             /\ Begin(r, [Idle EXCEPT !.pc = "lock", !.op = op, !.src = path, !.at = a,
                                      !.seen = Seen(rows, above),
                                      !.left = SubSeq(path, n + 1, Len(path))])

(* MoveOrCopy reads the destination, then the source.                        *)
ReadDestination(r, op, path, dst) ==
    /\ op \in {"move", "copy"} /\ dst \in Paths /\ (path \in TrashPaths => op = "move")
    /\ \E d \in Resolve(rows, dst) :
          /\ rows[d].folder
          /\ Begin(r, [Idle EXCEPT !.pc = "source", !.op = op, !.src = path, !.dst = dst,
                                   !.at = d, !.seen = Seen(rows, dst)])

(* Restore reads a file in the trash for where it was, and then moves it.    *)
ReadTrash(r, op, path) ==
    /\ op = "move" /\ path \in TrashPaths
    /\ \E t \in Resolve(rows, path) :
          Begin(r, [Idle EXCEPT !.pc = "destination", !.op = "move",
                                !.src = path, !.dst = Front(rows[t].restore)])

Step(r, record) ==
    /\ req' = [req EXCEPT ![r] = record]
    /\ UNCHANGED <<rows, born, trashed, locks, calls>>

(* The operation is over, well or not; its locks are given up.               *)
End(r) ==
    /\ req' = [req EXCEPT ![r] = Idle]
    /\ locks' = [locks EXCEPT ![r] = {}]
    /\ UNCHANGED calls

Refuse(r) == End(r) /\ UNCHANGED <<rows, born, trashed>>

ReadOrigin(r) ==
    /\ At(r, "destination")
    /\ \/ \E d \in Resolve(rows, req[r].dst) :
            /\ rows[d].folder
            /\ Step(r, [req[r] EXCEPT !.pc = "source", !.at = d,
                                      !.seen = Seen(rows, req[r].dst)])
       \/ /\ \A d \in Resolve(rows, req[r].dst) : ~rows[d].folder
          /\ Refuse(r)

(* The folders read for the destination are cached: as far as the path of    *)
(* the source is the same, it is walked on them, whatever has become of      *)
(* them, and what has their name now is not seen.                            *)
Cached(q) ==
    DOMAIN q.seen \cap UNION {Walk(q.seen, q.dst)[n] :
        n \in {m \in 1 .. Len(q.dst) : m < Len(q.src) /\ SubSeq(q.src, 1, m) = SubSeq(q.dst, 1, m)}}
Hidden(q) ==
    {i \in Live : \E c \in Cached(q) :
        q.seen[c].parent = rows[i].parent /\ q.seen[c].name = rows[i].name}
Database(q) ==
    IF q.src[1] = None THEN rows
    ELSE Over(Restrict(q.seen, Cached(q)), Restrict(rows, Live \ Hidden(q)))

(* ensureConsistency takes the ancestors of the source first, and leaves     *)
(* those of the destination from the first one on that it has already.       *)
NotYet(q, chain) ==
    UNION {Walk(q.seen, q.dst)[n] : n \in {m \in 1 .. Len(q.dst) :
        \A k \in m .. Len(q.dst) : Walk(q.seen, q.dst)[k] \cap DOMAIN chain = {}}}
Both(q, chain) == Over(chain, Restrict(q.seen, NotYet(q, chain)))

Torn(q, chain) ==
    \E i \in DOMAIN q.seen \cap DOMAIN chain :
        q.seen[i].parent # chain[i].parent \/ q.seen[i].name # chain[i].name

(* A folder goes neither into itself nor below, as the two paths tell.  A    *)
(* copy does not lock its source.                                            *)
ReadSource(r) ==
    /\ At(r, "source")
    /\ LET q == req[r]
           table == Database(q)
           chain == Seen(table, q.src)
           found == Resolve(table, q.src) \cap (DOMAIN table \ {Root})
           into(t) == table[t].folder /\ IsPrefix(q.src, q.dst)
       IN  \/ \E t \in found :
                /\ ~into(t)
                /\ TornReads \/ ~Torn(q, chain)
                /\ Step(r, [q EXCEPT !.pc = "lock", !.target = t, !.got = table[t],
                                     !.seen = IF q.op = "copy" THEN @ ELSE Both(q, chain)])
           \/ /\ \A t \in found : into(t)
              /\ Refuse(r)

-----------------------------------------------------------------------------
(* Locking: acquireByPath.                                                   *)

(* Mutant: the new name of what is moved is not locked, but for a copy.      *)
WantedOfSource(r) ==
    IF req[r].op = "copy" THEN <<Append(req[r].dst, req[r].got.name)>> ELSE <<req[r].src>>

(* The paths an operation locks.  A file from the trash has two names.       *)
Wanted(r) ==
    LET q == req[r]
        into == Append(q.dst, q.got.name)
    IN  CASE q.op = "copy" -> <<into>>
          [] q.op = "move" /\ q.got.restore = None -> <<q.src, into>>
          [] q.op = "move" /\ q.got.restore # None ->
                <<q.src, Append(q.dst, Last(q.got.restore)), into>>
          [] OTHER -> <<q.src>>

(* Locks cover what is below; so one path clashes with another above it.     *)
Clash(p, q) == IsPrefix(p, q) \/ IsPrefix(q, p)

Grantable(wanted) ==
    /\ \A i \in DOMAIN wanted, s \in Requests : \A p \in locks[s] : ~Clash(wanted[i], p)
    /\ \A i, j \in DOMAIN wanted : i # j => ~Clash(wanted[i], wanted[j])

Lock(r) ==
    /\ At(r, "lock")
    /\ IF Grantable(Wanted(r))
       THEN /\ locks' = [locks EXCEPT ![r] = {Wanted(r)[i] : i \in DOMAIN Wanted(r)}]
            /\ req' = [req EXCEPT ![r].pc = "check"]
            /\ UNCHANGED <<rows, born, trashed, calls>>
       ELSE Refuse(r)

(* ensureConsistency: rows that are gone are not missed.  The mutant         *)
(* compares the file itself, and not its ancestors.                          *)
Same(r, i) ==
    rows[i].name = req[r].seen[i].name /\ rows[i].parent = req[r].seen[i].parent
ConsistentItself(r) ==
    \A i \in DOMAIN req[r].seen \cap {req[r].target, req[r].at} \cap Live : Same(r, i)
Consistent(r) == \A i \in DOMAIN req[r].seen \cap Live : Same(r, i)

EnsureConsistency(r) ==
    /\ At(r, "check")
    /\ IF Consistent(r)
       THEN Step(r, [req[r] EXCEPT !.pc = IF req[r].op \in {"folder", "file"}
                                          THEN "make" ELSE "commit"])
       ELSE Refuse(r)

-----------------------------------------------------------------------------
(* Transactions.                                                             *)

Op(r, op) == At(r, "commit") /\ req[r].op = op
Commit(r) == End(r)

(* The new name is not locked: the database has the names of a folder unique.*)
Rename(r) ==
    /\ Op(r, "rename")
    /\ LET t == req[r].target
       IN  IF t \in Live /\ Child(rows[t].parent, req[r].name) = {}
           THEN /\ rows' = [rows EXCEPT ![t].name = req[r].name]
                /\ Commit(r) /\ UNCHANGED <<born, trashed>>
           ELSE Refuse(r)

SoftDelete(r) ==
    /\ Op(r, "trash")
    /\ LET t == req[r].target
       IN  IF t \in Live
           THEN /\ rows' = [rows EXCEPT ![t].parent = None, ![t].name = trashed + 1,
                                        ![t].restore = req[r].src]
                /\ trashed' = trashed + 1
                /\ Commit(r) /\ UNCHANGED born
           ELSE Refuse(r)

(* What is in a folder is listed, and what was listed is deleted.  Others    *)
(* come between: the foreign key leaves a row whose parent is deleted        *)
(* without one.                                                              *)
WalkBelow(r) ==
    /\ Op(r, "delete")
    /\ Step(r, [req[r] EXCEPT !.pc = "remove", !.seen = Restrict(rows, Below(req[r].target))])

Without(gone) ==
    [i \in Live \ gone |-> IF rows[i].parent \in gone THEN [rows[i] EXCEPT !.parent = None]
                           ELSE rows[i]]

Delete(r) ==
    /\ At(r, "remove")
    /\ rows' = Without(DOMAIN req[r].seen)
    /\ Commit(r) /\ UNCHANGED <<born, trashed>>

(* SetParent, and for a file from the trash its old name: a foreign key      *)
(* wants the destination, the update of a name wants the row.                *)
Move(r) ==
    /\ Op(r, "move")
    /\ LET t == req[r].target
           back == req[r].got.restore
           moved == [rows[t] EXCEPT !.parent = req[r].at]
           row == IF back = None THEN moved
                  ELSE [moved EXCEPT !.name = Last(back), !.restore = None]
       IN  IF /\ req[r].at \in Live /\ (back # None => t \in Live)
              /\ t \in Live => Child(req[r].at, row.name) \subseteq {t}
           THEN /\ rows' = IF t \in Live THEN [rows EXCEPT ![t] = row] ELSE rows
                /\ Commit(r) /\ UNCHANGED <<born, trashed>>
           ELSE Refuse(r)

(* The source as it was read, and what is in it now.  Rows, like the         *)
(* capacity of the user, may not suffice.                                    *)
Source(r) == {req[r].target} \cup Below(req[r].target)

CopyRow(r, new, i) ==
    LET q == req[r]
        row == IF i = q.target THEN q.got ELSE rows[i]
    IN  Row(IF i = q.target THEN q.at ELSE new[row.parent], row.name, row.folder)

Copy(r) ==
    /\ Op(r, "copy")
    /\ IF /\ req[r].at \in Live
          /\ Child(req[r].at, req[r].got.name) = {}
          /\ Cardinality(Source(r)) <= Cardinality(Ids \ born)
       THEN \E new \in [Source(r) -> Ids \ born] :
              /\ IsInjective(new)
              /\ rows' = Over(rows, [n \in {new[i] : i \in Source(r)} |->
                            CopyRow(r, new, CHOOSE i \in Source(r) : new[i] = n)])
              /\ born' = born \cup {new[i] : i \in Source(r)}
              /\ Commit(r) /\ UNCHANGED trashed
       ELSE Refuse(r)

(* Create goes down the path it wants, one transaction for each name.  A     *)
(* folder is inserted unless something of its name is there, which is then   *)
(* taken for it, be it a file.                                               *)
Made(r) == Child(req[r].at, Head(req[r].left))

Descend(r, i) ==
    IF Len(req[r].left) = 1 THEN End(r)
    ELSE /\ req' = [req EXCEPT ![r].at = i, ![r].left = Tail(@)]
         /\ UNCHANGED <<locks, calls>>

Insert(r, folder) ==
    \E i \in Ids \ born :
        /\ rows' = Over(rows, [n \in {i} |-> Row(req[r].at, Head(req[r].left), folder)])
        /\ born' = born \cup {i}
        /\ Descend(r, i)
        /\ UNCHANGED trashed

Parent(r) == req[r].at \in Live /\ rows[req[r].at].folder

CreateFolder(r) ==
    /\ At(r, "make") /\ (req[r].op = "folder" \/ Len(req[r].left) > 1)
    /\ IF Parent(r)
       THEN \/ \E i \in Made(r) : Descend(r, i) /\ UNCHANGED <<rows, born, trashed>>
            \/ Made(r) = {} /\ Insert(r, TRUE)
       ELSE Refuse(r)

CreateFile(r) ==
    /\ At(r, "make") /\ req[r].op = "file" /\ Len(req[r].left) = 1
    /\ IF Parent(r) /\ Made(r) = {} THEN Insert(r, FALSE) ELSE Refuse(r)

-----------------------------------------------------------------------------
Asked(r) ==
    /\ At(r, "idle") /\ calls < MaxCalls
    /\ \E op \in Calls, path \in Paths \cup TrashPaths :
          \/ \E name \in Names \cup {None} : ReadTarget(r, op, path, name)
          \/ ReadAncestor(r, op, path)
          \/ \E dst \in Paths : ReadDestination(r, op, path, dst)
          \/ ReadTrash(r, op, path)

Transaction(r) ==
    \/ Rename(r) \/ SoftDelete(r) \/ WalkBelow(r) \/ Delete(r) \/ Move(r) \/ Copy(r)
    \/ CreateFolder(r) \/ CreateFile(r)

Next == \E r \in Requests :
    \/ Asked(r) \/ ReadOrigin(r) \/ ReadSource(r)
    \/ Lock(r) \/ EnsureConsistency(r) \/ Transaction(r)

Spec == Init /\ [][Next]_vars

-----------------------------------------------------------------------------
TypeOK ==
    /\ Root \in Live /\ Live \subseteq born \cup {Root} /\ born \subseteq Ids
    /\ \A i \in Live :
          /\ rows[i].parent \in Ids \cup {Root, None}
          /\ rows[i].name \in Names \cup (1 .. trashed) \cup {None}
          /\ rows[i].folder \in BOOLEAN
    /\ trashed \in 0 .. MaxCalls /\ calls \in 0 .. MaxCalls
    /\ \A r \in Requests :
          /\ req[r].pc \in {"idle", "destination", "source", "lock", "check", "commit", "remove", "make"}
          /\ req[r].op \in Operations \cup {None}
          /\ {req[r].target, req[r].at} \subseteq Ids \cup {Root, None}

(* Whatever is moved, deleted, restored and made at the same time, every     *)
(* file is in a folder, and going up one comes to the user's root or to a    *)
(* file in the trash, which knows where it was: there is no cycle (two moves *)
(* of folders into each other), and nothing is lost below a folder that is   *)
(* deleted meanwhile.                                                        *)
Rooted ==
    /\ \A S \in (SUBSET Live) \ {{}} : \E i \in S : rows[i].parent \notin S
    /\ \A i \in Live : IF rows[i].parent = None THEN i = Root \/ rows[i].restore # None
                       ELSE rows[i].parent \in Live /\ rows[rows[i].parent].folder

(* When its transactions run, what an operation has read is still where the  *)
(* operation was asked for it, if it is there at all, although it was read   *)
(* before the paths were locked.  Only the source of a copy may have moved.  *)
StillThere ==
    \A r \in Requests :
        LET q == req[r] IN
        /\ q.pc \in {"commit", "remove"} /\ q.target \in Live /\ q.op # "copy" =>
              Resolve(rows, q.src) = {q.target}
        /\ q.pc = "commit" /\ q.at \in Live => Resolve(rows, q.dst) = {q.at}
        /\ q.pc = "make" /\ q.at \in Live =>
              Resolve(rows, SubSeq(q.src, 1, Len(q.src) - Len(q.left))) = {q.at}

(* What is at a path that a request has locked stays there, or stays away,   *)
(* whatever other requests do: but for a rename, which does not lock the new *)
(* name, and gives a path that is locked what the renamed folder has there.  *)
LockedPathsStand ==
    [][\A r \in Requests : req[r].pc \in {"check", "commit", "remove", "make"} /\ req'[r] = req[r]
          /\ (\A s \in Requests : ~Rename(s))
        => \A p \in locks[r] : Resolve(rows', p) = Resolve(rows, p)]_vars

(* "cannot move or copy folder to itself or its descendant" (manage.go:622): *)
(* a move does not put a folder into itself, or into what is in it.          *)
NotIntoItself ==
    [][\A r \in Requests : Move(r) /\ rows' # rows => req[r].at \notin Below(req[r].target)]_vars

(* Comment: "File with the same name but different type already exist"       *)
(* (manage.go:55), which is an error: who asks for a folder gets a folder.   *)
FolderMeansFolder ==
    [][\A r \in Requests : CreateFolder(r) /\ Parent(r) /\ Len(req[r].left) = 1
        => \E i \in Live' : /\ rows'[i].parent = req[r].at /\ rows'[i].name = Head(req[r].left)
                            /\ rows'[i].folder]_vars
=============================================================================
