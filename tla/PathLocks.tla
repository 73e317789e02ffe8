----------------------------- MODULE PathLocks -----------------------------
(***************************************************************************)
(* What the lock system of pkg/filemanager/lock promises, with no tree of  *)
(* reference counts, token index or expiry heap in sight: a set of locks   *)
(* no two of which clash, a request for several paths that is granted as a *)
(* whole or refused as a whole, and refused only for a lock that is there, *)
(* a confirmed lock that nothing takes away, and locks that lapse.         *)
(***************************************************************************)
EXTENDS Naturals, Sequences

CONSTANTS Paths, Above

VARIABLES
  locks,  \* the locks in force
  held,   \* paths whose lock is confirmed by a running request
  asked   \* locks asked for by the call that is being answered

vars == <<locks, held, asked>>

Lock == [path : Paths, zeroDepth : BOOLEAN]

Clash(a, b) ==
  \/ a.path = b.path
  \/ b.path \in Above[a.path] /\ ~b.zeroDepth
  \/ a.path \in Above[b.path] /\ ~a.zeroDepth

Grantable ==
  /\ \A i \in DOMAIN asked, l \in locks : ~Clash(asked[i], l)
  /\ \A i, j \in DOMAIN asked : i # j => ~Clash(asked[i], asked[j])

Init == locks = {} /\ held = {} /\ asked = <<>>

Ask ==
  /\ asked = <<>> /\ asked' \in Seq(Lock)
  /\ UNCHANGED <<locks, held>>

Grant ==
  /\ Grantable
  /\ locks' = locks \cup {asked[i] : i \in DOMAIN asked}
  /\ asked' = <<>> /\ UNCHANGED held

Refuse == ~Grantable /\ asked' = <<>> /\ UNCHANGED <<locks, held>>

\* by an unlock or by expiry
Drop(gone) ==
  /\ gone \subseteq locks /\ \A l \in gone : l.path \notin held
  /\ locks' = locks \ gone
  /\ UNCHANGED <<held, asked>>

Hold(l) == l.path \notin held /\ held' = held \cup {l.path} /\ UNCHANGED <<locks, asked>>

\* a lock whose time ran out while it was held lapses with the release
Unhold(l) ==
  /\ l.path \in held /\ held' = held \ {l.path}
  /\ locks' \in {locks, locks \ {l}} /\ UNCHANGED asked

Next ==
  \/ Ask \/ Grant \/ Refuse
  \/ \E gone \in SUBSET locks : Drop(gone)
  \/ \E l \in locks : Hold(l) \/ Unhold(l)

Spec == Init /\ [][Next]_vars
=============================================================================
