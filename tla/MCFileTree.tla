---------------------------- MODULE MCFileTree ----------------------------
(* Symmetry for model checking: ids, names and requests are alike.           *)
EXTENDS FileTree

Alike == Permutations(Ids) \cup Permutations(Names) \cup Permutations(Requests)
=============================================================================
