---------------------------- MODULE MCTaskQueue ----------------------------
EXTENDS TaskQueue, TLC

Symmetry == Permutations(Tasks) \cup Permutations(Workers) \cup Permutations(Callers)
=============================================================================
