----------------------------- MODULE MCMemLock -----------------------------
EXTENDS MemLockRepeat, TLC

CONSTANTS root, dir, file, other

\* "/", "/dir", "/dir/file" and "/other"
MCPaths == {root, dir, file, other}
MCAbove == (root :> {}) @@ (dir :> {root}) @@ (file :> {dir, root}) @@ (other :> {root})

Symmetry == Permutations(Tokens) \cup Permutations(Clients)
=============================================================================
