--------------------------- MODULE MemLockRepeat ---------------------------
(***************************************************************************)
(* MemLock with a call of Unlock that names a token twice: the handler of  *)
(* the request to unlock files (service/explorer/file.go) passes on the    *)
(* list it is sent. Unlock looks every token up before it removes a lock,  *)
(* so the second one finds the node as well.                               *)
(***************************************************************************)
EXTENDS MemLock

UnlockTwice(c) ==
  \E t \in kept : Idle(c) /\ Enter(c, "unlock", <<>>, <<t, t>>)

\* remove of a node whose lock is gone: what is left of it is counted down
\* again. With no node left the handler panics, which ends the call.
RemoveAgain ==
  LET p == Head(call.nodes) IN
  /\ call.step = "remove" /\ call.nodes # <<>> /\ token[p] = NoToken
  /\ \/ /\ refCount[p] > 0 /\ Discount(p)
        /\ call' = [call EXCEPT !.nodes = Tail(@)]
        /\ UNCHANGED <<token, byToken, users>>
     \/ refCount[p] = 0 /\ Return /\ Answered(FALSE) /\ UNCHANGED index
  /\ UNCHANGED <<details, times>>

RepeatSpec ==
  Init /\ [][Next \/ RemoveAgain \/ \E c \in Clients : UnlockTwice(c)]_vars

\* "refCount is the number of self-or-descendent nodes that are explicitly
\* locked", whatever a caller passes to Unlock. The code does not keep it:
\* a token named twice is counted down twice on every node that stays.
RefCountExact == \A q \in Paths : refCount[q] = Cardinality(Under(q))
=============================================================================
