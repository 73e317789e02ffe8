------------------------------ MODULE Debounce ------------------------------
(* The merging of a subscriber's buffered events, DebounceEvents of          *)
(* pkg/filemanager/eventhub/event.go, and what a client makes of an event.   *)
(* A path relative to the subscribed folder is an element of Names.          *)
EXTENDS Naturals, Sequences, SequencesExt

CONSTANTS Files, Names, None

Types == {"create", "modify", "rename", "delete"}

Event == [type : Types, file : Files, from : Names, to : Names \cup {None}]

EventOf(type, f, from, to) ==
    [type |-> type, file |-> f, from |-> from, to |-> to]

(* Mutant: a file that was created and renamed keeps its first name.         *)
FoldKeepsName(state, e) ==
    CASE e.type = "create" /\ state.type = "delete" -> e
      [] e.type = "rename" /\ state.type = "modify" -> e
      [] e.type = "rename" /\ state.type = "rename" ->
            IF state.from = e.to THEN None ELSE [state EXCEPT !.to = e.to]
      [] e.type = "delete" /\ state.type = "create" -> None
      [] e.type = "delete" /\ state.type \in {"modify", "rename"} -> e
      [] OTHER -> state

(* A Modify leaves every accumulated state as it is; so do the pairs of      *)
(* types the code calls impossible.  None: the file is dropped.              *)
Fold(state, e) ==
    CASE e.type = "create" /\ state.type = "delete" -> e
      [] e.type = "rename" /\ state.type = "create" ->
            [state EXCEPT !.from = e.to, !.to = None]
      [] e.type = "rename" /\ state.type = "modify" -> e
      [] e.type = "rename" /\ state.type = "rename" ->
            IF state.from = e.to THEN None ELSE [state EXCEPT !.to = e.to]
      [] e.type = "delete" /\ state.type = "create" -> None
      [] e.type = "delete" /\ state.type \in {"modify", "rename"} -> e
      [] OTHER -> state

(* The states in the order of first appearance.  A file that was dropped is  *)
(* new again when its next event comes.                                      *)
Merge(states, e) ==
    LET known == {i \in DOMAIN states : states[i].file = e.file}
    IN  IF known = {} THEN Append(states, e)
        ELSE LET i == CHOOSE j \in known : TRUE
                 state == Fold(states[i], e)
             IN  IF state = None THEN RemoveAt(states, i)
                 ELSE [states EXCEPT ![i] = state]

DebounceEvents(in) == FoldLeft(Merge, <<>>, in)

(* The client keeps its listing by file identifier; a Modify makes it fetch  *)
(* the content again and leaves the listing alone.                           *)
Apply(view, e) ==
    [view EXCEPT ![e.file] = CASE e.type = "create" -> e.from
                               [] e.type = "rename" -> e.to
                               [] e.type = "delete" -> None
                               [] e.type = "modify" -> @]

(* Deleted, brought back, and deleted again in one batch.                    *)
DeletedTwice(in, f) ==
    \E i, j, k \in {n \in DOMAIN in : in[n].file = f} :
        /\ i < j /\ j < k
        /\ in[i].type = "delete" /\ in[j].type = "create" /\ in[k].type = "delete"
=============================================================================
