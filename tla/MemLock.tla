------------------------------ MODULE MemLock ------------------------------
(***************************************************************************)
(* The lock system of pkg/filemanager/lock (memlock.go) and the requests   *)
(* of pkg/filemanager/fs/dbfs, WebDAV and the viewers that use it.         *)
(*                                                                         *)
(* One mutex guards the lock system, so that one call at a time runs; what *)
(* a call does is a sequence of steps here (collect an expired lock, make  *)
(* one lock of a batch, take one back), and the time a call sees is the    *)
(* one its caller read. A path stands for its node: the node is there as   *)
(* long as its refCount is not 0. A namespace is a tree of its own, so one *)
(* of them is modelled; details of a node without a token are never read.  *)
(***************************************************************************)
EXTENDS Integers, Sequences, FiniteSets

CONSTANTS
  Paths,     \* cleaned paths of a namespace
  Above,     \* path -> the paths from its parent to "/"
  Tokens,    \* lock tokens
  Clients,   \* requests being handled
  NoToken, NoPath, NoClient,
  MaxBatch,  \* bound: paths of one call
  Forced     \* may a user unlock what another request holds

ASSUME LockAssumption ==
  /\ IsFiniteSet(Paths)
  /\ Above \in [Paths -> SUBSET Paths]
  /\ \A p \in Paths : p \notin Above[p] /\ \A q \in Above[p] : Above[q] \subseteq Above[p]
  /\ NoToken \notin Tokens /\ NoPath \notin Paths /\ NoClient \notin Clients
  /\ MaxBatch \in Nat \ {0} /\ Forced \in BOOLEAN

VARIABLES
  token,       \* node.token
  refCount,    \* node.refCount, 0 where there is no node
  childLocks,  \* keys of node.childLocks
  byToken,     \* memLS.byToken, as the path of the node
  zeroDepth,   \* nodes whose details.ZeroDepth is set
  finite,      \* nodes whose details.Duration is not negative
  held,        \* nodes with held set
  byExpiry,    \* nodes in the heap memLS.byExpiry
  overdue,     \* nodes whose expiry has passed
  call,        \* the call that has the mutex
  state, mine, \* what a request does; the locks of its session's last frame
  kept,        \* tokens handed out: upload sessions, WebDAV clients, viewers
  left,        \* history: locks of a session whose Release failed
  forced       \* history: a user has unlocked what another request holds

index == <<token, refCount, childLocks, byToken>>
details == <<zeroDepth, finite>>
times == <<held, byExpiry, overdue>>
users == <<state, mine, kept, left, forced>>
vars == <<token, refCount, childLocks, byToken, zeroDepth, finite, held,
          byExpiry, overdue, call, state, mine, kept, left, forced>>

Request == [path : Paths, zeroDepth : BOOLEAN, finite : BOOLEAN]
Ops == {"none", "operate", "keep", "unlock", "confirm", "refresh"}

\* want: LockDetails to create, LockInfo to confirm, duration to refresh;
\* nodes: the locks made so far, or the ones to be removed
Call == [who : Clients \cup {NoClient}, op : Ops,
         step : {"none", "collect", "act", "remove"},
         want : Seq(Request), tokens : Seq(Tokens), nodes : Seq(Paths)]

NoCall == [who |-> NoClient, op |-> "none", step |-> "none",
           want |-> <<>>, tokens |-> <<>>, nodes |-> <<>>]

Elements(s) == {s[i] : i \in DOMAIN s}

Injective(s) == \A i, j \in DOMAIN s : s[i] = s[j] => i = j

TypeOK ==
  /\ token \in [Paths -> Tokens \cup {NoToken}]
  /\ refCount \in [Paths -> Nat]
  /\ childLocks \in [Paths -> SUBSET Tokens]
  /\ byToken \in [Tokens -> Paths \cup {NoPath}]
  /\ zeroDepth \subseteq Paths /\ finite \subseteq Paths
  /\ held \subseteq Paths /\ byExpiry \subseteq Paths /\ overdue \subseteq Paths
  /\ call \in Call
  /\ state \in [Clients -> {"idle", "working", "holding"}]
  /\ mine \in [Clients -> Seq(Tokens)]
  /\ kept \subseteq Tokens /\ left \subseteq Tokens /\ forced \in BOOLEAN

Init ==
  /\ token = [p \in Paths |-> NoToken] /\ refCount = [p \in Paths |-> 0]
  /\ childLocks = [p \in Paths |-> {}] /\ byToken = [t \in Tokens |-> NoPath]
  /\ zeroDepth = {} /\ finite = {}
  /\ held = {} /\ byExpiry = {} /\ overdue = {}
  /\ call = NoCall
  /\ state = [c \in Clients |-> "idle"] /\ mine = [c \in Clients |-> <<>>]
  /\ kept = {} /\ left = {} /\ forced = FALSE

(***************************************************************************)
(* The tree.                                                               *)
(***************************************************************************)

\* Mutant: only the locked node is counted.
LinkUncounted(p, t) ==
  /\ token' = [token EXCEPT ![p] = t]
  /\ byToken' = [byToken EXCEPT ![t] = p]
  /\ refCount' = [refCount EXCEPT ![p] = @ + 1]
  /\ childLocks' = [q \in Paths |-> IF q \in Above[p]
                                    THEN childLocks[q] \cup {t} ELSE childLocks[q]]

\* memLS.create: give p the token t and count it on the way to the root
Link(p, t) ==
  /\ token' = [token EXCEPT ![p] = t]
  /\ byToken' = [byToken EXCEPT ![t] = p]
  /\ refCount' = [q \in Paths |-> IF q = p \/ q \in Above[p]
                                  THEN refCount[q] + 1 ELSE refCount[q]]
  /\ childLocks' = [q \in Paths |-> IF q \in Above[p]
                                    THEN childLocks[q] \cup {t} ELSE childLocks[q]]

\* one reference less on the way from p to the root; a node without any goes
Discount(p) ==
  /\ refCount' = [q \in Paths |-> IF q = p \/ q \in Above[p]
                                  THEN refCount[q] - 1 ELSE refCount[q]]
  /\ childLocks' = [q \in Paths |->
        IF q # p /\ q \notin Above[p] THEN childLocks[q]
        ELSE IF refCount[q] = 1 THEN {} ELSE childLocks[q] \ {token[p]}]

\* memLS.remove
Unlink(p) ==
  /\ token' = [token EXCEPT ![p] = NoToken]
  /\ byToken' = [byToken EXCEPT ![token[p]] = NoPath]
  /\ Discount(p)
  /\ zeroDepth' = zeroDepth \ {p} /\ finite' = finite \ {p}
  /\ byExpiry' = byExpiry \ {p} /\ overdue' = overdue \ {p}
  /\ UNCHANGED held

\* Mutant: a lock with infinite depth ignores the locks below it.
CanCreateAbove(r) ==
  /\ token[r.path] = NoToken
  /\ \A a \in Above[r.path] : token[a] = NoToken \/ a \in zeroDepth

\* canCreate, which refuses by naming conflicts: none named is no refusal
CanCreate(r) ==
  /\ token[r.path] = NoToken
  /\ \/ refCount[r.path] > 0 /\ ~r.zeroDepth /\ childLocks[r.path] = {}
     \/ /\ refCount[r.path] = 0 \/ r.zeroDepth
        /\ \A a \in Above[r.path] : token[a] = NoToken \/ a \in zeroDepth

\* lookup for one token
Covers(t, p) ==
  LET q == byToken[t] IN
  /\ q # NoPath /\ q \notin held
  /\ q = p \/ (q \notin zeroDepth /\ q \in Above[p])

(***************************************************************************)
(* A call takes the mutex, removes what has expired, and acts.             *)
(***************************************************************************)
Enter(c, o, w, ts) ==
  /\ call = NoCall
  /\ call' = [who |-> c, op |-> o, step |-> "collect",
              want |-> w, tokens |-> ts, nodes |-> <<>>]
  /\ UNCHANGED <<index, details, times>>

Return == call' = NoCall

\* collectExpiredNodes
Collect ==
  /\ call.step = "collect"
  /\ \/ /\ \E p \in byExpiry \cap overdue : Unlink(p)
        /\ UNCHANGED call
     \/ /\ byExpiry \cap overdue = {}
        /\ call' = [call EXCEPT !.step = "act"]
        /\ UNCHANGED <<index, details, times>>
  /\ UNCHANGED users

\* a token no one has: uuid.NewV4
Fresh == {t \in Tokens : /\ byToken[t] = NoPath /\ t \notin kept \cup left
                         /\ \A c \in Clients : t \notin Elements(mine[c])}

Acting(os) == call.step = "act" /\ call.op \in os

\* Mutant: after a conflict the locks made so far stay.
CreateOneKeeping ==
  /\ Acting({"operate", "keep"}) /\ Len(call.nodes) < Len(call.want)
  /\ LET r == call.want[Len(call.nodes) + 1]  p == r.path IN
     \/ /\ CanCreate(r)
        /\ \E t \in Fresh : Link(p, t)
        /\ zeroDepth' = IF r.zeroDepth THEN zeroDepth \cup {p} ELSE zeroDepth
        /\ finite' = IF r.finite THEN finite \cup {p} ELSE finite
        /\ byExpiry' = IF r.finite THEN byExpiry \cup {p} ELSE byExpiry
        /\ call' = [call EXCEPT !.nodes = Append(@, p)]
        /\ UNCHANGED <<held, overdue>>
     \/ ~CanCreate(r) /\ Return /\ UNCHANGED <<index, details, times>>
  /\ UNCHANGED users

\* Create: the loop over details
CreateOne ==
  /\ Acting({"operate", "keep"}) /\ Len(call.nodes) < Len(call.want)
  /\ LET r == call.want[Len(call.nodes) + 1]  p == r.path IN
     \/ /\ CanCreate(r)
        /\ \E t \in Fresh : Link(p, t)
        /\ zeroDepth' = IF r.zeroDepth THEN zeroDepth \cup {p} ELSE zeroDepth
        /\ finite' = IF r.finite THEN finite \cup {p} ELSE finite
        /\ byExpiry' = IF r.finite THEN byExpiry \cup {p} ELSE byExpiry
        /\ call' = [call EXCEPT !.nodes = Append(@, p)]
        /\ UNCHANGED <<held, overdue>>
     \/ /\ ~CanCreate(r)
        /\ call' = [call EXCEPT !.step = "remove"]
        /\ UNCHANGED <<index, details, times>>
  /\ UNCHANGED users

\* Create returns the tokens: to an operation that unlocks them when it is
\* done, or to a session that keeps them (Exclude, WebDAV LOCK, WOPI)
Granted ==
  LET c == call.who  made == [i \in DOMAIN call.nodes |-> token[call.nodes[i]]] IN
  /\ Acting({"operate", "keep"}) /\ Len(call.nodes) = Len(call.want)
  /\ Return
  /\ IF call.op = "keep"
     THEN kept' = kept \cup Elements(made) /\ UNCHANGED <<state, mine>>
     ELSE /\ state' = [state EXCEPT ![c] = "working"]
          /\ mine' = [mine EXCEPT ![c] = made] /\ UNCHANGED kept
  /\ UNCHANGED <<index, details, times, left, forced>>

\* what the caller of Unlock does when it returns: a request is done with its
\* session, a client forgets tokens without a lock
Answered(done) ==
  LET c == call.who  ts == Elements(call.tokens)
      gone == {t \in ts : byToken[t] = NoPath} IN
  /\ state' = [state EXCEPT ![c] = "idle"] /\ mine' = [mine EXCEPT ![c] = <<>>]
  /\ kept' = kept \ gone
  /\ left' = (IF state[c] = "working" /\ ~done THEN left \cup ts ELSE left) \ gone
  /\ UNCHANGED forced

\* Unlock: look every token up before any lock is removed
Examine ==
  LET node(i) == byToken[call.tokens[i]] IN
  /\ Acting({"unlock"})
  /\ \/ /\ \A i \in DOMAIN call.tokens : node(i) # NoPath /\ node(i) \notin held
        /\ call' = [call EXCEPT !.step = "remove",
                                !.nodes = [i \in DOMAIN call.tokens |-> node(i)]]
        /\ UNCHANGED users
     \/ /\ \E i \in DOMAIN call.tokens : node(i) = NoPath \/ node(i) \in held
        /\ Return /\ Answered(FALSE)
  /\ UNCHANGED <<index, details, times>>

\* the loops that remove locks: of Unlock, and of Create after a conflict
RemoveOne ==
  /\ call.step = "remove" /\ call.nodes # <<>>
  /\ token[Head(call.nodes)] # NoToken /\ Unlink(Head(call.nodes))
  /\ call' = [call EXCEPT !.nodes = Tail(@)]
  /\ UNCHANGED users

Removed ==
  /\ call.step = "remove" /\ call.nodes = <<>>
  /\ Return
  /\ IF call.op = "unlock" THEN Answered(TRUE) ELSE UNCHANGED users
  /\ UNCHANGED <<index, details, times>>

\* Confirm: hold the lock, off the heap, until the request is done
Confirm ==
  LET c == call.who  t == call.tokens[1]  q == byToken[t] IN
  /\ Acting({"confirm"}) /\ Return
  /\ \/ /\ Covers(t, call.want[1].path)
        /\ held' = held \cup {q} /\ byExpiry' = byExpiry \ {q}
        /\ state' = [state EXCEPT ![c] = "holding"]
        /\ mine' = [mine EXCEPT ![c] = <<t>>]
        /\ UNCHANGED <<overdue, kept, left, forced>>
     \/ ~Covers(t, call.want[1].path) /\ Answered(FALSE) /\ UNCHANGED times
  /\ UNCHANGED <<index, details>>

\* Refresh: a new duration, which may be infinite, from now on
Refresh ==
  LET q == byToken[call.tokens[1]] IN
  /\ Acting({"refresh"}) /\ Return /\ Answered(FALSE)
  /\ \/ /\ q # NoPath /\ q \notin held
        /\ overdue' = overdue \ {q}
        /\ IF call.want[1].finite
           THEN finite' = finite \cup {q} /\ byExpiry' = byExpiry \cup {q}
           ELSE finite' = finite \ {q} /\ byExpiry' = byExpiry \ {q}
     \/ (q = NoPath \/ q \in held) /\ UNCHANGED <<finite, overdue, byExpiry>>
  /\ UNCHANGED <<index, zeroDepth, held>>

\* Mutant: a lock that was held never expires again.
UnholdOffHeap(c) ==
  /\ call = NoCall /\ state[c] = "holding"
  /\ held' = held \ {byToken[mine[c][1]]}
  /\ state' = [state EXCEPT ![c] = "idle"] /\ mine' = [mine EXCEPT ![c] = <<>>]
  /\ UNCHANGED <<index, details, byExpiry, overdue, call, kept, left, forced>>

\* the function Confirm returned: it takes the mutex and collects nothing
Unhold(c) ==
  LET q == byToken[mine[c][1]] IN
  /\ call = NoCall /\ state[c] = "holding"
  /\ held' = held \ {q}
  /\ byExpiry' = IF q \in finite THEN byExpiry \cup {q} ELSE byExpiry
  /\ state' = [state EXCEPT ![c] = "idle"] /\ mine' = [mine EXCEPT ![c] = <<>>]
  /\ UNCHANGED <<index, details, overdue, call, kept, left, forced>>

\* now passes the expiry of p; calls in progress have read their time
Expire(p) ==
  /\ call = NoCall /\ p \in finite \ overdue
  /\ overdue' = overdue \cup {p}
  /\ UNCHANGED <<index, details, held, byExpiry, call, users>>

(***************************************************************************)
(* The calls requests make.                                                *)
(***************************************************************************)
Idle(c) == state[c] = "idle" /\ UNCHANGED users

Sequences(S) == UNION {[1 .. n -> S] : n \in 1 .. MaxBatch}

\* acquireByPath: locks of one depth, without an end, on all of the targets;
\* the model has a token left for each
Operate(c) ==
  \E ps \in Sequences(Paths), zero \in BOOLEAN :
    /\ Idle(c) /\ Len(ps) <= Cardinality(Fresh)
    /\ Enter(c, "operate",
             [i \in DOMAIN ps |-> [path |-> ps[i], zeroDepth |-> zero, finite |-> FALSE]],
             <<>>)

\* a lock that outlives its request
Keep(c) ==
  \E r \in Request : Idle(c) /\ Fresh # {} /\ Enter(c, "keep", <<r>>, <<>>)

\* DBFS.Release, deferred by every operation
Release(c) ==
  /\ state[c] = "working" /\ Enter(c, "unlock", <<>>, mine[c])
  /\ UNCHANGED users

\* a client gives back locks it was handed
Discard(c) ==
  \E ts \in Sequences(kept) :
    Idle(c) /\ Injective(ts) /\ Enter(c, "unlock", <<>>, ts)

\* a user unlocks what an operation has locked or left locked: the token came
\* with the conflict
ForceUnlock(c) ==
  \E t \in (left \cup UNION {Elements(mine[d]) : d \in Clients}) \ kept :
    /\ Forced /\ state[c] = "idle"
    /\ Enter(c, "unlock", <<>>, <<t>>)
    /\ forced' = TRUE /\ UNCHANGED <<state, mine, kept, left>>

AskConfirm(c) ==
  \E t \in kept, p \in Paths :
    Idle(c) /\ Enter(c, "confirm", <<[path |-> p, zeroDepth |-> FALSE, finite |-> FALSE]>>, <<t>>)

AskRefresh(c) ==
  \E t \in kept, r \in Request :
    Idle(c) /\ ~r.zeroDepth /\ Enter(c, "refresh", <<r>>, <<t>>)

CallStep ==
  Collect \/ CreateOne \/ Granted \/ Examine \/ RemoveOne \/ Removed
  \/ Confirm \/ Refresh

ClientStep(c) ==
  Operate(c) \/ Keep(c) \/ Release(c) \/ Discard(c) \/ ForceUnlock(c)
  \/ AskConfirm(c) \/ AskRefresh(c) \/ Unhold(c)

Next ==
  \/ CallStep
  \/ \E c \in Clients : ClientStep(c)
  \/ \E p \in Paths : Expire(p)

Spec == Init /\ [][Next]_vars

-----------------------------------------------------------------------------
Locked == {p \in Paths : token[p] # NoToken}

\* the locked nodes at or below q, and strictly below it
Under(q) == {p \in Locked : p = q \/ q \in Above[p]}
Below(q) == {p \in Locked : q \in Above[p]}

\* The counters a lock request is answered from agree with the locks there
\* are: refCount is "the number of self-or-descendent nodes that are
\* explicitly locked", childLocks has exactly their tokens, byToken finds
\* the node of every token, and the heap has exactly the locks that can
\* expire and that no request holds.
IndexesAgree ==
  /\ \A q \in Paths : refCount[q] = Cardinality(Under(q))
  /\ \A q \in Paths : childLocks[q] = {token[p] : p \in Below(q)}
  /\ \A t \in Tokens, p \in Paths : byToken[t] = p <=> token[p] = t
  /\ byExpiry = (Locked \cap finite) \ held

\* No lock without an end is forgotten: one that nobody was handed belongs to
\* a running request, to the call being answered, or was left behind by a
\* Release that failed, which takes a user who unlocked part of it before.
NoOrphanLock ==
  /\ \A p \in Locked :
       \/ token[p] \in kept \cup left \/ p \in Elements(call.nodes)
       \/ \E c \in Clients : token[p] \in Elements(mine[c])
  /\ left # {} => forced

(***************************************************************************)
(* The lock system implements PathLocks. A lock is in force from the end   *)
(* of the call that makes it until it is removed or, unless it is held,    *)
(* until its time is up, collected or not.                                 *)
(***************************************************************************)
Pending == IF call.op \in {"operate", "keep"} THEN call.nodes ELSE <<>>

InForce ==
  {p \in Locked : p \notin (byExpiry \cap overdue) \cup Elements(Pending)}

LockOf(p) == [path |-> p, zeroDepth |-> p \in zeroDepth]

Abstract == INSTANCE PathLocks WITH
  locks <- {LockOf(p) : p \in InForce},
  asked <- IF call.op \in {"operate", "keep"}
           THEN [i \in DOMAIN call.want |-> [path |-> call.want[i].path,
                                             zeroDepth |-> call.want[i].zeroDepth]]
           ELSE <<>>

\* With requests, expiries and forced unlocks in any order: no two locks in
\* force clash, a batch is granted as a whole or leaves nothing, a request is
\* refused only for a lock that is in force, and no lock goes while it is held.
Implements == Abstract!Spec
=============================================================================
