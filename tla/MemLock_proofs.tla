--------------------------- MODULE MemLock_proofs ---------------------------
(***************************************************************************)
(* Proofs about the lock system, for any tree of paths, any tokens and any *)
(* requests: its indexes, who has a lock, and what it implements.          *)
(*                                                                         *)
(* The counter of a node is the cardinality of the set of locks at or      *)
(* below it. Making a lock adds one element to that set for the nodes on   *)
(* the way to the root and removing it takes one away; the token index is  *)
(* a bijection, so that the lists of tokens lose exactly one token.        *)
(***************************************************************************)
EXTENDS MemLock, FiniteSetTheorems, TLAPS

\* the parts of IndexesAgree
Counted == \A q \in Paths : refCount[q] = Cardinality(Under(q))
Listed == \A q \in Paths : childLocks[q] = {token[p] : p \in Below(q)}
Found == \A t \in Tokens, p \in Paths : byToken[t] = p <=> token[p] = t
Heaped == byExpiry = (Locked \cap finite) \ held

\* the variables of the tree, the counter an integer only
TreeTyped ==
  /\ token \in [Paths -> Tokens \cup {NoToken}]
  /\ refCount \in [Paths -> Int]
  /\ childLocks \in [Paths -> SUBSET Tokens]
  /\ byToken \in [Tokens -> Paths \cup {NoPath}]

OnWay(p) == Above[p] \cup {p}

LEMMA UnderFinite ==
  ASSUME NEW q
  PROVE  IsFiniteSet(Under(q)) /\ Cardinality(Under(q)) \in Nat
<1>1. Under(q) \subseteq Paths
  BY DEF Under, Locked
<1>. QED
  BY <1>1, FS_Subset, FS_CardinalityType, LockAssumption DEF LockAssumption

(***************************************************************************)
(* memLS.create keeps the indexes.                                         *)
(***************************************************************************)
LEMMA LinkLocks ==
  ASSUME TreeTyped, NEW p \in Paths, NEW t \in Tokens, Link(p, t)
  PROVE  /\ Locked' = Locked \cup {p}
         /\ token'[p] = t
         /\ \A x \in Paths \ {p} : token'[x] = token[x]
         /\ TreeTyped'
<1>. USE LockAssumption DEF LockAssumption, Link, TreeTyped
<1>1. token'[p] = t /\ t # NoToken
  OBVIOUS
<1>2. \A x \in Paths \ {p} : token'[x] = token[x]
  OBVIOUS
<1>3. Locked' = Locked \cup {p}
  BY <1>1, <1>2 DEF Locked
<1>4. refCount' \in [Paths -> Int]
  OBVIOUS
<1>5. childLocks' \in [Paths -> SUBSET Tokens]
  OBVIOUS
<1>. QED
  BY <1>1, <1>2, <1>3, <1>4, <1>5

LEMMA LinkAgrees ==
  ASSUME TreeTyped, Counted, Listed, Found,
         NEW p \in Paths, NEW t \in Tokens,
         token[p] = NoToken, byToken[t] = NoPath, Link(p, t)
  PROVE  Counted' /\ Listed' /\ Found'
<1>. USE LockAssumption DEF LockAssumption
<1>1. /\ Locked' = Locked \cup {p} /\ token'[p] = t
      /\ \A x \in Paths \ {p} : token'[x] = token[x]
  BY LinkLocks
<1>2. p \notin Locked
  BY DEF Locked
<1>3. Counted'
  <2>. SUFFICES ASSUME NEW q \in Paths
                PROVE  refCount'[q] = Cardinality(Under(q)')
    BY DEF Counted
  <2>1. CASE q \in OnWay(p)
    <3>1. Under(q)' = Under(q) \cup {p}
      BY <1>1, <2>1 DEF Under, OnWay, Locked
    <3>2. p \notin Under(q)
      BY <1>2 DEF Under
    <3>3. Cardinality(Under(q) \cup {p}) = Cardinality(Under(q)) + 1
      BY <3>2, UnderFinite, FS_AddElement
    <3>4. refCount'[q] = refCount[q] + 1
      BY <2>1 DEF Link, OnWay
    <3>. QED  BY <3>1, <3>3, <3>4 DEF Counted
  <2>2. CASE q \notin OnWay(p)
    <3>1. Under(q)' = Under(q)
      BY <1>1, <2>2 DEF Under, OnWay, Locked
    <3>2. refCount'[q] = refCount[q]
      BY <2>2 DEF Link, OnWay
    <3>. QED  BY <3>1, <3>2 DEF Counted
  <2>. QED  BY <2>1, <2>2
<1>4. Listed'
  <2>. SUFFICES ASSUME NEW q \in Paths
                PROVE  childLocks'[q] = {token'[x] : x \in Below(q)'}
    BY DEF Listed
  <2>1. \A x \in Below(q) : x \in Paths \ {p}
    BY <1>2 DEF Below, Locked
  <2>2. {token'[x] : x \in Below(q)} = childLocks[q]
    BY <1>1, <2>1 DEF Listed
  <2>3. CASE q \in Above[p]
    <3>1. Below(q)' = Below(q) \cup {p}
      BY <1>1, <2>3 DEF Below
    <3>2. childLocks'[q] = childLocks[q] \cup {t}
      BY <2>3 DEF Link
    <3>. QED  BY <1>1, <2>2, <3>1, <3>2
  <2>4. CASE q \notin Above[p]
    <3>1. Below(q)' = Below(q)
      BY <1>1, <2>4 DEF Below
    <3>2. childLocks'[q] = childLocks[q]
      BY <2>4 DEF Link
    <3>. QED  BY <2>2, <3>1, <3>2
  <2>. QED  BY <2>3, <2>4
<1>5. Found'
  <2>. SUFFICES ASSUME NEW u \in Tokens, NEW x \in Paths
                PROVE  byToken'[u] = x <=> token'[x] = u
    BY DEF Found
  <2>1. byToken'[t] = p /\ (u # t => byToken'[u] = byToken[u])
    BY DEF Link, TreeTyped
  <2>2. token[x] # t
    BY DEF Found, TreeTyped
  <2>3. token[p] # u /\ byToken[u] # p
    BY DEF Found, TreeTyped
  <2>. QED  BY <1>1, <2>1, <2>2, <2>3 DEF Found
<1>. QED  BY <1>3, <1>4, <1>5

(***************************************************************************)
(* memLS.remove keeps the indexes.                                         *)
(***************************************************************************)
LEMMA UnlinkLocks ==
  ASSUME TreeTyped, NEW p \in Paths, token[p] \in Tokens, Unlink(p)
  PROVE  /\ Locked' = Locked \ {p}
         /\ token'[p] = NoToken
         /\ \A x \in Paths \ {p} : token'[x] = token[x]
         /\ TreeTyped'
<1>. USE LockAssumption DEF LockAssumption, Unlink, Discount, TreeTyped
<1>1. token'[p] = NoToken /\ \A x \in Paths \ {p} : token'[x] = token[x]
  OBVIOUS
<1>2. Locked' = Locked \ {p}
  BY <1>1 DEF Locked
<1>3. token' \in [Paths -> Tokens \cup {NoToken}]
  OBVIOUS
<1>4. byToken' \in [Tokens -> Paths \cup {NoPath}]
  OBVIOUS
<1>5. refCount' \in [Paths -> Int]
  OBVIOUS
<1>6. childLocks' \in [Paths -> SUBSET Tokens]
  OBVIOUS
<1>. QED
  BY <1>1, <1>2, <1>3, <1>4, <1>5, <1>6

LEMMA UnlinkAgrees ==
  ASSUME TreeTyped, Counted, Listed, Found,
         NEW p \in Paths, token[p] \in Tokens, Unlink(p)
  PROVE  Counted' /\ Listed' /\ Found'
<1>. USE LockAssumption DEF LockAssumption
<1>1. /\ Locked' = Locked \ {p} /\ token'[p] = NoToken
      /\ \A x \in Paths \ {p} : token'[x] = token[x]
  BY UnlinkLocks
<1>2. p \in Locked
  BY DEF Locked
<1>3. Counted'
  <2>. SUFFICES ASSUME NEW q \in Paths
                PROVE  refCount'[q] = Cardinality(Under(q)')
    BY DEF Counted
  <2>1. CASE q \in OnWay(p)
    <3>1. Under(q)' = Under(q) \ {p}
      BY <1>1, <2>1 DEF Under
    <3>2. p \in Under(q)
      BY <1>2, <2>1 DEF Under, OnWay
    <3>3. Cardinality(Under(q) \ {p}) = Cardinality(Under(q)) - 1
      BY <3>2, UnderFinite, FS_RemoveElement
    <3>4. refCount'[q] = refCount[q] - 1
      BY <2>1 DEF Unlink, Discount, OnWay
    <3>. QED  BY <3>1, <3>3, <3>4 DEF Counted
  <2>2. CASE q \notin OnWay(p)
    <3>1. Under(q)' = Under(q)
      BY <1>1, <2>2 DEF Under, OnWay
    <3>2. refCount'[q] = refCount[q]
      BY <2>2 DEF Unlink, Discount, OnWay
    <3>. QED  BY <3>1, <3>2 DEF Counted
  <2>. QED  BY <2>1, <2>2
<1>4. Listed'
  <2>. SUFFICES ASSUME NEW q \in Paths
                PROVE  childLocks'[q] = {token'[x] : x \in Below(q)'}
    BY DEF Listed
  <2>1. \A x \in Below(q) : x \in Paths /\ (x # p => token'[x] = token[x] /\ token[x] # token[p])
    BY <1>1 DEF Below, Locked, Found, TreeTyped
  <2>2. Below(q)' = Below(q) \ {p}
    BY <1>1 DEF Below
  <2>3. CASE q \notin OnWay(p)
    <3>1. p \notin Below(q)
      BY <2>3 DEF Below, OnWay
    <3>2. childLocks'[q] = childLocks[q]
      BY <2>3 DEF Unlink, Discount, OnWay
    <3>. QED  BY <2>1, <2>2, <3>1, <3>2 DEF Listed
  <2>4. CASE q \in OnWay(p) /\ refCount[q] = 1
    <3>1. childLocks'[q] = {}
      BY <2>4 DEF Unlink, Discount, OnWay
    <3>2. p \in Under(q)
      BY <1>2, <2>4 DEF Under, OnWay
    <3>3. Cardinality(Under(q) \ {p}) = 0
      <4>1. Cardinality(Under(q)) = 1
        BY <2>4 DEF Counted
      <4>2. Cardinality(Under(q) \ {p}) = Cardinality(Under(q)) - 1
        BY <3>2, UnderFinite, FS_RemoveElement
      <4>. QED  BY <4>1, <4>2
    <3>4. Under(q) \ {p} = {}
      <4>1. IsFiniteSet(Under(q) \ {p})
        BY UnderFinite, FS_RemoveElement
      <4>. QED  BY <3>3, <4>1, FS_EmptySet
    <3>5. Below(q)' = {}
      BY <2>2, <3>4 DEF Below, Under
    <3>. QED  BY <3>1, <3>5
  <2>5. CASE q \in OnWay(p) /\ refCount[q] # 1
    <3>1. childLocks'[q] = childLocks[q] \ {token[p]}
      BY <2>5 DEF Unlink, Discount, OnWay
    <3>2. {token'[x] : x \in Below(q) \ {p}} = {token[x] : x \in Below(q)} \ {token[p]}
      BY <2>1
    <3>. QED  BY <2>2, <3>1, <3>2 DEF Listed
  <2>. QED  BY <2>3, <2>4, <2>5
<1>5. Found'
  <2>. SUFFICES ASSUME NEW u \in Tokens, NEW x \in Paths
                PROVE  byToken'[u] = x <=> token'[x] = u
    BY DEF Found
  <2>1. byToken'[token[p]] = NoPath /\ (u # token[p] => byToken'[u] = byToken[u])
    BY DEF Unlink, TreeTyped
  <2>2. byToken[token[p]] = p
    BY DEF Found
  <2>. QED  BY <1>1, <2>1, <2>2 DEF Found
<1>. QED  BY <1>3, <1>4, <1>5

LEMMA TreeKept ==
  ASSUME TreeTyped, Counted, Listed, Found, UNCHANGED index
  PROVE  TreeTyped' /\ Counted' /\ Listed' /\ Found' /\ Locked' = Locked
BY DEF index, TreeTyped, Counted, Listed, Found, Under, Below, Locked

(***************************************************************************)
(* The inductive invariant. What a call has made is locked and held by no  *)
(* one, what it is about to remove is not held, a lock that is not there   *)
(* is neither held nor can it expire.                                      *)
(***************************************************************************)
DetailsTyped ==
  /\ zeroDepth \subseteq Paths /\ finite \subseteq Paths
  /\ held \subseteq Paths /\ byExpiry \subseteq Paths /\ overdue \subseteq Paths

UsersTyped ==
  /\ state \in [Clients -> {"idle", "working", "holding"}]
  /\ mine \in [Clients -> Seq(Tokens)]
  /\ kept \subseteq Tokens /\ left \subseteq Tokens /\ forced \in BOOLEAN

Tree == TreeTyped /\ Counted /\ Listed /\ Found

CallInv ==
  /\ call \in Call
  /\ Elements(call.nodes) \cap held = {}
  /\ call.step = "collect" => call.nodes = <<>>
  /\ call.op \in {"operate", "keep"} /\ call.step = "act"
       => Elements(call.nodes) \subseteq Locked
  /\ call.op \in {"confirm", "refresh"} => call.want # <<>> /\ call.tokens # <<>>

Attached == finite \subseteq Locked /\ held \subseteq Locked

LockInv == Tree /\ DetailsTyped /\ UsersTyped /\ Heaped /\ Attached /\ CallInv

LEMMA ElementsIn ==
  ASSUME NEW S, NEW s \in Seq(S)
  PROVE  Elements(s) \subseteq S
BY DEF Elements

LEMMA ElementsMore ==
  ASSUME NEW S, NEW s \in Seq(S), NEW x \in S
  PROVE  Append(s, x) \in Seq(S) /\ Elements(Append(s, x)) = Elements(s) \cup {x}
<1>1. Append(s, x) \in Seq(S) /\ Len(Append(s, x)) = Len(s) + 1
  OBVIOUS
<1>2. \A i \in 1 .. Len(s) : Append(s, x)[i] = s[i]
  OBVIOUS
<1>3. Append(s, x)[Len(s) + 1] = x
  OBVIOUS
<1>4. DOMAIN Append(s, x) = (DOMAIN s) \cup {Len(s) + 1}
  BY <1>1
<1>. QED  BY <1>1, <1>2, <1>3, <1>4 DEF Elements

LEMMA ElementsLess ==
  ASSUME NEW S, NEW s \in Seq(S), s # <<>>
  PROVE  /\ Tail(s) \in Seq(S) /\ Head(s) \in S
         /\ Head(s) \in Elements(s) /\ Elements(Tail(s)) \subseteq Elements(s)
<1>1. Tail(s) \in Seq(S) /\ Head(s) = s[1] /\ 1 \in DOMAIN s /\ Head(s) \in S
  OBVIOUS
<1>2. \A i \in DOMAIN Tail(s) : i + 1 \in DOMAIN s /\ Tail(s)[i] = s[i + 1]
  OBVIOUS
<1>. QED  BY <1>1, <1>2 DEF Elements

LEMMA ElementsRest ==
  ASSUME NEW S, NEW s \in Seq(S), s # <<>>
  PROVE  Elements(s) \subseteq Elements(Tail(s)) \cup {Head(s)}
<1>. SUFFICES ASSUME NEW i \in DOMAIN s, i # 1
              PROVE  \E j \in DOMAIN Tail(s) : s[i] = Tail(s)[j]
  BY DEF Elements
<1>1. i - 1 \in DOMAIN Tail(s)
  OBVIOUS
<1>2. Tail(s)[i - 1] = s[i]
  OBVIOUS
<1>. QED  BY <1>1, <1>2

LEMMA ElementsNone == Elements(<<>>) = {}
BY DEF Elements

LEMMA InitHolds == Init => LockInv
<1>. SUFFICES ASSUME Init PROVE LockInv
  OBVIOUS
<1>. USE LockAssumption DEF LockAssumption, Init
<1>1. Locked = {}
  BY DEF Locked
<1>2. TreeTyped /\ Listed /\ Found
  BY <1>1 DEF TreeTyped, Listed, Found, Below
<1>3. Counted
  <2>. SUFFICES ASSUME NEW q \in Paths PROVE refCount[q] = Cardinality(Under(q))
    BY DEF Counted
  <2>1. Under(q) = {}
    BY <1>1 DEF Under
  <2>. QED  BY <2>1, FS_EmptySet
<1>4. DetailsTyped /\ Heaped /\ Attached
  BY DEF DetailsTyped, Heaped, Attached
<1>7. UsersTyped
  <2>1. <<>> \in Seq(Tokens)
    OBVIOUS
  <2>. QED  BY <2>1 DEF UsersTyped
<1>5. call \in Call
  BY DEF NoCall, Call, Ops
<1>6. CallInv
  BY <1>5, ElementsNone DEF NoCall, CallInv
<1>. QED  BY <1>2, <1>3, <1>4, <1>6, <1>7 DEF LockInv, Tree

LEMMA Settles ==
  ASSUME UsersTyped, call \in Call, NEW done \in BOOLEAN, Answered(done)
  PROVE  UsersTyped'
<1>1. Elements(call.tokens) \subseteq Tokens
  BY ElementsIn DEF Call
<1>2. kept' \subseteq Tokens /\ left' \subseteq Tokens
  BY <1>1 DEF Answered, UsersTyped
<1>3. state' \in [Clients -> {"idle", "working", "holding"}]
  BY DEF Answered, UsersTyped
<1>4. <<>> \in Seq(Tokens)
  OBVIOUS
<1>5. mine' \in [Clients -> Seq(Tokens)]
  BY <1>4 DEF Answered, UsersTyped
<1>. QED  BY <1>2, <1>3, <1>5 DEF Answered, UsersTyped

LEMMA Returned ==
  ASSUME Return
  PROVE  CallInv'
<1>1. NoCall \in Call
  BY DEF NoCall, Call, Ops
<1>. QED  BY <1>1, ElementsNone DEF Return, CallInv, NoCall

\* a call that leaves the locks and their times alone
LEMMA LocksKept ==
  ASSUME LockInv, UNCHANGED <<index, details, times>>
  PROVE  Tree' /\ DetailsTyped' /\ Heaped' /\ Attached' /\ Locked' = Locked
<1>1. Tree' /\ Locked' = Locked
  BY TreeKept DEF LockInv, Tree
<1>. QED
  BY <1>1 DEF LockInv, DetailsTyped, Heaped, Attached, details, times

LEMMA EnterStep ==
  ASSUME LockInv, NEW c \in Clients, NEW o \in Ops,
         NEW w \in Seq(Request), NEW ts \in Seq(Tokens),
         o \in {"confirm", "refresh"} => w # <<>> /\ ts # <<>>,
         Enter(c, o, w, ts), UsersTyped'
  PROVE  LockInv'
<1>1. call' \in Call
  BY DEF Enter, Call
<1>2. CallInv'
  BY <1>1, ElementsNone DEF Enter, CallInv
<1>. QED  BY <1>2, LocksKept DEF Enter, LockInv

LEMMA CollectStep == LockInv /\ Collect => LockInv'
<1>. SUFFICES ASSUME LockInv, Collect PROVE LockInv'
  OBVIOUS
<1>1. UsersTyped'
  BY DEF LockInv, UsersTyped, Collect, users
<1>2. ASSUME NEW p \in byExpiry \cap overdue, Unlink(p), UNCHANGED call
      PROVE  LockInv'
  <2>1. p \in Paths /\ token[p] \in Tokens /\ p \notin held
    BY <1>2 DEF LockInv, Heaped, Locked, Tree, TreeTyped
  <2>2. Tree' /\ Locked' = Locked \ {p}
    BY <1>2, <2>1, UnlinkLocks, UnlinkAgrees DEF LockInv, Tree
  <2>3. DetailsTyped' /\ Heaped' /\ Attached'
    BY <1>2, <2>1, <2>2 DEF LockInv, DetailsTyped, Heaped, Attached, Unlink
  <2>4. CallInv'
    BY <1>2 DEF LockInv, CallInv, Collect, Unlink
  <2>. QED  BY <1>1, <2>2, <2>3, <2>4 DEF LockInv
<1>3. CASE UNCHANGED <<index, details, times>> /\ call' = [call EXCEPT !.step = "act"]
  <2>1. call' \in Call /\ call'.nodes = <<>> /\ call'.step = "act"
        /\ call'.op = call.op /\ call'.want = call.want /\ call'.tokens = call.tokens
    BY <1>3 DEF LockInv, CallInv, Call, Collect
  <2>2. CallInv'
    BY <2>1, ElementsNone DEF LockInv, CallInv
  <2>. QED  BY <1>1, <1>3, <2>2, LocksKept DEF LockInv
<1>. QED  BY <1>2, <1>3 DEF Collect

LEMMA CreateStep == LockInv /\ CreateOne => LockInv'
<1>. SUFFICES ASSUME LockInv, CreateOne PROVE LockInv'
  OBVIOUS
<1>1. UsersTyped'
  BY DEF LockInv, UsersTyped, CreateOne, users
<1>2. call \in Call /\ call.step = "act" /\ call.op \in {"operate", "keep"}
  BY DEF LockInv, CallInv, CreateOne, Acting
<1> DEFINE r == call.want[Len(call.nodes) + 1]  p == r.path
<1>3. r \in Request /\ p \in Paths
  <2>1. call.want \in Seq(Request) /\ call.nodes \in Seq(Paths) /\ Len(call.nodes) < Len(call.want)
    BY <1>2 DEF Call, CreateOne
  <2>2. r \in Request
    BY <2>1
  <2>. QED  BY <2>2 DEF Request
<1>4. ASSUME CanCreate(r), NEW t \in Fresh, Link(p, t),
             zeroDepth' = IF r.zeroDepth THEN zeroDepth \cup {p} ELSE zeroDepth,
             finite' = IF r.finite THEN finite \cup {p} ELSE finite,
             byExpiry' = IF r.finite THEN byExpiry \cup {p} ELSE byExpiry,
             call' = [call EXCEPT !.nodes = Append(@, p)],
             UNCHANGED <<held, overdue>>
      PROVE  LockInv'
  <2>1. t \in Tokens /\ byToken[t] = NoPath /\ token[p] = NoToken
    BY <1>4 DEF Fresh, CanCreate
  <2>2. Tree' /\ Locked' = Locked \cup {p}
    BY <1>3, <1>4, <2>1, LinkLocks, LinkAgrees DEF LockInv, Tree
  <2>3. p \notin Locked /\ p \notin held /\ p \notin finite
    BY <2>1 DEF Locked, LockInv, Attached
  <2>4. DetailsTyped' /\ Heaped' /\ Attached'
    BY <1>3, <1>4, <2>2, <2>3 DEF LockInv, DetailsTyped, Heaped, Attached
  <2>5. Append(call.nodes, p) \in Seq(Paths)
        /\ Elements(Append(call.nodes, p)) = Elements(call.nodes) \cup {p}
    BY <1>2, <1>3, ElementsMore DEF Call
  <2>6. call' \in Call
    BY <1>2, <1>4, <2>5 DEF Call
  <2>7. Elements(call'.nodes) = Elements(call.nodes) \cup {p}
    BY <1>2, <1>4, <2>5 DEF Call
  <2>8. call'.step = "act" /\ call'.op = call.op
    BY <1>2, <1>4 DEF Call
  <2>9. Elements(call.nodes) \subseteq Locked /\ Elements(call.nodes) \cap held = {}
    BY <1>2 DEF LockInv, CallInv
  <2>10. CallInv'
    BY <1>2, <1>4, <2>2, <2>3, <2>6, <2>7, <2>8, <2>9 DEF CallInv
  <2>. QED  BY <1>1, <2>2, <2>4, <2>10 DEF LockInv
<1>5. CASE UNCHANGED <<index, details, times>> /\ call' = [call EXCEPT !.step = "remove"]
  <2>1. /\ call' \in Call /\ call'.nodes = call.nodes /\ call'.step = "remove"
        /\ call'.op = call.op /\ held' = held
    BY <1>2, <1>5 DEF Call, times
  <2>2. CallInv'
    BY <1>2, <2>1 DEF LockInv, CallInv
  <2>. QED  BY <1>1, <1>5, <2>2, LocksKept DEF LockInv
<1>. QED  BY <1>4, <1>5 DEF CreateOne

LEMMA GrantedStep == LockInv /\ Granted => LockInv'
<1>. SUFFICES ASSUME LockInv, Granted PROVE LockInv'
  OBVIOUS
<1> DEFINE made == [i \in DOMAIN call.nodes |-> token[call.nodes[i]]]
<1>1. /\ call \in Call /\ Elements(call.nodes) \subseteq Locked
      /\ call.nodes \in Seq(Paths)
  BY DEF LockInv, CallInv, Granted, Acting, Call
<1>2. \A i \in DOMAIN call.nodes : token[call.nodes[i]] \in Tokens
  BY <1>1 DEF Elements, Locked, LockInv, Tree, TreeTyped
<1>3. made \in Seq(Tokens)
  BY <1>1, <1>2
<1>4. Elements(made) \subseteq Tokens
  BY <1>3, ElementsIn
<1>5. UsersTyped'
  <2>1. state' \in [Clients -> {"idle", "working", "holding"}]
    BY DEF Granted, LockInv, UsersTyped
  <2>2. mine' \in [Clients -> Seq(Tokens)]
    BY <1>3 DEF Granted, LockInv, UsersTyped
  <2>3. kept' \subseteq Tokens
    BY <1>4 DEF Granted, LockInv, UsersTyped
  <2>. QED  BY <2>1, <2>2, <2>3 DEF Granted, LockInv, UsersTyped
<1>6. CallInv'
  BY Returned DEF Granted
<1>. QED  BY <1>5, <1>6, LocksKept DEF Granted, LockInv

LEMMA ExamineStep == LockInv /\ Examine => LockInv'
<1>. SUFFICES ASSUME LockInv, Examine PROVE LockInv'
  OBVIOUS
<1>1. call \in Call /\ call.op = "unlock" /\ call.step = "act"
  BY DEF LockInv, CallInv, Examine, Acting
<1> DEFINE ns == [i \in DOMAIN call.tokens |-> byToken[call.tokens[i]]]
<1>2. CASE /\ \A i \in DOMAIN call.tokens :
                byToken[call.tokens[i]] # NoPath /\ byToken[call.tokens[i]] \notin held
           /\ call' = [call EXCEPT !.step = "remove", !.nodes = ns]
           /\ UNCHANGED users
  <2>1. call.tokens \in Seq(Tokens)
    BY <1>1 DEF Call
  <2>2. \A i \in DOMAIN call.tokens : byToken[call.tokens[i]] \in Paths
    BY <1>2, <2>1 DEF LockInv, Tree, TreeTyped
  <2>3. ns \in Seq(Paths)
    BY <2>1, <2>2
  <2>4. /\ call' \in Call /\ call'.nodes = ns /\ call'.step = "remove"
        /\ call'.op = "unlock" /\ held' = held
    BY <1>1, <1>2, <2>3 DEF Call, Examine, times
  <2>5. Elements(ns) \cap held = {}
    BY <1>2 DEF Elements
  <2>6. CallInv'
    BY <2>4, <2>5 DEF CallInv
  <2>7. UsersTyped'
    BY <1>2 DEF users, LockInv, UsersTyped
  <2>. QED  BY <2>6, <2>7, LocksKept DEF Examine, LockInv
<1>3. CASE Return /\ Answered(FALSE)
  BY <1>1, <1>3, Settles, Returned, LocksKept DEF Examine, LockInv
<1>. QED  BY <1>2, <1>3 DEF Examine

LEMMA RemoveStep == LockInv /\ RemoveOne => LockInv'
<1>. SUFFICES ASSUME LockInv, RemoveOne PROVE LockInv'
  OBVIOUS
<1> DEFINE p == Head(call.nodes)
<1>1. call \in Call /\ call.step = "remove" /\ call.nodes \in Seq(Paths) /\ call.nodes # <<>>
  BY DEF LockInv, CallInv, RemoveOne, Call
<1>2. /\ p \in Paths /\ p \in Elements(call.nodes) /\ Tail(call.nodes) \in Seq(Paths)
      /\ Elements(Tail(call.nodes)) \subseteq Elements(call.nodes)
  BY <1>1, ElementsLess
<1>3. token[p] \in Tokens /\ p \notin held
  BY <1>2 DEF LockInv, Tree, TreeTyped, CallInv, RemoveOne
<1>4. Tree' /\ Locked' = Locked \ {p}
  BY <1>2, <1>3, UnlinkLocks, UnlinkAgrees DEF LockInv, Tree, RemoveOne
<1>5. DetailsTyped' /\ Heaped' /\ Attached'
  BY <1>3, <1>4 DEF LockInv, DetailsTyped, Heaped, Attached, Unlink, RemoveOne
<1>6. /\ call' \in Call /\ call'.nodes = Tail(call.nodes) /\ call'.step = "remove"
      /\ call'.op = call.op /\ call'.want = call.want /\ call'.tokens = call.tokens
  BY <1>1, <1>2 DEF Call, RemoveOne
<1>7. CallInv'
  BY <1>2, <1>6 DEF LockInv, CallInv, RemoveOne, Unlink
<1>8. UsersTyped'
  BY DEF RemoveOne, users, LockInv, UsersTyped
<1>. QED  BY <1>4, <1>5, <1>7, <1>8 DEF LockInv

LEMMA RemovedStep == LockInv /\ Removed => LockInv'
<1>. SUFFICES ASSUME LockInv, Removed PROVE LockInv'
  OBVIOUS
<1>1. UsersTyped'
  <2>1. CASE Answered(TRUE)
    BY <2>1, Settles DEF LockInv, CallInv
  <2>2. CASE UNCHANGED users
    BY <2>2 DEF users, LockInv, UsersTyped
  <2>. QED  BY <2>1, <2>2 DEF Removed
<1>. QED  BY <1>1, Returned, LocksKept DEF Removed, LockInv

LEMMA ConfirmStep == LockInv /\ Confirm => LockInv'
<1>. SUFFICES ASSUME LockInv, Confirm PROVE LockInv'
  OBVIOUS
<1> DEFINE t == call.tokens[1]  q == byToken[t]  r == call.want[1]
<1>1. call \in Call /\ call.tokens # <<>> /\ call.tokens \in Seq(Tokens)
  BY DEF LockInv, CallInv, Confirm, Acting, Call
<1>2. t \in Tokens
  BY <1>1
<1>3. Tree' /\ Locked' = Locked
  BY TreeKept DEF Confirm, LockInv, Tree
<1>4. CallInv'
  BY Returned DEF Confirm
<1>5. CASE /\ Covers(t, r.path)
           /\ held' = held \cup {q} /\ byExpiry' = byExpiry \ {q}
           /\ state' = [state EXCEPT ![call.who] = "holding"]
           /\ mine' = [mine EXCEPT ![call.who] = <<t>>]
           /\ UNCHANGED <<overdue, kept, left, forced>>
  <2>1. q \in Locked
    BY <1>2, <1>5, LockAssumption
       DEF LockAssumption, Covers, LockInv, Tree, TreeTyped, Found, Locked
  <2>2. DetailsTyped' /\ Heaped' /\ Attached'
    BY <1>3, <1>5, <2>1 DEF Confirm, details, LockInv, DetailsTyped, Heaped, Attached, Locked
  <2>3. <<t>> \in Seq(Tokens)
    BY <1>2
  <2>4. mine' \in [Clients -> Seq(Tokens)]
    BY <1>5, <2>3 DEF LockInv, UsersTyped
  <2>5. state' \in [Clients -> {"idle", "working", "holding"}]
    BY <1>5 DEF LockInv, UsersTyped
  <2>6. UsersTyped'
    BY <1>5, <2>4, <2>5 DEF LockInv, UsersTyped
  <2>. QED  BY <1>3, <1>4, <2>2, <2>6 DEF LockInv
<1>6. CASE Answered(FALSE) /\ UNCHANGED times
  BY <1>1, <1>4, <1>6, Settles, LocksKept DEF Confirm, LockInv
<1>. QED  BY <1>5, <1>6 DEF Confirm

LEMMA RefreshStep == LockInv /\ Refresh => LockInv'
<1>. SUFFICES ASSUME LockInv, Refresh PROVE LockInv'
  OBVIOUS
<1> DEFINE t == call.tokens[1]  q == byToken[t]
<1>1. call \in Call /\ call.tokens # <<>> /\ call.tokens \in Seq(Tokens)
  BY DEF LockInv, CallInv, Refresh, Acting, Call
<1>2. t \in Tokens
  BY <1>1
<1>3. Tree' /\ Locked' = Locked
  BY TreeKept DEF Refresh, LockInv, Tree
<1>4. CallInv' /\ UsersTyped'
  BY <1>1, Returned, Settles DEF Refresh, LockInv
<1>5. ASSUME q # NoPath, q \notin held
      PROVE  q \in Locked
  BY <1>2, <1>5, LockAssumption
     DEF LockAssumption, LockInv, Tree, TreeTyped, Found, Locked
<1>6. DetailsTyped' /\ Heaped' /\ Attached'
  BY <1>3, <1>5 DEF Refresh, LockInv, DetailsTyped, Heaped, Attached, Locked
<1>. QED  BY <1>3, <1>4, <1>6 DEF LockInv

LEMMA UnholdStep ==
  ASSUME LockInv, NEW c \in Clients, Unhold(c)
  PROVE  LockInv'
<1>1. Tree' /\ Locked' = Locked
  BY TreeKept DEF Unhold, LockInv, Tree
<1>2. DetailsTyped' /\ Heaped' /\ Attached'
  BY <1>1 DEF Unhold, details, LockInv, DetailsTyped, Heaped, Attached
<1>3. CallInv'
  BY Returned DEF Unhold, Return
<1>4. <<>> \in Seq(Tokens)
  OBVIOUS
<1>5. mine' \in [Clients -> Seq(Tokens)]
  BY <1>4 DEF Unhold, LockInv, UsersTyped
<1>6. UsersTyped'
  BY <1>5 DEF Unhold, LockInv, UsersTyped
<1>. QED  BY <1>1, <1>2, <1>3, <1>6 DEF LockInv

LEMMA ExpireStep ==
  ASSUME LockInv, NEW p \in Paths, Expire(p)
  PROVE  LockInv'
<1>1. Tree' /\ Locked' = Locked
  BY TreeKept DEF Expire, LockInv, Tree
<1>. QED
  BY <1>1 DEF Expire, details, users, LockInv, DetailsTyped, UsersTyped,
     Heaped, Attached, CallInv

LEMMA SequencesIn ==
  ASSUME NEW S, NEW s \in Sequences(S)
  PROVE  s \in Seq(S) /\ s # <<>>
BY LockAssumption DEF LockAssumption, Sequences

LEMMA AskStep ==
  ASSUME LockInv, NEW c \in Clients,
         \/ Operate(c) \/ Keep(c) \/ Release(c) \/ Discard(c) \/ ForceUnlock(c)
         \/ AskConfirm(c) \/ AskRefresh(c)
  PROVE  LockInv'
<1>1. UsersTyped'
  BY DEF Operate, Keep, Release, Discard, ForceUnlock, AskConfirm, AskRefresh, Idle,
     users, LockInv, UsersTyped
<1>2. <<>> \in Seq(Tokens) /\ <<>> \in Seq(Request)
  OBVIOUS
<1>3. CASE Operate(c)
  <2>. PICK ps \in Sequences(Paths), zero \in BOOLEAN :
         Enter(c, "operate",
               [i \in DOMAIN ps |-> [path |-> ps[i], zeroDepth |-> zero, finite |-> FALSE]],
               <<>>)
    BY <1>3 DEF Operate
  <2>1. ps \in Seq(Paths)
    BY SequencesIn
  <2> DEFINE w == [i \in DOMAIN ps |->
                    [path |-> ps[i], zeroDepth |-> zero, finite |-> FALSE]]
  <2>2. \A i \in DOMAIN ps :
          [path |-> ps[i], zeroDepth |-> zero, finite |-> FALSE] \in Request
    BY <2>1 DEF Request
  <2>3. w \in Seq(Request)
    BY <2>1, <2>2
  <2>. QED  BY <1>1, <1>2, <2>3, EnterStep DEF Ops
<1>4. CASE Keep(c)
  <2>. PICK r \in Request : Enter(c, "keep", <<r>>, <<>>)
    BY <1>4 DEF Keep
  <2>1. <<r>> \in Seq(Request)
    OBVIOUS
  <2>. QED  BY <1>1, <1>2, <2>1, EnterStep DEF Ops
<1>5. CASE Release(c)
  <2>1. mine[c] \in Seq(Tokens)
    BY DEF LockInv, UsersTyped
  <2>. QED  BY <1>1, <1>2, <1>5, <2>1, EnterStep DEF Release, Ops
<1>6. CASE Discard(c)
  <2>. PICK ts \in Sequences(kept) : Enter(c, "unlock", <<>>, ts)
    BY <1>6 DEF Discard
  <2>1. ts \in Seq(kept) /\ kept \subseteq Tokens
    BY SequencesIn DEF LockInv, UsersTyped
  <2>2. ts \in Seq(Tokens)
    BY <2>1
  <2>. QED  BY <1>1, <1>2, <2>2, EnterStep DEF Ops
<1>7. CASE ForceUnlock(c)
  <2>. PICK t \in left \cup UNION {Elements(mine[d]) : d \in Clients} :
         Enter(c, "unlock", <<>>, <<t>>)
    BY <1>7 DEF ForceUnlock
  <2>1. \A d \in Clients : Elements(mine[d]) \subseteq Tokens
    BY ElementsIn DEF LockInv, UsersTyped
  <2>2. t \in Tokens
    BY <2>1 DEF LockInv, UsersTyped
  <2>3. <<t>> \in Seq(Tokens)
    BY <2>2
  <2>. QED  BY <1>1, <1>2, <2>3, EnterStep DEF Ops
<1>8. CASE AskConfirm(c)
  <2>. PICK t \in kept, p \in Paths :
         Enter(c, "confirm", <<[path |-> p, zeroDepth |-> FALSE, finite |-> FALSE]>>, <<t>>)
    BY <1>8 DEF AskConfirm
  <2>1. t \in Tokens
    BY DEF LockInv, UsersTyped
  <2>2. <<t>> \in Seq(Tokens) /\ <<t>> # <<>>
    BY <2>1
  <2>3. [path |-> p, zeroDepth |-> FALSE, finite |-> FALSE] \in Request
    BY DEF Request
  <2>4. <<[path |-> p, zeroDepth |-> FALSE, finite |-> FALSE]>> \in Seq(Request)
        /\ <<[path |-> p, zeroDepth |-> FALSE, finite |-> FALSE]>> # <<>>
    BY <2>3
  <2>. QED  BY <1>1, <2>2, <2>4, EnterStep DEF Ops
<1>9. CASE AskRefresh(c)
  <2>. PICK t \in kept, r \in Request : Enter(c, "refresh", <<r>>, <<t>>)
    BY <1>9 DEF AskRefresh
  <2>1. t \in Tokens
    BY DEF LockInv, UsersTyped
  <2>2. <<t>> \in Seq(Tokens) /\ <<t>> # <<>> /\ <<r>> \in Seq(Request) /\ <<r>> # <<>>
    BY <2>1
  <2>. QED  BY <1>1, <2>2, EnterStep DEF Ops
<1>. QED  BY <1>3, <1>4, <1>5, <1>6, <1>7, <1>8, <1>9

LEMMA LockStep == LockInv /\ [Next]_vars => LockInv'
<1>. SUFFICES ASSUME LockInv, [Next]_vars PROVE LockInv'
  OBVIOUS
<1>1. CASE CallStep
  BY <1>1, CollectStep, CreateStep, GrantedStep, ExamineStep, RemoveStep,
     RemovedStep, ConfirmStep, RefreshStep DEF CallStep
<1>2. ASSUME NEW c \in Clients, ClientStep(c) PROVE LockInv'
  BY <1>2, AskStep, UnholdStep DEF ClientStep
<1>3. ASSUME NEW p \in Paths, Expire(p) PROVE LockInv'
  BY <1>3, ExpireStep
<1>4. CASE UNCHANGED vars
  <2>1. Tree' /\ Locked' = Locked
    BY <1>4, TreeKept DEF vars, index, LockInv, Tree
  <2>. QED
    BY <1>4, <2>1 DEF vars, LockInv, DetailsTyped, UsersTyped, Heaped,
       Attached, CallInv
<1>. QED  BY <1>1, <1>2, <1>3, <1>4 DEF Next

\* The counters stay right because a step adds or takes away one lock.
THEOREM LocksInvariant == Spec => []LockInv
BY InitHolds, LockStep, PTL DEF Spec

\* The counters, lists, token index and expiry heap always agree with the
\* locks there are, through batches, rollbacks, expiry and confirmations.
THEOREM IndexesAlwaysAgree == Spec => []IndexesAgree
<1>1. LockInv => IndexesAgree
  BY DEF LockInv, Tree, Counted, Listed, Found, Heaped, IndexesAgree
<1>. QED  BY <1>1, LocksInvariant, PTL

\* Every variable keeps its type; in particular no reference count ever
\* passes below zero.
THEOREM LocksTypeCorrect == Spec => []TypeOK
<1>1. ASSUME LockInv PROVE TypeOK
  <2>1. \A q \in Paths : refCount[q] \in Nat
    BY <1>1, UnderFinite DEF LockInv, Tree, Counted
  <2>2. refCount \in [Paths -> Nat]
    BY <1>1, <2>1 DEF LockInv, Tree, TreeTyped
  <2>. QED
    BY <1>1, <2>2 DEF LockInv, Tree, TreeTyped, DetailsTyped, UsersTyped,
       CallInv, TypeOK
<1>. QED  BY <1>1, LocksInvariant, PTL

(***************************************************************************)
(* Who has a lock. A request keeps the tokens of its session and the call  *)
(* that serves it has no one else's; what a call has made is nobody's yet. *)
(* Until a user unlocks what another request holds, an operation finds     *)
(* every lock of its session when it releases them: they have no end, and  *)
(* nobody else was handed their tokens.                                    *)
(***************************************************************************)
Creating == call.op \in {"operate", "keep"}
Removing == call.op = "unlock" /\ call.step = "remove"
Named(c) == Elements(mine[c])

Sessions ==
  \A c \in Clients :
    /\ state[c] = "idle" => mine[c] = <<>>
    /\ state[c] = "holding" =>
         /\ mine[c] # <<>> /\ Named(c) = {mine[c][1]}
         /\ mine[c][1] \in kept /\ byToken[mine[c][1]] \in held
         /\ \A d \in Clients \ {c} : state[d] = "holding" => mine[d][1] # mine[c][1]

Calling ==
  /\ call.op = "none" <=> call.step = "none"
  /\ call.op # "none" => call.who \in Clients
  /\ call.op \notin {"none", "unlock"} => state[call.who] = "idle"
  /\ call.op = "unlock" =>
       state[call.who] = "idle" \/ (state[call.who] = "working" /\ call.tokens = mine[call.who])
  /\ call.op \in {"confirm", "refresh"} => Elements(call.tokens) \subseteq kept

Serving ==
  /\ call.step = "act" /\ ~Creating => call.nodes = <<>>
  /\ call.step = "remove" => Creating \/ call.op = "unlock"
  /\ Removing =>
       \A t \in Elements(call.tokens) : byToken[t] = NoPath \/ byToken[t] \in Elements(call.nodes)

New ==
  Creating =>
    \A p \in Elements(call.nodes) :
      token[p] \notin kept \cup left /\ \A c \in Clients : token[p] \notin Named(c)

Owned ==
  \A p \in Locked :
    \/ token[p] \in kept \cup left \/ p \in Elements(call.nodes)
    \/ \E c \in Clients : token[p] \in Named(c)

\* the locks of a running operation are its own, and stay
Own(c) ==
  \A t \in Named(c) :
    /\ t \notin kept
    /\ \A d \in Clients \ {c} : t \notin Named(d)

Standing(c) == \A t \in Named(c) : byToken[t] # NoPath /\ byToken[t] \notin held \cup finite

Unforced ==
  /\ left = {}
  /\ \A c \in Clients : state[c] = "working" => Own(c)
  /\ \A c \in Clients : state[c] = "working" /\ ~(Removing /\ call.who = c) => Standing(c)
  /\ call.op = "operate" =>
       /\ \A i \in DOMAIN call.want : ~call.want[i].finite
       /\ Elements(call.nodes) \cap finite = {}
  /\ call.op = "unlock" /\ state[call.who] = "idle" => Elements(call.tokens) \subseteq kept
  /\ Removing => \A p \in Elements(call.nodes) : token[p] \in Elements(call.tokens) \cup {NoToken}

OwnInv == Sessions /\ Calling /\ Serving /\ New /\ Owned /\ (~forced => Unforced)

LEMMA LinkTokens ==
  ASSUME TreeTyped, NEW p \in Paths, NEW t \in Tokens, Link(p, t)
  PROVE  byToken'[t] = p /\ \A u \in Tokens \ {t} : byToken'[u] = byToken[u]
BY DEF TreeTyped, Link

LEMMA UnlinkTokens ==
  ASSUME TreeTyped, Found, NEW p \in Paths, token[p] \in Tokens, Unlink(p)
  PROVE  /\ byToken[token[p]] = p /\ byToken'[token[p]] = NoPath
         /\ \A u \in Tokens : u # token[p] => byToken'[u] = byToken[u] /\ byToken[u] # p
BY DEF TreeTyped, Found, Unlink

LEMMA NamedTokens ==
  ASSUME UsersTyped, NEW c \in Clients
  PROVE  Named(c) \subseteq Tokens
BY ElementsIn DEF UsersTyped, Named

LEMMA OwnInit == Init => OwnInv
<1>. SUFFICES ASSUME Init PROVE OwnInv
  OBVIOUS
<1>1. Locked = {}
  BY DEF Locked, Init
<1>2. call.op = "none" /\ call.step = "none"
  BY DEF Init, NoCall
<1>. QED
  BY <1>1, <1>2, ElementsNone DEF Init, OwnInv, Sessions, Calling, Serving, New, Owned, Unforced,
     Creating, Removing

\* an expired lock is no running operation's and no one holds it
LEMMA OwnCollect ==
  ASSUME LockInv, OwnInv, Collect
  PROVE  OwnInv'
<1>. USE DEF OwnInv
<1>1. UNCHANGED <<state, mine, kept, left, forced>> /\ call.step = "collect" /\ call.nodes = <<>>
  BY DEF Collect, users, LockInv, CallInv
<1>2. \A c \in Clients : Named(c) \subseteq Tokens /\ Named(c)' = Named(c)
  BY <1>1, NamedTokens DEF LockInv, Named
<1>3. ASSUME NEW p \in byExpiry \cap overdue, Unlink(p), UNCHANGED call
      PROVE  OwnInv'
  <2>1. p \in Paths /\ token[p] \in Tokens /\ p \notin held /\ p \in finite
    BY <1>3 DEF LockInv, Heaped, Locked, Tree, TreeTyped
  <2>2. /\ byToken[token[p]] = p /\ byToken'[token[p]] = NoPath
        /\ \A u \in Tokens : u # token[p] => byToken'[u] = byToken[u] /\ byToken[u] # p
    BY <1>3, <2>1, UnlinkTokens DEF LockInv, Tree
  <2>3. Locked' = Locked \ {p} /\ \A x \in Paths \ {p} : token'[x] = token[x]
    BY <1>3, <2>1, UnlinkLocks DEF LockInv, Tree
  <2>4. held' = held /\ finite' \subseteq finite
    BY <1>3 DEF Unlink
  <2>5. Sessions'
    <3>. SUFFICES ASSUME NEW c \in Clients, state[c] = "holding"
                  PROVE  byToken'[mine[c][1]] = byToken[mine[c][1]]
      BY <1>1, <1>2, <2>4 DEF Sessions
    <3>1. mine[c][1] \in Tokens /\ byToken[mine[c][1]] \in held
      BY <1>2 DEF Sessions
    <3>. QED  BY <2>1, <2>2, <3>1
  <2>6. Calling' /\ Serving'
    BY <1>1, <1>3 DEF Calling, Serving, Creating, Removing
  <2>7. New'
    BY <1>1, <1>3, ElementsNone DEF New, Creating
  <2>8. Owned'
    BY <1>1, <1>2, <1>3, <2>3 DEF Owned, Locked
  <2>9. ASSUME ~forced' PROVE Unforced'
    <3>1. Unforced
      BY <1>1, <2>9
    <3>2. \A c \in Clients : Own(c) => Own(c)'
      BY <1>1, <1>2 DEF Own
    <3>3. \A c \in Clients : Standing(c) => Standing(c)'
      BY <1>2, <2>1, <2>2, <2>4 DEF Standing
    <3>. QED
      BY <1>1, <1>3, <2>4, <3>1, <3>2, <3>3, ElementsNone DEF Unforced, Removing
  <2>. QED  BY <2>5, <2>6, <2>7, <2>8, <2>9
<1>4. CASE UNCHANGED <<index, details, times>> /\ call' = [call EXCEPT !.step = "act"]
  <2>1. /\ call'.who = call.who /\ call'.op = call.op /\ call'.step = "act" /\ call'.want = call.want
        /\ call'.tokens = call.tokens /\ call'.nodes = <<>>
    BY <1>1, <1>4 DEF LockInv, CallInv, Call
  <2>2. Locked' = Locked /\ token' = token /\ byToken' = byToken /\ held' = held /\ finite' = finite
    BY <1>4 DEF index, details, times, Locked
  <2>3. Sessions'
    BY <1>1, <1>2, <2>2 DEF Sessions
  <2>4. Calling' /\ Serving'
    BY <1>1, <2>1 DEF Calling, Serving, Creating, Removing
  <2>5. New' /\ Owned'
    BY <1>1, <1>2, <2>1, <2>2, ElementsNone DEF New, Owned
  <2>6. ASSUME ~forced' PROVE Unforced'
    <3>1. \A c \in Clients : (Own(c) => Own(c)') /\ (Standing(c) => Standing(c)')
      BY <1>1, <1>2, <2>2 DEF Own, Standing
    <3>. QED
      BY <1>1, <2>1, <2>2, <2>6, <3>1, ElementsNone DEF Unforced, Removing
  <2>. QED  BY <2>3, <2>4, <2>5, <2>6
<1>. QED  BY <1>3, <1>4 DEF Collect

LEMMA OwnCreate ==
  ASSUME LockInv, OwnInv, CreateOne
  PROVE  OwnInv'
<1>. USE DEF OwnInv
<1>1. /\ UNCHANGED <<state, mine, kept, left, forced>> /\ call \in Call
      /\ call.step = "act" /\ Creating
  BY DEF CreateOne, users, Acting, LockInv, CallInv, Creating
<1>2. \A c \in Clients : Named(c) \subseteq Tokens /\ Named(c)' = Named(c)
  BY <1>1, NamedTokens DEF LockInv, Named
<1> DEFINE i == Len(call.nodes) + 1  r == call.want[i]  p == r.path
<1>3. i \in DOMAIN call.want /\ r \in Request /\ p \in Paths
  <2>1. call.want \in Seq(Request) /\ call.nodes \in Seq(Paths) /\ Len(call.nodes) < Len(call.want)
    BY <1>1 DEF Call, CreateOne
  <2>2. i \in DOMAIN call.want /\ r \in Request
    BY <2>1
  <2>. QED  BY <2>2 DEF Request
<1>4. ASSUME CanCreate(r), NEW t \in Fresh, Link(p, t),
             finite' = IF r.finite THEN finite \cup {p} ELSE finite,
             call' = [call EXCEPT !.nodes = Append(@, p)],
             UNCHANGED <<held, overdue>>
      PROVE  OwnInv'
  <2>1. /\ t \in Tokens /\ byToken[t] = NoPath /\ token[p] = NoToken /\ t \notin kept \cup left
        /\ \A c \in Clients : t \notin Named(c)
    BY <1>4 DEF Fresh, CanCreate, Named
  <2>2. /\ Locked' = Locked \cup {p} /\ token'[p] = t
        /\ \A x \in Paths \ {p} : token'[x] = token[x]
    BY <1>3, <1>4, <2>1, LinkLocks DEF LockInv, Tree
  <2>3. byToken'[t] = p /\ \A u \in Tokens \ {t} : byToken'[u] = byToken[u]
    BY <1>3, <1>4, <2>1, LinkTokens DEF LockInv, Tree
  <2>4. p \notin Locked /\ p \notin held
    BY <2>1 DEF Locked, LockInv, Attached
  <2>5. /\ call'.who = call.who /\ call'.op = call.op /\ call'.step = "act"
        /\ call'.want = call.want /\ call'.tokens = call.tokens
        /\ Elements(call'.nodes) = Elements(call.nodes) \cup {p}
    <3>1. call.nodes \in Seq(Paths)
      BY <1>1 DEF Call
    <3>. QED  BY <1>1, <1>3, <1>4, <3>1, ElementsMore DEF Call
  <2>6. Elements(call.nodes) \subseteq Locked
    BY <1>1 DEF LockInv, CallInv, Creating
  <2>7. Sessions'
    <3>. SUFFICES ASSUME NEW c \in Clients, state[c] = "holding"
                  PROVE  byToken'[mine[c][1]] = byToken[mine[c][1]]
      BY <1>1, <1>2, <1>4 DEF Sessions
    <3>1. mine[c][1] \in Tokens /\ mine[c][1] # t
      BY <1>2, <2>1 DEF Sessions
    <3>. QED  BY <2>3, <3>1
  <2>8. Calling' /\ Serving'
    BY <1>1, <2>5 DEF Calling, Serving, Creating, Removing
  <2>9. New'
    <3>1. ASSUME NEW x \in Elements(call.nodes)
          PROVE  /\ token'[x] \notin kept \cup left
                 /\ \A c \in Clients : token'[x] \notin Named(c)
      <4>1. x \in Paths \ {p}
        BY <2>4, <2>6 DEF Locked
      <4>. QED  BY <1>1, <2>2, <4>1 DEF New
    <3>. QED  BY <1>1, <1>2, <2>1, <2>2, <2>5, <3>1 DEF New
  <2>10. Owned'
    <3>. SUFFICES ASSUME NEW x \in Locked'
                  PROVE  \/ token'[x] \in kept' \cup left' \/ x \in Elements(call'.nodes)
                         \/ \E c \in Clients : token'[x] \in Named(c)'
      BY DEF Owned
    <3>1. CASE x = p
      BY <2>5, <3>1
    <3>2. CASE x # p
      <4>1. x \in Locked /\ x \in Paths \ {p} /\ token'[x] = token[x]
        BY <2>2, <3>2 DEF Locked
      <4>. QED  BY <1>1, <1>2, <2>5, <4>1 DEF Owned
    <3>. QED  BY <3>1, <3>2
  <2>11. ASSUME ~forced' PROVE Unforced'
    <3>1. Unforced
      BY <1>1, <2>11
    <3>2. \A c \in Clients : Own(c) => Own(c)'
      BY <1>1, <1>2 DEF Own
    <3>3. ASSUME NEW c \in Clients, Standing(c) PROVE Standing(c)'
      <4>. SUFFICES ASSUME NEW u \in Named(c)
                    PROVE  byToken'[u] # NoPath /\ byToken'[u] \notin held' \cup finite'
        BY <1>2 DEF Standing
      <4>1. u \in Tokens /\ u # t /\ byToken'[u] = byToken[u]
        BY <1>2, <2>1, <2>3
      <4>2. byToken[u] # p
        BY <1>3, <2>1, <4>1, LockAssumption DEF LockInv, Tree, Found, LockAssumption
      <4>. QED  BY <1>4, <3>3, <4>1, <4>2 DEF Standing
    <3>4. call.op = "operate" => Elements(call'.nodes) \cap finite' = {}
      <4>1. call.op = "operate" => ~r.finite /\ p \notin finite
        BY <1>3, <2>4, <3>1 DEF Unforced, LockInv, Attached
      <4>. QED  BY <1>4, <2>5, <3>1, <4>1 DEF Unforced
    <3>. QED
      BY <1>1, <2>5, <3>1, <3>2, <3>3, <3>4 DEF Unforced, Removing, Creating
  <2>. QED  BY <2>7, <2>8, <2>9, <2>10, <2>11
<1>5. CASE UNCHANGED <<index, details, times>> /\ call' = [call EXCEPT !.step = "remove"]
  <2>1. /\ call'.who = call.who /\ call'.op = call.op /\ call'.step = "remove"
        /\ call'.want = call.want /\ call'.tokens = call.tokens /\ call'.nodes = call.nodes
    BY <1>1, <1>5 DEF Call
  <2>2. Locked' = Locked /\ token' = token /\ byToken' = byToken /\ held' = held /\ finite' = finite
    BY <1>5 DEF index, details, times, Locked
  <2>3. Sessions' /\ New' /\ Owned'
    BY <1>1, <1>2, <2>1, <2>2 DEF Sessions, New, Owned, Creating
  <2>4. Calling' /\ Serving'
    BY <1>1, <2>1 DEF Calling, Serving, Creating, Removing
  <2>5. ASSUME ~forced' PROVE Unforced'
    <3>1. \A c \in Clients : (Own(c) => Own(c)') /\ (Standing(c) => Standing(c)')
      BY <1>1, <1>2, <2>2 DEF Own, Standing
    <3>. QED
      BY <1>1, <2>1, <2>2, <2>5, <3>1 DEF Unforced, Removing, Creating
  <2>. QED  BY <2>3, <2>4, <2>5
<1>. QED  BY <1>4, <1>5 DEF CreateOne

LEMMA OwnRemove ==
  ASSUME LockInv, OwnInv, RemoveOne
  PROVE  OwnInv'
<1>. USE DEF OwnInv
<1> DEFINE p == Head(call.nodes)
<1>1. /\ UNCHANGED <<state, mine, kept, left, forced>> /\ call \in Call
      /\ call.step = "remove" /\ call.nodes \in Seq(Paths) /\ call.nodes # <<>>
      /\ token[p] # NoToken /\ Unlink(p) /\ call' = [call EXCEPT !.nodes = Tail(@)]
  BY DEF RemoveOne, users, LockInv, CallInv, Call
<1>2. \A c \in Clients : Named(c) \subseteq Tokens /\ Named(c)' = Named(c)
  BY <1>1, NamedTokens DEF LockInv, Named
<1>3. /\ call'.who = call.who /\ call'.op = call.op /\ call'.step = "remove"
      /\ call'.want = call.want /\ call'.tokens = call.tokens /\ call'.nodes = Tail(call.nodes)
  BY <1>1 DEF Call
<1>4. p \in Paths /\ p \in Elements(call.nodes) /\ token[p] \in Tokens
  BY <1>1, ElementsLess DEF LockInv, Tree, TreeTyped
<1>5. /\ Elements(Tail(call.nodes)) \subseteq Elements(call.nodes)
      /\ Elements(call.nodes) \subseteq Elements(Tail(call.nodes)) \cup {p}
  BY <1>1, ElementsLess, ElementsRest
<1>6. /\ byToken[token[p]] = p /\ byToken'[token[p]] = NoPath
      /\ \A u \in Tokens : u # token[p] => byToken'[u] = byToken[u] /\ byToken[u] # p
  BY <1>1, <1>4, UnlinkTokens DEF LockInv, Tree
<1>7. Locked' = Locked \ {p} /\ token'[p] = NoToken /\ \A x \in Paths \ {p} : token'[x] = token[x]
  BY <1>1, <1>4, UnlinkLocks DEF LockInv, Tree
<1>8. held' = held /\ finite' \subseteq finite /\ p \notin held
  BY <1>1, <1>4 DEF Unlink, LockInv, CallInv
<1>9. Sessions'
  <2>. SUFFICES ASSUME NEW c \in Clients, state[c] = "holding"
                PROVE  byToken'[mine[c][1]] = byToken[mine[c][1]]
    BY <1>1, <1>2, <1>8 DEF Sessions
  <2>1. mine[c][1] \in Tokens /\ byToken[mine[c][1]] \in held
    BY <1>2 DEF Sessions
  <2>. QED  BY <1>6, <1>8, <2>1
<1>10. Calling'
  BY <1>1, <1>3 DEF Calling
<1>11. Serving'
  <2>. SUFFICES ASSUME Removing, NEW t \in Elements(call.tokens)
                PROVE  byToken'[t] = NoPath \/ byToken'[t] \in Elements(Tail(call.nodes))
    BY <1>1, <1>3 DEF Serving, Creating, Removing
  <2>1. t \in Tokens
    BY <1>1, ElementsIn DEF Call
  <2>2. byToken[t] = NoPath \/ byToken[t] \in Elements(call.nodes)
    BY DEF Serving
  <2>. QED  BY <1>5, <1>6, <2>1, <2>2
<1>12. ASSUME NEW x \in Elements(Tail(call.nodes))
       PROVE  x \in Elements(call.nodes) /\ token'[x] \in {token[x], NoToken}
  <2>1. x \in Paths
    BY <1>1, <1>5, ElementsIn
  <2>. QED  BY <1>5, <1>7, <2>1
<1>13. NoToken \notin kept \cup left /\ \A c \in Clients : NoToken \notin Named(c)
  BY <1>2, LockAssumption DEF LockAssumption, LockInv, UsersTyped
<1>14. New'
  BY <1>1, <1>2, <1>3, <1>12, <1>13 DEF New, Creating
<1>15. Owned'
  <2>. SUFFICES ASSUME NEW x \in Locked'
                PROVE  \/ token'[x] \in kept' \cup left' \/ x \in Elements(call'.nodes)
                       \/ \E c \in Clients : token'[x] \in Named(c)'
    BY DEF Owned
  <2>1. x \in Locked /\ x # p /\ token'[x] = token[x]
    BY <1>7 DEF Locked
  <2>. QED  BY <1>1, <1>2, <1>3, <1>5, <2>1 DEF Owned
<1>16. ASSUME ~forced' PROVE Unforced'
  <2>1. Unforced
    BY <1>1, <1>16
  <2>2. \A c \in Clients : Own(c) => Own(c)'
    BY <1>1, <1>2 DEF Own
  <2>3. ASSUME NEW c \in Clients, state[c] = "working", ~(Removing /\ call.who = c)
        PROVE  Standing(c)'
    <3>1. Standing(c) /\ Own(c)
      BY <2>1, <2>3 DEF Unforced
    <3>2. token[p] \notin Named(c)
      <4>1. CASE Creating
        BY <1>4, <2>3, <4>1 DEF New
      <4>2. CASE call.op = "unlock" /\ state[call.who] = "idle"
        <5>1. token[p] \in kept
          BY <1>1, <1>4, <2>1, <4>2, LockAssumption DEF Unforced, Removing, LockAssumption
        <5>. QED  BY <3>1, <5>1 DEF Own
      <4>3. CASE call.op = "unlock" /\ call.tokens = mine[call.who]
        <5>1. token[p] \in Named(call.who) /\ call.who \in Clients /\ call.who # c
          BY <1>1, <1>4, <2>1, <2>3, <4>3, LockAssumption
             DEF Unforced, Removing, Named, Calling, LockAssumption
        <5>. QED  BY <3>1, <5>1 DEF Own
      <4>. QED  BY <1>1, <4>1, <4>2, <4>3 DEF Serving, Calling
    <3>. QED  BY <1>2, <1>6, <1>8, <3>1, <3>2 DEF Standing
  <2>4. Removing => \A x \in Elements(call'.nodes) : token'[x] \in Elements(call.tokens) \cup {NoToken}
    BY <1>3, <1>12, <2>1 DEF Unforced
  <2>5. call.op = "operate" => Elements(call'.nodes) \cap finite' = {}
    BY <1>3, <1>5, <1>8, <2>1 DEF Unforced
  <2>. QED
    BY <1>1, <1>3, <2>1, <2>2, <2>3, <2>4, <2>5 DEF Unforced, Removing
<1>. QED  BY <1>9, <1>10, <1>11, <1>14, <1>15, <1>16

\* what a step that leaves the locks alone leaves of the invariant
LEMMA OwnKept ==
  ASSUME LockInv, OwnInv, UNCHANGED <<index, details>>
  PROVE  /\ Locked' = Locked /\ token' = token /\ byToken' = byToken /\ finite' = finite
         /\ \A c \in Clients : Named(c) \subseteq Tokens
         /\ \A c \in Clients : Elements(mine[c]) = Named(c)
         /\ UNCHANGED mine => \A c \in Clients : Named(c)' = Named(c)
BY NamedTokens DEF index, details, Locked, LockInv, Named

\* requests ask for a call
LEMMA OwnEnter ==
  ASSUME LockInv, OwnInv, NEW c \in Clients, NEW o \in Ops \ {"none"}, NEW w, NEW ts,
         Enter(c, o, w, ts), UNCHANGED <<state, mine, kept, left>>, forced => forced',
         o # "unlock" => state[c] = "idle",
         o = "unlock" => state[c] = "idle" \/ (state[c] = "working" /\ ts = mine[c]),
         o \in {"confirm", "refresh"} => Elements(ts) \subseteq kept,
         ~forced' => (o = "operate" => \A i \in DOMAIN w : ~w[i].finite),
         ~forced' => (o = "unlock" /\ state[c] = "idle" => Elements(ts) \subseteq kept)
  PROVE  OwnInv'
<1>. USE DEF OwnInv
<1>1. /\ call'.who = c /\ call'.op = o /\ call'.step = "collect" /\ call'.want = w
      /\ call'.tokens = ts /\ call'.nodes = <<>> /\ call = NoCall
      /\ UNCHANGED <<index, details>> /\ held' = held
  BY DEF Enter, times
<1>2. /\ Locked' = Locked /\ token' = token /\ byToken' = byToken /\ finite' = finite
      /\ \A d \in Clients : Named(d)' = Named(d)
  BY <1>1, OwnKept
<1>3. call.nodes = <<>> /\ call.op = "none" /\ call.step = "none"
  BY <1>1 DEF NoCall
<1>4. Sessions'
  BY <1>1, <1>2 DEF Sessions
<1>5. Calling' /\ Serving'
  BY <1>1 DEF Calling, Serving, Removing, Creating
<1>6. New' /\ Owned'
  BY <1>1, <1>2, <1>3, ElementsNone DEF New, Owned
<1>7. ASSUME ~forced' PROVE Unforced'
  <2>1. ~forced /\ Unforced
    BY <1>7
  <2>2. \A d \in Clients : (Own(d) => Own(d)') /\ (Standing(d) => Standing(d)')
    BY <1>1, <1>2 DEF Own, Standing
  <2>3. ~Removing /\ ~Removing'
    BY <1>1, <1>3 DEF Removing
  <2>4. \A d \in Clients : state[d] = "working" => Own(d) /\ Standing(d)
    BY <2>1, <2>3 DEF Unforced
  <2>. QED
    BY <1>1, <1>7, <2>1, <2>2, <2>3, <2>4, ElementsNone DEF Unforced
<1>. QED  BY <1>4, <1>5, <1>6, <1>7

LEMMA OwnAsk ==
  ASSUME LockInv, OwnInv, NEW c \in Clients,
         \/ Operate(c) \/ Keep(c) \/ Release(c) \/ Discard(c) \/ ForceUnlock(c)
         \/ AskConfirm(c) \/ AskRefresh(c)
  PROVE  OwnInv'
<1>1. CASE Operate(c)
  <2>. PICK ps \in Sequences(Paths), zero \in BOOLEAN :
         Enter(c, "operate",
               [i \in DOMAIN ps |-> [path |-> ps[i], zeroDepth |-> zero, finite |-> FALSE]],
               <<>>)
    BY <1>1 DEF Operate
  <2>. QED  BY <1>1, OwnEnter DEF Operate, Idle, users, Ops
<1>2. CASE Keep(c)
  BY <1>2, OwnEnter DEF Keep, Idle, users, Ops
<1>3. CASE Release(c)
  BY <1>3, OwnEnter DEF Release, users, Ops
<1>4. CASE Discard(c)
  <2>. PICK ts \in Sequences(kept) : Enter(c, "unlock", <<>>, ts)
    BY <1>4 DEF Discard
  <2>1. Elements(ts) \subseteq kept
    BY SequencesIn, ElementsIn
  <2>. QED  BY <1>4, <2>1, OwnEnter DEF Discard, Idle, users, Ops
<1>5. CASE ForceUnlock(c)
  BY <1>5, OwnEnter DEF ForceUnlock, Ops
<1>6. CASE AskConfirm(c)
  <2>. PICK t \in kept, p \in Paths :
         Enter(c, "confirm", <<[path |-> p, zeroDepth |-> FALSE, finite |-> FALSE]>>, <<t>>)
    BY <1>6 DEF AskConfirm
  <2>1. Elements(<<t>>) \subseteq kept
    BY DEF Elements
  <2>. QED  BY <1>6, <2>1, OwnEnter DEF AskConfirm, Idle, users, Ops
<1>7. CASE AskRefresh(c)
  <2>. PICK t \in kept, r \in Request : Enter(c, "refresh", <<r>>, <<t>>)
    BY <1>7 DEF AskRefresh
  <2>1. Elements(<<t>>) \subseteq kept
    BY DEF Elements
  <2>. QED  BY <1>7, <2>1, OwnEnter DEF AskRefresh, Idle, users, Ops
<1>. QED  BY <1>1, <1>2, <1>3, <1>4, <1>5, <1>6, <1>7

\* after a call, nobody asks for anything
LEMMA OwnReturned ==
  ASSUME Return
  PROVE  /\ Calling' /\ Serving' /\ New' /\ ~Creating' /\ ~Removing'
         /\ call'.op = "none" /\ call'.nodes = <<>>
BY DEF Return, NoCall, Calling, Serving, New, Creating, Removing

\* an answer to a request that had nothing to lose, or whose locks are gone or
\* were left behind
LEMMA OwnAnswered ==
  ASSUME LockInv, OwnInv, NEW done \in BOOLEAN, Answered(done), Return,
         NEW c \in Clients, call.who = c,
         UNCHANGED index, held' = held,
         \A t \in Tokens \ kept : byToken[t] \in finite' => byToken[t] \in finite,
         call.op # "none", call.nodes = <<>>,
         state[c] # "idle" /\ done => \A t \in Named(c) : byToken[t] = NoPath,
         ~forced /\ ~done => state[c] = "idle"
  PROVE  OwnInv'
<1>. USE DEF OwnInv
<1> DEFINE ts == Elements(call.tokens)
           gone == {t \in ts : byToken[t] = NoPath}
<1>1. c \in Clients /\ call \in Call /\ ts \subseteq Tokens
  BY ElementsIn DEF Calling, LockInv, CallInv, Call
<1>2. state[c] = "idle" \/ (state[c] = "working" /\ ts = Named(c))
  BY DEF Calling, Named
<1>3. /\ state' = [state EXCEPT ![c] = "idle"] /\ mine' = [mine EXCEPT ![c] = <<>>]
      /\ kept' = kept \ gone /\ forced' = forced
      /\ left' = (IF state[c] = "working" /\ ~done THEN left \cup ts ELSE left) \ gone
  BY DEF Answered
<1>4. /\ Locked' = Locked /\ token' = token /\ byToken' = byToken
      /\ \A d \in Clients : Named(d) \subseteq Tokens
  BY NamedTokens DEF index, Locked, LockInv
<1>5. /\ state'[c] = "idle" /\ mine'[c] = <<>> /\ Named(c)' = {}
      /\ \A d \in Clients \ {c} : state'[d] = state[d] /\ mine'[d] = mine[d] /\ Named(d)' = Named(d)
  BY <1>1, <1>3, ElementsNone DEF LockInv, UsersTyped, Named
<1>6. \A p \in Locked : /\ p \in Paths /\ token[p] \in Tokens
                        /\ byToken[token[p]] = p /\ token[p] \notin gone
  BY LockAssumption DEF LockInv, Tree, TreeTyped, Found, Locked, LockAssumption
<1>7. Sessions'
  <2>. SUFFICES ASSUME NEW d \in Clients \ {c}, state[d] = "holding"
                PROVE  mine[d][1] \in kept'
    BY <1>4, <1>5 DEF Sessions
  <2>1. mine[d][1] \in kept /\ byToken[mine[d][1]] \in held
    BY DEF Sessions
  <2>. QED
    BY <1>3, <2>1, LockAssumption DEF LockInv, DetailsTyped, LockAssumption
<1>8. Calling' /\ Serving' /\ New'
  BY OwnReturned
<1>9. Owned'
  <2>. SUFFICES ASSUME NEW p \in Locked
                PROVE  token[p] \in kept' \cup left' \/ \E d \in Clients : token[p] \in Named(d)'
    BY <1>4 DEF Owned
  <2>1. \/ token[p] \in kept \cup left
        \/ \E d \in Clients : token[p] \in Named(d)
    BY ElementsNone DEF Owned
  <2>2. CASE token[p] \in kept \cup left
    BY <1>3, <1>6, <2>2
  <2>3. ASSUME NEW d \in Clients, token[p] \in Named(d), d # c
        PROVE  token[p] \in Named(d)'
    BY <1>5, <2>3
  <2>4. CASE token[p] \in Named(c)
    <3>1. state[c] = "working" /\ ts = Named(c)
      BY <1>1, <1>2, <2>4, ElementsNone DEF Sessions, Named
    <3>2. ~done
      BY <1>6, <2>4, <3>1, LockAssumption DEF LockAssumption
    <3>. QED  BY <1>3, <1>6, <2>4, <3>1, <3>2
  <2>. QED  BY <2>1, <2>2, <2>3, <2>4
<1>10. ASSUME ~forced' PROVE Unforced'
  <2>1. Unforced /\ ~forced
    BY <1>3, <1>10
  <2>2. left' = {}
    BY <1>3, <2>1 DEF Unforced
  <2>3. ASSUME NEW d \in Clients, state'[d] = "working" PROVE Own(d)' /\ Standing(d)'
    <3>1. d # c /\ state[d] = "working" /\ Named(d)' = Named(d)
      BY <1>5, <2>3
    <3>2. Own(d) /\ Standing(d)
      BY <2>1, <3>1 DEF Unforced
    <3>3. Own(d)'
      BY <1>3, <1>5, <3>1, <3>2 DEF Own
    <3>. QED  BY <1>4, <3>1, <3>2, <3>3 DEF Own, Standing
  <2>. QED
    BY <2>2, <2>3, OwnReturned DEF Unforced, Removing
<1>. QED  BY <1>7, <1>8, <1>9, <1>10

LEMMA OwnGranted ==
  ASSUME LockInv, OwnInv, Granted
  PROVE  OwnInv'
<1>. USE DEF OwnInv
<1> DEFINE made == [i \in DOMAIN call.nodes |-> token[call.nodes[i]]]
<1>1. PICK c \in Clients : call.who = c
  BY DEF Calling, Granted, Acting
<1>2. /\ Creating /\ call.step = "act" /\ call \in Call /\ state[c] = "idle" /\ mine[c] = <<>>
      /\ call.nodes \in Seq(Paths) /\ Elements(call.nodes) \subseteq Locked
  BY <1>1 DEF Calling, Sessions, Granted, Acting, Creating, LockInv, CallInv, Call
<1>3. /\ Locked' = Locked /\ token' = token /\ byToken' = byToken /\ finite' = finite
      /\ held' = held /\ \A d \in Clients : Named(d) \subseteq Tokens
  BY OwnKept DEF Granted, times
<1>4. Elements(made) = {token[x] : x \in Elements(call.nodes)}
  BY <1>2 DEF Elements
<1>5. \A t \in Elements(made) : /\ t \in Tokens /\ t \notin kept \cup left
                                /\ \A d \in Clients : t \notin Named(d)
  BY <1>2, <1>4 DEF New, Locked, LockInv, Tree, TreeTyped
<1>6. Calling' /\ Serving' /\ New' /\ ~Creating' /\ ~Removing' /\ call'.op = "none" /\ call'.nodes = <<>>
  BY OwnReturned DEF Granted
<1>7. UNCHANGED <<left, forced>>
  BY DEF Granted
<1>8. CASE call.op = "keep" /\ kept' = kept \cup Elements(made) /\ UNCHANGED <<state, mine>>
  <2>1. \A d \in Clients : Named(d)' = Named(d)
    BY <1>8 DEF Named
  <2>2. Sessions'
    BY <1>3, <1>8, <2>1 DEF Sessions
  <2>3. Owned'
    BY <1>3, <1>4, <1>7, <1>8, <2>1 DEF Owned
  <2>4. ASSUME ~forced' PROVE Unforced'
    <3>1. Unforced
      BY <1>7, <2>4
    <3>2. \A d \in Clients : Own(d) => Own(d)'
      BY <1>5, <1>8, <2>1 DEF Own
    <3>3. \A d \in Clients : Standing(d) => Standing(d)'
      BY <1>3, <2>1 DEF Standing
    <3>. QED
      BY <1>2, <1>6, <1>7, <1>8, <3>1, <3>2, <3>3 DEF Unforced, Removing, Creating
  <2>. QED  BY <1>6, <2>2, <2>3, <2>4
<1>9. CASE /\ call.op = "operate" /\ kept' = kept
           /\ state' = [state EXCEPT ![c] = "working"] /\ mine' = [mine EXCEPT ![c] = made]
  <2>1. /\ state'[c] = "working" /\ Named(c)' = Elements(made)
        /\ \A d \in Clients \ {c} : state'[d] = state[d] /\ mine'[d] = mine[d] /\ Named(d)' = Named(d)
    BY <1>9 DEF LockInv, UsersTyped, Named
  <2>2. Sessions'
    BY <1>3, <1>9, <2>1 DEF Sessions
  <2>3. Owned'
    <3>1. Named(c) = {}
      BY <1>2, ElementsNone DEF Named
    <3>. SUFFICES ASSUME NEW p \in Locked
                  PROVE  token[p] \in kept \cup left \/ \E d \in Clients : token[p] \in Named(d)'
      BY <1>3, <1>7, <1>9 DEF Owned
    <3>2. \/ token[p] \in kept \cup left \/ token[p] \in Elements(made)
          \/ \E d \in Clients : token[p] \in Named(d)
      BY <1>4 DEF Owned
    <3>. QED  BY <2>1, <3>1, <3>2
  <2>4. ASSUME ~forced' PROVE Unforced'
    <3>1. Unforced
      BY <1>7, <2>4
    <3>2. ASSUME NEW d \in Clients, state'[d] = "working" PROVE Own(d)' /\ Standing(d)'
      <4>1. CASE d = c
        <5>1. Own(d)'
          BY <1>5, <1>9, <2>1, <4>1 DEF Own
        <5>2. \A x \in Elements(call.nodes) : /\ byToken[token[x]] = x /\ x \in Paths
                                              /\ x \notin held /\ x \notin finite
          BY <1>2, <1>9, <3>1 DEF LockInv, CallInv, Tree, TreeTyped, Found, Locked, Unforced
        <5>3. Standing(d)'
          BY <1>3, <1>4, <2>1, <4>1, <5>2, LockAssumption DEF Standing, LockAssumption
        <5>. QED  BY <5>1, <5>3
      <4>2. CASE d # c
        <5>1. Own(d) /\ Standing(d)
          BY <1>2, <2>1, <3>1, <3>2, <4>2 DEF Unforced, Removing, Creating
        <5>. QED  BY <1>3, <1>5, <1>9, <2>1, <4>2, <5>1 DEF Own, Standing
      <4>. QED  BY <4>1, <4>2
    <3>. QED
      BY <1>6, <1>7, <3>1, <3>2 DEF Unforced, Removing
  <2>. QED  BY <1>6, <2>2, <2>3, <2>4
<1>. QED  BY <1>1, <1>2, <1>8, <1>9 DEF Granted, Creating

LEMMA OwnExamine ==
  ASSUME LockInv, OwnInv, Examine
  PROVE  OwnInv'
<1>. USE DEF OwnInv
<1> DEFINE ns == [i \in DOMAIN call.tokens |-> byToken[call.tokens[i]]]
<1>1. PICK c \in Clients : call.who = c
  BY DEF Calling, Examine, Acting
<1>2. /\ call \in Call /\ call.op = "unlock" /\ call.step = "act" /\ call.nodes = <<>> /\ ~Creating
      /\ call.tokens \in Seq(Tokens)
  BY DEF Serving, Examine, Acting, Creating, LockInv, CallInv, Call
<1>3. /\ Locked' = Locked /\ token' = token /\ byToken' = byToken /\ finite' = finite
      /\ held' = held /\ \A d \in Clients : Named(d) \subseteq Tokens
  BY OwnKept DEF Examine, times
<1>4. CASE /\ \A i \in DOMAIN call.tokens : byToken[call.tokens[i]] # NoPath
                                            /\ byToken[call.tokens[i]] \notin held
           /\ call' = [call EXCEPT !.step = "remove", !.nodes = ns]
           /\ UNCHANGED users
  <2>1. /\ call'.who = c /\ call'.op = "unlock" /\ call'.step = "remove"
        /\ call'.tokens = call.tokens /\ call'.nodes = ns
    BY <1>1, <1>2, <1>4 DEF Call
  <2>2. UNCHANGED <<state, mine, kept, left, forced>> /\ \A d \in Clients : Named(d)' = Named(d)
    BY <1>4 DEF users, Named
  <2>3. Elements(ns) = {byToken[t] : t \in Elements(call.tokens)}
    BY DEF Elements
  <2>4. Sessions' /\ Calling'
    BY <1>1, <1>2, <1>3, <2>1, <2>2 DEF Sessions, Calling
  <2>5. Serving' /\ New'
    BY <1>3, <2>1, <2>3 DEF Serving, New, Creating, Removing
  <2>6. Owned'
    BY <1>2, <1>3, <2>2, ElementsNone DEF Owned
  <2>7. ASSUME ~forced' PROVE Unforced'
    <3>1. Unforced /\ ~Removing
      BY <1>2, <2>2, <2>7 DEF Removing
    <3>2. \A d \in Clients : (Own(d) => Own(d)') /\ (Standing(d) => Standing(d)')
      BY <1>3, <2>2 DEF Own, Standing
    <3>3. \A x \in Elements(ns) : token[x] \in Elements(call.tokens) \cup {NoToken}
      <4>. SUFFICES ASSUME NEW t \in Elements(call.tokens)
                    PROVE  token[byToken[t]] = t
        BY <2>3
      <4>1. t \in Tokens /\ byToken[t] # NoPath
        BY <1>2, <1>4 DEF Elements
      <4>. QED  BY <4>1 DEF LockInv, Tree, TreeTyped, Found
    <3>. QED
      BY <1>1, <1>2, <1>3, <2>1, <2>2, <3>1, <3>2, <3>3 DEF Unforced, Removing
  <2>. QED  BY <2>4, <2>5, <2>6, <2>7
<1>5. CASE /\ \E i \in DOMAIN call.tokens : byToken[call.tokens[i]] = NoPath
                                            \/ byToken[call.tokens[i]] \in held
           /\ Return /\ Answered(FALSE)
  <2>1. ASSUME ~forced PROVE state[c] = "idle"
    <3>1. SUFFICES ASSUME state[c] = "working" PROVE FALSE
      BY <1>1, <1>2 DEF Calling
    <3>2. Standing(c) /\ call.tokens = mine[c]
      BY <1>1, <1>2, <2>1, <3>1 DEF Unforced, Removing, Calling
    <3>. QED  BY <1>5, <3>2 DEF Standing, Named, Elements
  <2>. QED
    BY <1>1, <1>2, <1>3, <1>5, <2>1, OwnAnswered DEF Examine
<1>. QED  BY <1>4, <1>5 DEF Examine

LEMMA OwnRemoved ==
  ASSUME LockInv, OwnInv, Removed
  PROVE  OwnInv'
<1>. USE DEF OwnInv
<1>1. /\ Locked' = Locked /\ token' = token /\ byToken' = byToken /\ finite' = finite
      /\ held' = held /\ call.step = "remove" /\ call.nodes = <<>> /\ Return
      /\ UNCHANGED index
  BY OwnKept DEF Removed, times
<1>2. CASE call.op = "unlock" /\ Answered(TRUE)
  <2>1. PICK c \in Clients : call.who = c
    BY <1>2 DEF Calling
  <2>2. \A t \in Elements(call.tokens) : byToken[t] = NoPath
    BY <1>1, <1>2, ElementsNone DEF Serving, Removing
  <2>3. state[c] # "idle" => \A t \in Named(c) : byToken[t] = NoPath
    BY <1>2, <2>1, <2>2 DEF Calling, Named
  <2>. QED  BY <1>1, <1>2, <2>1, <2>3, OwnAnswered
<1>3. CASE call.op # "unlock" /\ UNCHANGED users
  <2>1. UNCHANGED <<state, mine, kept, left, forced>> /\ \A d \in Clients : Named(d)' = Named(d)
    BY <1>3 DEF users, Named
  <2>2. Calling' /\ Serving' /\ New' /\ ~Removing' /\ call'.op = "none" /\ call'.nodes = <<>>
    BY <1>1, OwnReturned
  <2>3. Sessions' /\ Owned'
    BY <1>1, <2>1, ElementsNone DEF Sessions, Owned
  <2>4. ASSUME ~forced' PROVE Unforced'
    <3>1. Unforced /\ ~Removing
      BY <1>3, <2>1, <2>4 DEF Removing
    <3>2. \A d \in Clients : (Own(d) => Own(d)') /\ (Standing(d) => Standing(d)')
      BY <1>1, <2>1 DEF Own, Standing
    <3>. QED
      BY <2>1, <2>2, <3>1, <3>2 DEF Unforced, Removing
  <2>. QED  BY <2>2, <2>3, <2>4
<1>. QED  BY <1>2, <1>3 DEF Removed

LEMMA OwnConfirm ==
  ASSUME LockInv, OwnInv, Confirm
  PROVE  OwnInv'
<1>. USE DEF OwnInv
<1> DEFINE t == call.tokens[1]  q == byToken[t]
<1>1. PICK c \in Clients : call.who = c
  BY DEF Calling, Confirm, Acting
<1>2. /\ call \in Call /\ call.op = "confirm" /\ call.step = "act" /\ call.nodes = <<>>
      /\ state[c] = "idle" /\ mine[c] = <<>> /\ t \in kept /\ t \in Tokens /\ Return
  <2>1. call.tokens \in Seq(Tokens) /\ call.tokens # <<>> /\ call.op = "confirm" /\ call.step = "act"
    BY DEF Confirm, Acting, LockInv, CallInv, Call
  <2>2. t \in Elements(call.tokens) /\ t \in Tokens
    BY <2>1 DEF Elements
  <2>. QED
    BY <1>1, <2>1, <2>2 DEF Confirm, Serving, Creating, LockInv, CallInv, Calling, Sessions
<1>3. /\ Locked' = Locked /\ token' = token /\ byToken' = byToken /\ finite' = finite
      /\ UNCHANGED index /\ \A d \in Clients : Named(d) \subseteq Tokens
  BY OwnKept DEF Confirm
<1>4. CASE /\ Covers(t, call.want[1].path) /\ held' = held \cup {q}
           /\ state' = [state EXCEPT ![c] = "holding"] /\ mine' = [mine EXCEPT ![c] = <<t>>]
           /\ UNCHANGED <<kept, left, forced>>
  <2>1. /\ state'[c] = "holding" /\ mine'[c] = <<t>> /\ Named(c)' = {t}
        /\ \A d \in Clients \ {c} : state'[d] = state[d] /\ mine'[d] = mine[d] /\ Named(d)' = Named(d)
    BY <1>4 DEF LockInv, UsersTyped, Named, Elements
  <2>2. Calling' /\ Serving' /\ New' /\ ~Removing' /\ call'.op = "none" /\ call'.nodes = <<>>
    BY <1>2, OwnReturned
  <2>3. Sessions'
    <3>1. \A d \in Clients \ {c} : state[d] = "holding" => mine[d][1] # t
      BY <1>4 DEF Sessions, Covers
    <3>2. q \in held'
      BY <1>4
    <3>3. ASSUME NEW d \in Clients \ {c} PROVE state[d] = "holding" => byToken[mine[d][1]] \in held'
      BY <1>4 DEF Sessions
    <3>. QED  BY <1>2, <1>3, <1>4, <2>1, <3>1, <3>2, <3>3 DEF Sessions
  <2>4. Owned'
    BY <1>2, <1>3, <1>4, <2>1, ElementsNone DEF Owned, Named
  <2>5. ASSUME ~forced' PROVE Unforced'
    <3>1. Unforced /\ ~Removing
      BY <1>2, <1>4, <2>5 DEF Removing
    <3>2. ASSUME NEW d \in Clients, state'[d] = "working" PROVE Own(d)' /\ Standing(d)'
      <4>1. d # c /\ Own(d) /\ Standing(d)
        BY <2>1, <3>1, <3>2 DEF Unforced
      <4>2. \A u \in Named(d) : u # t /\ u \in Tokens /\ byToken[u] # q
        <5>. SUFFICES ASSUME NEW u \in Named(d) PROVE u # t /\ u \in Tokens /\ byToken[u] # q
          OBVIOUS
        <5>1. u # t /\ u \in Tokens /\ byToken[u] # NoPath
          BY <1>2, <1>3, <4>1 DEF Own, Standing
        <5>. QED  BY <1>2, <5>1 DEF LockInv, Tree, TreeTyped, Found
      <4>. QED  BY <1>3, <1>4, <2>1, <4>1, <4>2 DEF Own, Standing
    <3>. QED  BY <1>4, <2>2, <3>1, <3>2 DEF Unforced, Removing
  <2>. QED  BY <2>2, <2>3, <2>4, <2>5
<1>5. CASE Answered(FALSE) /\ UNCHANGED times
  BY <1>1, <1>2, <1>3, <1>5, OwnAnswered DEF times
<1>. QED  BY <1>1, <1>4, <1>5 DEF Confirm

LEMMA OwnRefresh ==
  ASSUME LockInv, OwnInv, Refresh
  PROVE  OwnInv'
<1>. USE DEF OwnInv
<1> DEFINE t == call.tokens[1]  q == byToken[t]
<1>1. PICK c \in Clients : call.who = c
  BY DEF Calling, Refresh, Acting
<1>2. call.tokens \in Seq(Tokens) /\ call.tokens # <<>> /\ call.op = "refresh" /\ call.step = "act"
  BY DEF Refresh, Acting, LockInv, CallInv, Call
<1>3. t \in Elements(call.tokens) /\ t \in Tokens
  BY <1>2 DEF Elements
<1>4. call.nodes = <<>> /\ state[c] = "idle" /\ t \in kept
  BY <1>1, <1>2, <1>3 DEF Serving, Creating, Calling
<1>5. finite' \subseteq finite \/ (q # NoPath /\ finite' = finite \cup {q})
  BY DEF Refresh
<1>6. ASSUME NEW u \in Tokens \ kept, byToken[u] \in finite' PROVE byToken[u] \in finite
  <2>1. q # NoPath => byToken[u] # q
    BY <1>3, <1>4 DEF LockInv, Tree, TreeTyped, Found
  <2>. QED  BY <1>5, <1>6, <2>1
<1>. QED
  BY <1>1, <1>2, <1>4, <1>6, OwnAnswered DEF Refresh

LEMMA OwnUnhold ==
  ASSUME LockInv, OwnInv, NEW c \in Clients, Unhold(c)
  PROVE  OwnInv'
<1>. USE DEF OwnInv
<1> DEFINE t == mine[c][1]  q == byToken[t]
<1>1. /\ Locked' = Locked /\ token' = token /\ byToken' = byToken /\ finite' = finite
      /\ \A d \in Clients : Named(d) \subseteq Tokens
  BY OwnKept DEF Unhold
<1>2. /\ state[c] = "holding" /\ Named(c) = {t} /\ t \in kept /\ t \in Tokens /\ q \in held
      /\ call = NoCall /\ call' = call
  BY <1>1 DEF Unhold, Sessions
<1>3. call.op = "none" /\ call.step = "none" /\ call.nodes = <<>>
  BY <1>2 DEF NoCall
<1>4. /\ state'[c] = "idle" /\ mine'[c] = <<>> /\ Named(c)' = {}
      /\ \A d \in Clients \ {c} : state'[d] = state[d] /\ mine'[d] = mine[d] /\ Named(d)' = Named(d)
      /\ UNCHANGED <<kept, left, forced>> /\ held' = held \ {q}
  BY ElementsNone DEF Unhold, LockInv, UsersTyped, Named
<1>5. Sessions'
  <2>. SUFFICES ASSUME NEW d \in Clients \ {c}, state[d] = "holding"
                PROVE  byToken[mine[d][1]] # q
    BY <1>1, <1>4 DEF Sessions
  <2>1. mine[d][1] # t /\ mine[d][1] \in Tokens /\ byToken[mine[d][1]] \in held
    BY <1>1, <1>2 DEF Sessions
  <2>. QED  BY <1>2, <2>1 DEF LockInv, Tree, TreeTyped, Found, DetailsTyped
<1>6. Calling' /\ Serving' /\ New'
  BY <1>2, <1>3 DEF Calling, Serving, New, Creating, Removing
<1>7. Owned'
  BY <1>1, <1>2, <1>3, <1>4, ElementsNone DEF Owned
<1>8. ASSUME ~forced' PROVE Unforced'
  <2>1. Unforced /\ ~Removing
    BY <1>3, <1>4, <1>8 DEF Removing
  <2>2. ASSUME NEW d \in Clients, state'[d] = "working" PROVE Own(d)' /\ Standing(d)'
    <3>1. d # c /\ Own(d) /\ Standing(d)
      BY <1>4, <2>1, <2>2 DEF Unforced
    <3>. QED  BY <1>1, <1>4, <3>1 DEF Own, Standing
  <2>. QED  BY <1>2, <1>3, <1>4, <2>1, <2>2 DEF Unforced, Removing
<1>. QED  BY <1>5, <1>6, <1>7, <1>8

\* an expiry, or nothing
LEMMA OwnIdle ==
  ASSUME LockInv, OwnInv, UNCHANGED <<index, details>>, held' = held, call' = call,
         UNCHANGED users
  PROVE  OwnInv'
<1>. USE DEF OwnInv
<1>1. /\ Locked' = Locked /\ token' = token /\ byToken' = byToken /\ finite' = finite
      /\ UNCHANGED <<state, mine, kept, left, forced>>
      /\ \A d \in Clients : Named(d)' = Named(d)
  BY OwnKept DEF users
<1>2. Sessions' /\ Calling' /\ Serving' /\ New' /\ Owned'
  BY <1>1 DEF Sessions, Calling, Serving, New, Owned, Creating, Removing
<1>3. ASSUME ~forced' PROVE Unforced'
  <2>1. Unforced
    BY <1>1, <1>3
  <2>2. \A d \in Clients : (Own(d) => Own(d)') /\ (Standing(d) => Standing(d)')
    BY <1>1 DEF Own, Standing
  <2>. QED  BY <1>1, <2>1, <2>2 DEF Unforced, Removing
<1>. QED  BY <1>2, <1>3

LEMMA OwnStep == LockInv /\ OwnInv /\ [Next]_vars => OwnInv'
<1>. SUFFICES ASSUME LockInv, OwnInv, [Next]_vars PROVE OwnInv'
  OBVIOUS
<1>1. CASE CallStep
  BY <1>1, OwnCollect, OwnCreate, OwnGranted, OwnExamine, OwnRemove,
     OwnRemoved, OwnConfirm, OwnRefresh DEF CallStep
<1>2. ASSUME NEW c \in Clients, ClientStep(c) PROVE OwnInv'
  BY <1>2, OwnAsk, OwnUnhold DEF ClientStep
<1>3. ASSUME NEW p \in Paths, Expire(p) PROVE OwnInv'
  BY <1>3, OwnIdle DEF Expire
<1>4. CASE UNCHANGED vars
  BY <1>4, OwnIdle DEF vars, index, details, users
<1>. QED  BY <1>1, <1>2, <1>3, <1>4 DEF Next

\* Whatever is locked is somebody's, and an operation finds what it locked.
THEOREM OwnersInvariant == Spec => []OwnInv
<1>1. Init => LockInv /\ OwnInv
  BY InitHolds, OwnInit
<1>2. LockInv /\ OwnInv /\ [Next]_vars => (LockInv /\ OwnInv)'
  BY LockStep, OwnStep
<1>. QED  BY <1>1, <1>2, PTL DEF Spec

\* No lock without an end is forgotten: one that nobody was handed is in the
\* hands of a running request or of the call being answered, unless a user
\* has unlocked part of what a request held and its Release failed for it.
THEOREM NoLockForgotten == Spec => []NoOrphanLock
<1>1. OwnInv => NoOrphanLock
  <2>. SUFFICES ASSUME OwnInv PROVE NoOrphanLock
    OBVIOUS
  <2>1. Owned /\ (left # {} => forced)
    BY DEF OwnInv, Unforced
  <2>. QED  BY <2>1 DEF Owned, Named, NoOrphanLock
<1>. QED  BY <1>1, OwnersInvariant, PTL

(***************************************************************************)
(* The lock system implements PathLocks. No two locks clash, expired or    *)
(* not: canCreate refuses exactly what clashes with a lock that is there.  *)
(* What a call has made is what it was asked for, and when it takes that   *)
(* back, a lock in force or the batch itself was in the way.               *)
(***************************************************************************)
ForceLocks == {LockOf(p) : p \in InForce}
Wanted(r) == [path |-> r.path, zeroDepth |-> r.zeroDepth]
AskedLocks == IF Creating THEN [i \in DOMAIN call.want |-> Wanted(call.want[i])] ELSE <<>>

Marked == zeroDepth \subseteq Locked /\ overdue \subseteq Locked
Apart == \A p, q \in Locked : p # q => ~Abstract!Clash(LockOf(p), LockOf(q))
Collected == call.step = "act" => byExpiry \cap overdue = {}
Made ==
  Creating /\ call.step = "act" =>
    /\ Len(call.nodes) <= Len(call.want)
    /\ Injective(call.nodes) /\ Elements(call.nodes) \cap overdue = {}
    /\ \A i \in DOMAIN call.nodes : LockOf(call.nodes[i]) = Wanted(call.want[i])
Refused == Creating /\ call.step = "remove" => ~Abstract!Grantable

ForceInv == Marked /\ Apart /\ Collected /\ Made /\ Refused

LEMMA MapDef ==
  /\ Abstract!vars = <<ForceLocks, held, AskedLocks>>
  /\ Abstract!vars' = <<ForceLocks', held', AskedLocks'>>
BY DEF Abstract!vars, ForceLocks, AskedLocks, Wanted, Creating

Counts(p) == p \notin byExpiry \cap overdue /\ ~(Creating /\ p \in Elements(call.nodes))

LEMMA ForceIs ==
  /\ ForceLocks = {LockOf(p) : p \in {q \in Locked : Counts(q)}}
  /\ ForceLocks' = {LockOf(p)' : p \in {q \in Locked' : Counts(q)'}}
BY ElementsNone DEF ForceLocks, InForce, Pending, Creating, Counts

\* canCreate and the counters it reads
LEMMA CanCreateIs ==
  ASSUME LockInv, NEW r \in Request
  PROVE  CanCreate(r) <=> \A q \in Locked : ~Abstract!Clash(Wanted(r), LockOf(q))
<1> DEFINE p == r.path
<1>1. p \in Paths /\ r.zeroDepth \in BOOLEAN
  BY DEF Request
<1>2. \A q \in Locked : Abstract!Clash(Wanted(r), LockOf(q)) <=>
        (p = q \/ (q \in Above[p] /\ q \notin zeroDepth) \/ (p \in Above[q] /\ ~r.zeroDepth))
  BY DEF Abstract!Clash, Wanted, LockOf
<1>3. Above[p] \subseteq Paths
  BY <1>1, LockAssumption DEF LockAssumption
<1>4. token[p] = NoToken <=> p \notin Locked
  BY <1>1 DEF Locked
<1>5. (\A a \in Above[p] : token[a] = NoToken \/ a \in zeroDepth)
        <=> \A q \in Locked : ~(q \in Above[p] /\ q \notin zeroDepth)
  BY <1>3 DEF Locked
<1>6. childLocks[p] = {} <=> Below(p) = {}
  BY <1>1 DEF LockInv, Tree, Listed
<1>7. p \notin Locked => Under(p) = Below(p)
  BY DEF Under, Below
<1>8. refCount[p] \in Nat /\ (refCount[p] = 0 <=> Under(p) = {})
  BY <1>1, UnderFinite, FS_EmptySet DEF LockInv, Tree, Counted
<1>9. Below(p) = {} <=> \A q \in Locked : p \notin Above[q]
  BY DEF Below
<1>10. CASE p \in Locked
  BY <1>2, <1>4, <1>10 DEF CanCreate
<1>11. CASE p \notin Locked /\ Below(p) = {}
  <2>1. refCount[p] = 0
    BY <1>7, <1>8, <1>11
  <2>. QED  BY <1>2, <1>4, <1>5, <1>9, <1>11, <2>1 DEF CanCreate
<1>12. CASE p \notin Locked /\ Below(p) # {}
  <2>1. refCount[p] # 0 /\ childLocks[p] # {}
    BY <1>6, <1>7, <1>8, <1>12
  <2>. QED  BY <1>1, <1>2, <1>4, <1>5, <1>9, <1>12, <2>1 DEF CanCreate
<1>. QED  BY <1>10, <1>11, <1>12

LEMMA ForceInit == Init => ForceInv /\ Abstract!Init
<1>. SUFFICES ASSUME Init PROVE ForceInv /\ Abstract!Init
  OBVIOUS
<1>1. Locked = {} /\ InForce = {} /\ call.op = "none" /\ call.step = "none"
  BY DEF Locked, InForce, Init, NoCall
<1>2. ForceInv
  BY <1>1 DEF Init, ForceInv, Marked, Apart, Collected, Made, Refused, Creating
<1>. QED  BY <1>1, <1>2 DEF Init, Abstract!Init

LEMMA ForceKept ==
  ASSUME UNCHANGED <<index, details, times>>
  PROVE  /\ Locked' = Locked /\ held' = held /\ byExpiry' = byExpiry /\ overdue' = overdue
         /\ token' = token /\ zeroDepth' = zeroDepth
         /\ \A p : LockOf(p)' = LockOf(p)
         /\ Marked => Marked'
         /\ Apart => Apart'
BY DEF index, details, times, Locked, LockOf, Marked, Apart, Abstract!Clash

\* a request asks
LEMMA ForceEnter ==
  ASSUME LockInv, LockInv', ForceInv, call = NoCall, UNCHANGED <<index, details, times>>,
         call'.step = "collect", call'.nodes = <<>>
  PROVE  ForceInv' /\ Abstract!Ask
<1>1. call.op = "none" /\ call.nodes = <<>> /\ call' \in Call
  BY DEF NoCall, LockInv, CallInv
<1>2. ForceInv'
  BY ForceKept DEF ForceInv, Collected, Made, Refused
<1>3. ForceLocks' = ForceLocks
  BY <1>1, ElementsNone, ForceIs, ForceKept DEF Counts
<1>4. AskedLocks = <<>>
  BY <1>1 DEF AskedLocks, Creating
<1>5. AskedLocks' \in Seq(Abstract!Lock)
  <2>1. call'.want \in Seq(Request)
    BY <1>1 DEF Call
  <2>2. \A i \in DOMAIN call'.want : Wanted(call'.want[i]) \in Abstract!Lock
    <3>. SUFFICES ASSUME NEW i \in DOMAIN call'.want
                  PROVE  Wanted(call'.want[i]) \in Abstract!Lock
      OBVIOUS
    <3>1. call'.want[i] \in Request
      BY <2>1
    <3>. QED  BY <3>1 DEF Wanted, Request, Abstract!Lock
  <2>3. [i \in DOMAIN call'.want |-> Wanted(call'.want[i])] \in Seq(Abstract!Lock)
    BY <2>1, <2>2
  <2>. QED  BY <2>3 DEF AskedLocks
<1>. QED
  BY <1>2, <1>3, <1>4, <1>5, ForceKept
     DEF Abstract!Ask, ForceLocks, AskedLocks, Wanted, Creating

LEMMA ForceAsk ==
  ASSUME LockInv, LockInv', ForceInv, NEW c \in Clients,
         \/ Operate(c) \/ Keep(c) \/ Release(c) \/ Discard(c) \/ ForceUnlock(c)
         \/ AskConfirm(c) \/ AskRefresh(c)
  PROVE  ForceInv' /\ Abstract!Ask
<1>1. PICK o, w, ts : Enter(c, o, w, ts)
  BY DEF Operate, Keep, Release, Discard, ForceUnlock, AskConfirm, AskRefresh
<1>. QED  BY <1>1, ForceEnter DEF Enter

LEMMA ForceCollect ==
  ASSUME LockInv, ForceInv, Collect
  PROVE  ForceInv' /\ UNCHANGED Abstract!vars
<1>1. call.step = "collect" /\ call.nodes = <<>> /\ call \in Call
  BY DEF Collect, LockInv, CallInv
<1>2. ASSUME NEW p \in byExpiry \cap overdue, Unlink(p), UNCHANGED call
      PROVE  ForceInv' /\ UNCHANGED Abstract!vars
  <2>1. p \in Paths /\ token[p] \in Tokens
    BY <1>2 DEF LockInv, Heaped, Locked, Tree, TreeTyped
  <2>2. Locked' = Locked \ {p}
    BY <1>2, <2>1, UnlinkLocks DEF LockInv, Tree
  <2>3. /\ held' = held /\ zeroDepth' = zeroDepth \ {p}
        /\ byExpiry' = byExpiry \ {p} /\ overdue' = overdue \ {p}
    BY <1>2 DEF Unlink
  <2>4. \A x : x # p => LockOf(x)' = LockOf(x)
    BY <2>3 DEF LockOf
  <2>5. Marked' /\ Apart'
    BY <2>2, <2>3, <2>4 DEF ForceInv, Marked, Apart, Abstract!Clash
  <2>6. ForceInv'
    BY <1>1, <1>2, <2>5 DEF ForceInv, Collected, Made, Refused
  <2>7. ForceLocks' = ForceLocks
    BY <1>1, <1>2, <2>2, <2>3, <2>4, ForceIs, ElementsNone DEF Counts, Creating
  <2>8. AskedLocks' = AskedLocks
    BY <1>2 DEF AskedLocks, Creating
  <2>. QED  BY <2>3, <2>6, <2>7, <2>8, MapDef
<1>3. CASE /\ byExpiry \cap overdue = {} /\ call' = [call EXCEPT !.step = "act"]
           /\ UNCHANGED <<index, details, times>>
  <2>1. /\ call'.op = call.op /\ call'.step = "act" /\ call'.want = call.want
        /\ call'.nodes = <<>>
    BY <1>1, <1>3 DEF Call
  <2>2. Collected' /\ Refused'
    BY <1>3, <2>1, ForceKept DEF Collected, Refused
  <2>3. Made'
    <3>1. Len(call.want) \in Nat
      BY <1>1 DEF Call
    <3>. QED  BY <2>1, <3>1, ElementsNone DEF Made, Injective
  <2>4. ForceInv'
    BY <1>3, <2>2, <2>3, ForceKept DEF ForceInv
  <2>5. ForceLocks' = ForceLocks
    BY <1>1, <1>3, <2>1, ForceIs, ForceKept DEF Counts, Creating
  <2>6. AskedLocks' = AskedLocks
    BY <2>1 DEF AskedLocks, Creating
  <2>. QED  BY <1>3, <2>4, <2>5, <2>6, MapDef, ForceKept
<1>. QED  BY <1>2, <1>3 DEF Collect

\* Grantable, in terms of the lock system
LEMMA GrantableIs ==
  /\ Abstract!Grantable <=>
       /\ \A i \in DOMAIN AskedLocks, l \in ForceLocks : ~Abstract!Clash(AskedLocks[i], l)
       /\ \A i, j \in DOMAIN AskedLocks : i # j => ~Abstract!Clash(AskedLocks[i], AskedLocks[j])
  /\ ForceLocks' = ForceLocks /\ AskedLocks' = AskedLocks
       => (Abstract!Grantable' <=> Abstract!Grantable)
<1>1. Abstract!Grantable <=>
        /\ \A i \in DOMAIN AskedLocks, l \in ForceLocks : ~Abstract!Clash(AskedLocks[i], l)
        /\ \A i, j \in DOMAIN AskedLocks : i # j => ~Abstract!Clash(AskedLocks[i], AskedLocks[j])
  BY DEF Abstract!Grantable, ForceLocks, AskedLocks, Wanted, Creating
<1>2. Abstract!Grantable' <=>
        /\ \A i \in DOMAIN AskedLocks', l \in ForceLocks' : ~Abstract!Clash(AskedLocks'[i], l)
        /\ \A i, j \in DOMAIN AskedLocks' : i # j => ~Abstract!Clash(AskedLocks'[i], AskedLocks'[j])
  BY DEF Abstract!Grantable, Abstract!Clash, ForceLocks, AskedLocks, Wanted, Creating
<1>. QED  BY <1>1, <1>2

LEMMA ClashBothWays ==
  ASSUME NEW a, NEW b
  PROVE  Abstract!Clash(a, b) <=> Abstract!Clash(b, a)
BY DEF Abstract!Clash

LEMMA ForceCreate ==
  ASSUME LockInv, ForceInv, CreateOne
  PROVE  ForceInv' /\ UNCHANGED Abstract!vars
<1>1. /\ call \in Call /\ call.step = "act" /\ Creating
      /\ call.want \in Seq(Request) /\ call.nodes \in Seq(Paths) /\ Len(call.nodes) < Len(call.want)
      /\ Elements(call.nodes) \subseteq Locked
  BY DEF CreateOne, Acting, LockInv, CallInv, Creating, Call
<1>0. PICK n \in DOMAIN call.want, r \in Request : n = Len(call.nodes) + 1 /\ r = call.want[n]
  BY <1>1
<1> DEFINE p == r.path
<1>2. p \in Paths /\ r.zeroDepth \in BOOLEAN
  BY DEF Request
<1>3. /\ Injective(call.nodes) /\ Elements(call.nodes) \cap overdue = {} /\ byExpiry \cap overdue = {}
      /\ \A i \in DOMAIN call.nodes : LockOf(call.nodes[i]) = Wanted(call.want[i])
  BY <1>1 DEF ForceInv, Made, Collected
<1>4. ASSUME CanCreate(r), NEW t \in Fresh, Link(p, t),
             zeroDepth' = IF r.zeroDepth THEN zeroDepth \cup {p} ELSE zeroDepth,
             byExpiry' = IF r.finite THEN byExpiry \cup {p} ELSE byExpiry,
             call' = [call EXCEPT !.nodes = Append(@, p)],
             UNCHANGED <<held, overdue>>
      PROVE  ForceInv' /\ UNCHANGED Abstract!vars
  <2>1. Locked' = Locked \cup {p}
    BY <1>2, <1>4, LinkLocks DEF LockInv, Tree, Fresh
  <2>2. p \notin Locked /\ p \notin overdue /\ p \notin zeroDepth
    BY <1>4 DEF CanCreate, Locked, ForceInv, Marked
  <2>3. LockOf(p)' = Wanted(r) /\ \A x : x # p => LockOf(x)' = LockOf(x)
    BY <1>2, <1>4, <2>2 DEF LockOf, Wanted
  <2>4. /\ call'.op = call.op /\ call'.step = "act" /\ call'.want = call.want
        /\ call'.nodes = Append(call.nodes, p)
        /\ Elements(call'.nodes) = Elements(call.nodes) \cup {p}
    BY <1>1, <1>2, <1>4, ElementsMore DEF Call
  <2>5. Marked'
    BY <1>4, <2>1 DEF ForceInv, Marked
  <2>6. Apart'
    <3>. SUFFICES ASSUME NEW x \in Locked \cup {p}, NEW y \in Locked \cup {p}, x # y
                  PROVE  ~Abstract!Clash(LockOf(x)', LockOf(y)')
      BY <2>1 DEF Apart, Abstract!Clash
    <3>1. \A q \in Locked : ~Abstract!Clash(Wanted(r), LockOf(q))
      BY <1>2, <1>4, CanCreateIs
    <3>2. CASE x # p /\ y # p
      BY <2>3, <3>2 DEF ForceInv, Apart
    <3>3. CASE x = p
      BY <2>3, <3>1, <3>3
    <3>4. CASE y = p
      BY <2>3, <3>1, <3>4, ClashBothWays
    <3>. QED  BY <3>2, <3>3, <3>4
  <2>7. Collected' /\ Refused'
    BY <1>3, <1>4, <2>2, <2>4 DEF Collected, Refused
  <2>8. Made'
    <3>1. DOMAIN call'.nodes = (DOMAIN call.nodes) \cup {n} /\ call'.nodes[n] = p
          /\ n \notin DOMAIN call.nodes
          /\ \A i \in DOMAIN call.nodes : call'.nodes[i] = call.nodes[i]
                                          /\ call.nodes[i] \in Elements(call.nodes)
      BY <1>0, <1>1, <1>2, <2>4 DEF Elements
    <3>2. \A i \in DOMAIN call.nodes : call.nodes[i] # p
      BY <1>1, <2>2, <3>1
    <3>3. Injective(call'.nodes)
      BY <1>3, <3>1, <3>2 DEF Injective
    <3>4. ASSUME NEW i \in DOMAIN call'.nodes, NEW x, x = call'.nodes[i]
          PROVE  LockOf(x)' = Wanted(call'.want[i])
      BY <1>0, <1>3, <2>3, <2>4, <3>1, <3>2, <3>4
    <3>5. Len(call'.nodes) <= Len(call'.want)
      BY <1>0, <1>1, <2>4
    <3>6. Elements(call'.nodes) \cap overdue' = {}
      BY <1>3, <1>4, <2>2, <2>4
    <3>. QED  BY <3>3, <3>4, <3>5, <3>6 DEF Made, LockOf
  <2>9. ForceLocks' = ForceLocks
    <3>1. \A q \in Locked : q # p /\ (Counts(q)' <=> Counts(q))
      BY <1>1, <1>3, <1>4, <2>2, <2>4 DEF Counts, Creating
    <3>2. ~Counts(p)'
      BY <1>1, <2>4 DEF Counts, Creating
    <3>. QED  BY <2>1, <2>3, <3>1, <3>2, ForceIs
  <2>10. AskedLocks' = AskedLocks
    BY <2>4 DEF AskedLocks, Creating
  <2>. QED  BY <1>4, <2>5, <2>6, <2>7, <2>8, <2>9, <2>10, MapDef DEF ForceInv
<1>5. CASE /\ ~CanCreate(r) /\ call' = [call EXCEPT !.step = "remove"]
           /\ UNCHANGED <<index, details, times>>
  <2>1. /\ call'.op = call.op /\ call'.step = "remove" /\ call'.want = call.want
        /\ call'.nodes = call.nodes
    BY <1>1, <1>5 DEF Call
  <2>2. ForceLocks' = ForceLocks
    BY <1>5, <2>1, ForceIs, ForceKept DEF Counts, Creating
  <2>3. AskedLocks' = AskedLocks
    BY <2>1 DEF AskedLocks, Creating
  <2>4. AskedLocks = [i \in DOMAIN call.want |-> Wanted(call.want[i])]
    BY <1>1 DEF AskedLocks
  <2>5. ~Abstract!Grantable
    <3>1. PICK q \in Locked : Abstract!Clash(AskedLocks[n], LockOf(q))
      BY <1>0, <1>2, <1>5, <2>4, CanCreateIs
    <3>2. ASSUME NEW j \in DOMAIN call.nodes, q = call.nodes[j]
          PROVE  ~Abstract!Grantable
      <4>1. j \in DOMAIN call.want /\ j # n /\ AskedLocks[j] = LockOf(q)
        BY <1>0, <1>1, <1>3, <2>4, <3>2
      <4>. QED  BY <1>0, <1>2, <2>4, <3>1, <4>1, GrantableIs
    <3>3. CASE q \notin Elements(call.nodes)
      <4>1. LockOf(q) \in ForceLocks
        BY <1>3, <3>3, ForceIs DEF Counts
      <4>. QED  BY <1>0, <1>2, <2>4, <3>1, <4>1, GrantableIs
    <3>. QED  BY <3>2, <3>3 DEF Elements
  <2>6. Refused'
    BY <2>2, <2>3, <2>5, GrantableIs DEF Refused
  <2>7. ForceInv'
    BY <1>5, <2>1, <2>6, ForceKept DEF ForceInv, Collected, Made
  <2>. QED  BY <1>5, <2>2, <2>3, <2>7, MapDef, ForceKept
<1>. QED  BY <1>0, <1>4, <1>5 DEF CreateOne

\* after a call there is nothing asked for
LEMMA ForceReturned ==
  ASSUME Return
  PROVE  /\ Collected' /\ Made' /\ Refused' /\ ~Creating' /\ AskedLocks' = <<>>
         /\ call'.nodes = <<>>
BY DEF Return, NoCall, Collected, Made, Refused, Creating, AskedLocks

LEMMA ForceGranted ==
  ASSUME LockInv, ForceInv, Granted
  PROVE  ForceInv' /\ Abstract!Grant
<1>1. /\ call \in Call /\ call.step = "act" /\ Creating /\ Return
      /\ call.want \in Seq(Request) /\ call.nodes \in Seq(Paths) /\ Len(call.nodes) = Len(call.want)
      /\ Elements(call.nodes) \subseteq Locked /\ UNCHANGED <<index, details, times>>
  BY DEF Granted, Acting, LockInv, CallInv, Creating, Call
<1>2. /\ Injective(call.nodes) /\ byExpiry \cap overdue = {}
      /\ \A i \in DOMAIN call.nodes : LockOf(call.nodes[i]) = Wanted(call.want[i])
  BY <1>1 DEF ForceInv, Made, Collected
<1>3. AskedLocks = [i \in DOMAIN call.want |-> Wanted(call.want[i])]
  BY <1>1 DEF AskedLocks
<1>4. DOMAIN call.nodes = DOMAIN call.want
  BY <1>1
<1>5. \A i \in DOMAIN AskedLocks : /\ i \in DOMAIN call.nodes /\ AskedLocks[i] = LockOf(call.nodes[i])
                                   /\ call.nodes[i] \in Locked /\ call.nodes[i] \in Elements(call.nodes)
  BY <1>1, <1>2, <1>3, <1>4 DEF Elements
<1>6. Abstract!Grantable
  <2>1. ASSUME NEW i \in DOMAIN AskedLocks, NEW l \in ForceLocks
        PROVE  ~Abstract!Clash(AskedLocks[i], l)
    <3>1. PICK q \in Locked : l = LockOf(q) /\ Counts(q)
      BY ForceIs
    <3>2. q # call.nodes[i]
      BY <1>1, <1>5, <3>1 DEF Counts
    <3>. QED  BY <1>5, <3>1, <3>2 DEF ForceInv, Apart
  <2>2. ASSUME NEW i \in DOMAIN AskedLocks, NEW j \in DOMAIN AskedLocks, i # j
        PROVE  ~Abstract!Clash(AskedLocks[i], AskedLocks[j])
    <3>1. call.nodes[i] # call.nodes[j]
      BY <1>2, <1>5, <2>2 DEF Injective
    <3>. QED  BY <1>5, <3>1 DEF ForceInv, Apart
  <2>. QED  BY <2>1, <2>2, GrantableIs
<1>7. ForceLocks' = ForceLocks \cup {AskedLocks[i] : i \in DOMAIN AskedLocks}
  <2>1. ForceLocks' = {LockOf(q) : q \in Locked}
    BY <1>1, <1>2, ForceIs, ForceKept, ForceReturned DEF Counts
  <2>2. ForceLocks = {LockOf(q) : q \in Locked \ Elements(call.nodes)}
    BY <1>1, <1>2, ForceIs DEF Counts
  <2>3. {AskedLocks[i] : i \in DOMAIN AskedLocks} = {LockOf(q) : q \in Elements(call.nodes)}
    <3>1. DOMAIN AskedLocks = DOMAIN call.nodes
      BY <1>3, <1>4
    <3>. QED  BY <1>5, <3>1 DEF Elements
  <2>. QED  BY <1>1, <2>1, <2>2, <2>3
<1>8. ForceInv'
  BY <1>1, ForceKept, ForceReturned DEF ForceInv
<1>9. AskedLocks' = <<>> /\ held' = held
  BY <1>1, ForceKept, ForceReturned
<1>. QED
  BY <1>6, <1>7, <1>8, <1>9 DEF Abstract!Grant, ForceLocks, AskedLocks, Wanted, Creating

LEMMA ForceExamine ==
  ASSUME LockInv, ForceInv, Examine
  PROVE  ForceInv' /\ UNCHANGED Abstract!vars
<1>1. /\ call \in Call /\ call.op = "unlock" /\ ~Creating /\ UNCHANGED <<index, details, times>>
  BY DEF Examine, Acting, LockInv, CallInv, Creating
<1>2. call'.op \notin {"operate", "keep"} /\ call'.step # "act"
  <2>1. CASE Return
    BY <2>1 DEF Return, NoCall
  <2>2. ASSUME NEW ns, call' = [call EXCEPT !.step = "remove", !.nodes = ns]
        PROVE  call'.op = call.op /\ call'.step = "remove"
    BY <1>1, <2>2 DEF Call
  <2>. QED  BY <1>1, <2>1, <2>2 DEF Examine
<1>3. Collected' /\ Made' /\ Refused' /\ ~Creating'
  BY <1>2 DEF Collected, Made, Refused, Creating
<1>4. ForceLocks' = ForceLocks
  BY <1>1, <1>3, ForceIs, ForceKept DEF Counts
<1>5. AskedLocks' = AskedLocks
  BY <1>1, <1>3 DEF AskedLocks
<1>. QED  BY <1>1, <1>3, <1>4, <1>5, MapDef, ForceKept DEF ForceInv

\* Unlock, or Create taking back what it made
LEMMA ForceRemove ==
  ASSUME LockInv, ForceInv, RemoveOne
  PROVE  /\ ForceInv'
         /\ UNCHANGED Abstract!vars \/ \E gone \in SUBSET ForceLocks : Abstract!Drop(gone)
<1>1. /\ call \in Call /\ call.step = "remove" /\ call.nodes \in Seq(Paths) /\ call.nodes # <<>>
  BY DEF RemoveOne, LockInv, CallInv, Call
<1>2. PICK p \in Paths : /\ p = Head(call.nodes) /\ p \in Elements(call.nodes)
                         /\ token[p] \in Tokens /\ Unlink(p) /\ p \notin held
  BY <1>1, ElementsLess DEF RemoveOne, LockInv, Tree, TreeTyped, CallInv
<1>3. /\ call'.op = call.op /\ call'.step = "remove" /\ call'.want = call.want
      /\ call'.nodes = Tail(call.nodes)
  BY <1>1 DEF Call, RemoveOne
<1>4. /\ Elements(Tail(call.nodes)) \subseteq Elements(call.nodes)
      /\ Elements(call.nodes) \subseteq Elements(Tail(call.nodes)) \cup {p}
  BY <1>1, <1>2, ElementsLess, ElementsRest
<1>5. Locked' = Locked \ {p}
  BY <1>2, UnlinkLocks DEF LockInv, Tree
<1>6. /\ held' = held /\ zeroDepth' = zeroDepth \ {p}
      /\ byExpiry' = byExpiry \ {p} /\ overdue' = overdue \ {p}
  BY <1>2 DEF Unlink
<1>7. \A x : x # p => LockOf(x)' = LockOf(x)
  BY <1>6 DEF LockOf
<1>8. Marked' /\ Apart'
  BY <1>5, <1>6, <1>7 DEF ForceInv, Marked, Apart, Abstract!Clash
<1>9. \A q \in Locked \ {p} : Counts(q)' <=> Counts(q)
  BY <1>3, <1>4, <1>6 DEF Counts, Creating
<1>10. ForceLocks' = {LockOf(q) : q \in {x \in Locked \ {p} : Counts(x)}}
  BY <1>5, <1>7, <1>9, ForceIs
<1>11. ForceLocks' = ForceLocks \ {LockOf(p)}
  <2>1. \A q : LockOf(q) = LockOf(p) => q = p
    BY DEF LockOf
  <2>. QED  BY <1>10, <2>1, ForceIs
<1>12. AskedLocks' = AskedLocks
  BY <1>3 DEF AskedLocks, Creating
<1>13. CASE Creating
  <2>1. ForceLocks' = ForceLocks
    BY <1>2, <1>10, <1>13, ForceIs DEF Counts
  <2>2. Refused'
    <3>1. ~Abstract!Grantable
      BY <1>1, <1>13 DEF ForceInv, Refused
    <3>2. ~Abstract!Grantable'
      BY <1>12, <2>1, <3>1, GrantableIs
    <3>. QED  BY <3>2 DEF Refused
  <2>3. ForceInv'
    BY <1>3, <1>8, <2>2 DEF ForceInv, Collected, Made
  <2>. QED  BY <1>6, <1>12, <2>1, <2>3, MapDef
<1>14. CASE ~Creating
  <2>1. ForceInv'
    BY <1>3, <1>8, <1>14 DEF ForceInv, Collected, Made, Refused, Creating
  <2>2. Abstract!Drop(ForceLocks \cap {LockOf(p)})
    <3>1. LockOf(p).path \notin held
      BY <1>2 DEF LockOf
    <3>. QED
      BY <1>6, <1>11, <1>12, <3>1
         DEF Abstract!Drop, ForceLocks, AskedLocks, Wanted, Creating
  <2>. QED  BY <2>1, <2>2
<1>. QED  BY <1>13, <1>14

LEMMA ForceRemoved ==
  ASSUME LockInv, ForceInv, Removed
  PROVE  ForceInv' /\ (UNCHANGED Abstract!vars \/ Abstract!Refuse)
<1>1. /\ call.step = "remove" /\ call.nodes = <<>> /\ Return /\ UNCHANGED <<index, details, times>>
  BY DEF Removed
<1>2. ForceInv'
  BY <1>1, ForceKept, ForceReturned DEF ForceInv
<1>3. ForceLocks' = ForceLocks
  BY <1>1, ElementsNone, ForceIs, ForceKept, ForceReturned DEF Counts
<1>4. AskedLocks' = <<>> /\ held' = held
  BY <1>1, ForceKept, ForceReturned
<1>5. CASE Creating
  <2>1. ~Abstract!Grantable
    BY <1>1, <1>5 DEF ForceInv, Refused
  <2>. QED
    BY <1>2, <1>3, <1>4, <2>1 DEF Abstract!Refuse, ForceLocks, AskedLocks, Wanted, Creating
<1>6. CASE ~Creating
  <2>1. AskedLocks = <<>>
    BY <1>6 DEF AskedLocks
  <2>. QED  BY <1>2, <1>3, <1>4, <2>1, MapDef
<1>. QED  BY <1>5, <1>6

\* calls that hold a lock or give it more time find the expired ones collected
LEMMA ForceConfirm ==
  ASSUME LockInv, ForceInv, Confirm
  PROVE  /\ ForceInv'
         /\ UNCHANGED Abstract!vars \/ \E l \in ForceLocks : Abstract!Hold(l)
<1>1. /\ ~Creating /\ byExpiry \cap overdue = {} /\ Return /\ UNCHANGED <<index, details>>
      /\ call.tokens \in Seq(Tokens) /\ call.tokens # <<>>
  BY DEF Confirm, Acting, Creating, ForceInv, Collected, LockInv, CallInv, Call
<1>2. PICK t \in Tokens : t = call.tokens[1]
  BY <1>1
<1> DEFINE q == byToken[t]
<1>3. /\ AskedLocks = <<>> /\ AskedLocks' = <<>> /\ ~Creating'
      /\ Collected' /\ Made' /\ Refused'
  BY <1>1, ForceReturned DEF AskedLocks
<1>4. Locked' = Locked /\ \A x : LockOf(x)' = LockOf(x)
  BY <1>1 DEF index, details, Locked, LockOf
<1>5. overdue' = overdue /\ byExpiry' \subseteq byExpiry
  BY DEF Confirm, times
<1>6. Marked' /\ Apart'
  BY <1>1, <1>4, <1>5 DEF details, ForceInv, Marked, Apart, Abstract!Clash
<1>7. ForceLocks = {LockOf(x) : x \in Locked} /\ ForceLocks' = {LockOf(x) : x \in Locked}
  BY <1>1, <1>3, <1>4, <1>5, ForceIs DEF Counts
<1>8. CASE Covers(t, call.want[1].path) /\ held' = held \cup {q}
  <2>1. q \in Paths /\ q \in Locked /\ q \notin held
    BY <1>2, <1>8, LockAssumption
       DEF LockAssumption, Covers, LockInv, Tree, TreeTyped, Found, Locked
  <2>2. Abstract!Hold(LockOf(q)) /\ LockOf(q) \in ForceLocks
    <3>1. LockOf(q).path = q
      BY DEF LockOf
    <3>. QED
      BY <1>3, <1>7, <1>8, <2>1, <3>1
         DEF Abstract!Hold, ForceLocks, AskedLocks, Wanted, Creating
  <2>. QED  BY <1>3, <1>6, <2>2 DEF ForceInv
<1>9. CASE held' = held
  BY <1>3, <1>6, <1>7, <1>9, MapDef DEF ForceInv
<1>. QED  BY <1>2, <1>8, <1>9 DEF Confirm, times

LEMMA ForceRefresh ==
  ASSUME LockInv, ForceInv, Refresh
  PROVE  ForceInv' /\ UNCHANGED Abstract!vars
<1>1. /\ ~Creating /\ byExpiry \cap overdue = {} /\ Return /\ UNCHANGED <<index, zeroDepth, held>>
  BY DEF Refresh, Acting, Creating, ForceInv, Collected
<1>2. /\ AskedLocks = <<>> /\ AskedLocks' = <<>> /\ ~Creating'
      /\ Collected' /\ Made' /\ Refused'
  BY <1>1, ForceReturned DEF AskedLocks
<1>3. Locked' = Locked /\ \A x : LockOf(x)' = LockOf(x)
  BY <1>1 DEF index, Locked, LockOf
<1>4. overdue' \subseteq overdue /\ byExpiry' \cap overdue' = {}
  BY <1>1 DEF Refresh
<1>5. Marked' /\ Apart'
  BY <1>1, <1>3, <1>4 DEF ForceInv, Marked, Apart, Abstract!Clash
<1>6. ForceLocks = {LockOf(x) : x \in Locked} /\ ForceLocks' = {LockOf(x) : x \in Locked}
  BY <1>1, <1>2, <1>3, <1>4, ForceIs DEF Counts
<1>. QED  BY <1>1, <1>2, <1>5, <1>6, MapDef DEF ForceInv

LEMMA ForceUnhold ==
  ASSUME LockInv, OwnInv, ForceInv, NEW c \in Clients, Unhold(c)
  PROVE  /\ ForceInv'
         /\ \E l \in ForceLocks : Abstract!Unhold(l)
<1>1. PICK q : q = byToken[mine[c][1]]
  OBVIOUS
<1>2. q \in held /\ q \in Locked
  BY <1>1 DEF Unhold, OwnInv, Sessions, LockInv, Attached
<1>3. /\ call.op = "none" /\ call.step = "none" /\ call' = call
      /\ UNCHANGED <<index, details, overdue>> /\ held' = held \ {q}
      /\ byExpiry' = byExpiry \/ byExpiry' = byExpiry \cup {q}
  BY <1>1 DEF Unhold, NoCall
<1>4. Locked' = Locked /\ \A x : LockOf(x)' = LockOf(x)
  BY <1>3 DEF index, details, Locked, LockOf
<1>5. ForceInv'
  BY <1>3, <1>4
     DEF details, ForceInv, Marked, Apart, Abstract!Clash, Collected, Made, Refused, Creating
<1>6. q \notin byExpiry
  BY <1>2 DEF LockInv, Heaped
<1>7. LockOf(q) \in ForceLocks /\ \A x : LockOf(x) = LockOf(q) => x = q
  BY <1>2, <1>3, <1>6, ForceIs DEF Counts, Creating, LockOf
<1>8. ForceLocks' \in {ForceLocks, ForceLocks \ {LockOf(q)}}
  <2>1. \A x \in Locked : x # q => (Counts(x)' <=> Counts(x))
    BY <1>3 DEF Counts, Creating
  <2>2. Counts(q)
    BY <1>3, <1>6 DEF Counts, Creating
  <2>3. CASE Counts(q)'
    BY <1>4, <2>1, <2>2, <2>3, ForceIs
  <2>4. CASE ~Counts(q)'
    BY <1>4, <1>7, <2>1, <2>4, ForceIs
  <2>. QED  BY <2>3, <2>4
<1>9. AskedLocks' = AskedLocks
  BY <1>3 DEF AskedLocks, Creating
<1>10. Abstract!Unhold(LockOf(q))
  <2>1. LockOf(q).path = q
    BY DEF LockOf
  <2>. QED
    BY <1>2, <1>3, <1>8, <1>9, <2>1
       DEF Abstract!Unhold, ForceLocks, AskedLocks, Wanted, Creating
<1>. QED  BY <1>5, <1>7, <1>10

LEMMA ForceExpire ==
  ASSUME LockInv, ForceInv, NEW p \in Paths, Expire(p)
  PROVE  /\ ForceInv'
         /\ UNCHANGED Abstract!vars \/ \E gone \in SUBSET ForceLocks : Abstract!Drop(gone)
<1>1. /\ call.op = "none" /\ call.step = "none" /\ call' = call /\ UNCHANGED <<index, details>>
      /\ held' = held /\ byExpiry' = byExpiry /\ overdue' = overdue \cup {p} /\ p \in Locked
  BY DEF Expire, NoCall, LockInv, Attached
<1>2. Locked' = Locked /\ \A x : LockOf(x)' = LockOf(x)
  BY <1>1 DEF index, details, Locked, LockOf
<1>3. ForceInv'
  BY <1>1, <1>2
     DEF details, ForceInv, Marked, Apart, Abstract!Clash, Collected, Made, Refused, Creating
<1>4. AskedLocks' = AskedLocks
  BY <1>1 DEF AskedLocks, Creating
<1>5. \A x \in Locked : x # p => (Counts(x)' <=> Counts(x))
  BY <1>1 DEF Counts, Creating
<1>6. CASE p \in byExpiry
  <2>1. ~Counts(p)' /\ p \notin held
    BY <1>1, <1>6 DEF Counts, LockInv, Heaped
  <2>2. \A x : LockOf(x) = LockOf(p) => x = p
    BY DEF LockOf
  <2>3. ForceLocks' = ForceLocks \ {LockOf(p)}
    BY <1>2, <1>5, <2>1, <2>2, ForceIs
  <2>4. Abstract!Drop(ForceLocks \cap {LockOf(p)})
    <3>1. LockOf(p).path \notin held
      BY <2>1 DEF LockOf
    <3>. QED
      BY <1>1, <1>4, <2>3, <3>1 DEF Abstract!Drop, ForceLocks, AskedLocks, Wanted, Creating
  <2>. QED  BY <1>3, <2>4
<1>7. CASE p \notin byExpiry
  <2>1. Counts(p)' <=> Counts(p)
    BY <1>1, <1>7 DEF Counts, Creating
  <2>2. ForceLocks' = ForceLocks
    BY <1>2, <1>5, <2>1, ForceIs
  <2>. QED  BY <1>1, <1>3, <1>4, <2>2, MapDef
<1>. QED  BY <1>6, <1>7

LEMMA ForceStep ==
  LockInv /\ OwnInv /\ ForceInv /\ [Next]_vars => ForceInv' /\ [Abstract!Next]_(Abstract!vars)
<1>. SUFFICES ASSUME LockInv, OwnInv, ForceInv, [Next]_vars
              PROVE  ForceInv' /\ [Abstract!Next]_(Abstract!vars)
  OBVIOUS
<1>0. LockInv'
  BY LockStep
<1>1. Abstract!Next <=>
        \/ Abstract!Ask \/ Abstract!Grant \/ Abstract!Refuse
        \/ \E gone \in SUBSET ForceLocks : Abstract!Drop(gone)
        \/ \E l \in ForceLocks : Abstract!Hold(l) \/ Abstract!Unhold(l)
  BY DEF Abstract!Next, ForceLocks
<1>2. CASE CallStep
  BY <1>1, <1>2, ForceCollect, ForceCreate, ForceGranted, ForceExamine, ForceRemove, ForceRemoved,
     ForceConfirm, ForceRefresh DEF CallStep
<1>3. ASSUME NEW c \in Clients, ClientStep(c) PROVE ForceInv' /\ [Abstract!Next]_(Abstract!vars)
  BY <1>0, <1>1, <1>3, ForceAsk, ForceUnhold DEF ClientStep
<1>4. ASSUME NEW p \in Paths, Expire(p) PROVE ForceInv' /\ [Abstract!Next]_(Abstract!vars)
  BY <1>1, <1>4, ForceExpire
<1>5. CASE UNCHANGED vars
  <2>1. UNCHANGED <<index, details, times>> /\ call' = call
    BY <1>5 DEF vars, index, details, times
  <2>2. ForceLocks' = ForceLocks
    BY <2>1, ForceIs, ForceKept DEF Counts, Creating
  <2>3. AskedLocks' = AskedLocks
    BY <2>1 DEF AskedLocks, Creating
  <2>4. ForceInv'
    BY <2>1, <2>2, <2>3, ForceKept, GrantableIs
       DEF ForceInv, Collected, Made, Refused, Creating
  <2>. QED  BY <2>1, <2>2, <2>3, <2>4, MapDef, ForceKept
<1>. QED  BY <1>2, <1>3, <1>4, <1>5 DEF Next

\* The lock system implements PathLocks, whatever the requests, expiries and
\* forced unlocks: no two locks in force clash, a batch is granted as a whole
\* or leaves nothing, a request is refused only for a lock that is in force,
\* and no lock goes while a request holds it.
THEOREM LocksImplementPathLocks == Spec => Implements
<1>1. Init => LockInv /\ OwnInv /\ ForceInv /\ Abstract!Init
  BY InitHolds, OwnInit, ForceInit
<1>2. LockInv /\ OwnInv /\ ForceInv /\ [Next]_vars
        => (LockInv /\ OwnInv /\ ForceInv)' /\ [Abstract!Next]_(Abstract!vars)
  BY LockStep, OwnStep, ForceStep
<1>. QED  BY <1>1, <1>2, PTL DEF Spec, Implements, Abstract!Spec
=============================================================================
