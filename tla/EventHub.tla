------------------------------ MODULE EventHub ------------------------------
(* The file event feed: pkg/filemanager/eventhub, its rows in the database   *)
(* (inventory/fs_event.go), the operations that emit events                  *)
(* (fs/dbfs/events.go) and the SSE handler that serves a client              *)
(* (service/explorer/events.go).                                             *)
(*                                                                           *)
(* A stream is a pair of a topic (a folder) and a client identifier; the hub *)
(* keeps one subscriber per stream, the database one list of rows per        *)
(* client.  Subscriber objects outlive their place in the hub: a timer or an *)
(* operation that read the hub earlier may still hold one.                   *)
EXTENDS Debounce

CONSTANTS Topics, Clients, Streams, Conns,
          ChanSize,                             \* bufSize
          MaxOps, MaxSubs, MaxFlushes, MaxFaults \* bounds of the model

ASSUME StreamsAssumption == Streams \subseteq Topics \X Clients
ASSUME NoneAssumption ==
    None \notin Names \cup Streams \cup Event \cup (Topics \X Names)
ASSUME BoundsAssumption ==
    ChanSize \in Nat \ {0} /\ MaxOps \in Nat /\ MaxSubs \in Nat
      /\ MaxFlushes \in Nat /\ MaxFaults \in Nat

Subs == 1 .. MaxSubs
Places == Topics \X Names
NoSub == 0

VARIABLES
    server,     \* file -> <<topic, name>> or None: the tables of the file system
    emitting,   \* file -> what its last operation has still to publish
    hub,        \* stream -> subscriber in e.topics, or NoSub
    up,         \* FALSE once Close has run
    sub,        \* subscriber objects
    rows,       \* client -> rows of fs_events (with the stream they came from)
    conn,       \* the SSE handlers
    view,       \* stream -> the listing the client shows, or Unknown
    ops, faults

vars == <<server, emitting, hub, up, sub, rows, conn, view, ops, faults>>
fileVars == <<server, ops>>

Client(st) == st[2]
Topic(st) == st[1]
Unused == [stream |-> None, online |-> FALSE, closed |-> TRUE, buffer |-> <<>>,
           timer |-> FALSE, flushes |-> 0, ch |-> <<>>]
NewSubscriber(st) ==
    [Unused EXCEPT !.stream = st, !.online = TRUE, !.closed = FALSE]
Idle == [pc |-> "idle", stream |-> None, ch |-> NoSub]
Quiet == [op |-> "none", old |-> None, new |-> None, to |-> {}]
EmptyView == [f \in Files |-> None]

(* One of the losses named below has happened to the client since its        *)
(* subscriber was made: its listing is no longer followed.                   *)
Unknown == None
Missed(st) == view' = [view EXCEPT ![st] = Unknown]
MissedIf(st, why) == IF why THEN Missed(st) ELSE UNCHANGED view

(* What the client of a stream should see.                                   *)
Listing(st) ==
    [f \in Files |-> IF server[f] # None /\ server[f][1] = Topic(st)
                     THEN server[f][2] ELSE None]

Init ==
    /\ server \in [Files -> Places \cup {None}]
    /\ \A f, g \in Files : server[f] = server[g] => f = g \/ server[f] = None
    /\ emitting = [f \in Files |-> Quiet]
    /\ hub = [st \in Streams |-> NoSub]
    /\ up = TRUE
    /\ sub = [s \in Subs |-> Unused]
    /\ rows = [c \in Clients |-> <<>>]
    /\ conn = [k \in Conns |-> Idle]
    /\ view = [st \in Streams |-> EmptyView]
    /\ ops = 0
    /\ faults = 0

Fault == faults < MaxFaults /\ faults' = faults + 1
NoFault == UNCHANGED faults

(* e.mu: an Unsubscribe between Stop and setOffline holds it.                *)
HubFree == \A k \in Conns : conn[k].pc # "stopping"

-----------------------------------------------------------------------------
(* Operations on files, by users other than the clients (an event is never   *)
(* sent to the client that caused it).  The path lock of the file is held    *)
(* until its events are published; that an upload has modified it is         *)
(* published after the unlock, here taken to be before the next operation.   *)

Free(t, n) == \A f \in Files : server[f] # <<t, n>>

Commit(f, op, new) ==
    /\ ops < MaxOps
    /\ ops' = ops + 1
    /\ emitting[f] = Quiet
    /\ server' = [server EXCEPT ![f] = new]
    /\ emitting' = [emitting EXCEPT ![f] =
                        [op |-> op, old |-> server[f], new |-> new, to |-> {}]]
    /\ UNCHANGED <<hub, up, sub, rows, conn, view, faults>>

(* An upload, or a file that is restored from the trash.                     *)
FileCreated(f, t, n) ==
    server[f] = None /\ Free(t, n) /\ Commit(f, "create", <<t, n>>)
FileModified(f) ==
    server[f] # None /\ Commit(f, "modify", server[f])
FileRenamed(f, n) ==
    /\ server[f] # None
    /\ Free(server[f][1], n)
    /\ Commit(f, "rename", <<server[f][1], n>>)
FileDeleted(f) ==
    server[f] # None /\ Commit(f, "delete", None)
FileMoved(f, t) ==
    /\ server[f] # None
    /\ t # server[f][1]
    /\ Free(t, server[f][2])
    /\ Commit(f, "move", <<t, server[f][2]>>)

Subscribed(place) == {st \in Streams : place # None /\ hub[st] # NoSub
                                         /\ Topic(st) = place[1]}
Clients_(sts) == {Client(st) : st \in sts}

(* emitFileCreated, emitFileModified, emitFileRenamed, emitFileDeleted, and  *)
(* emitFileMoved, which matches the subscribers of the two folders by their  *)
(* client.  A folder has no folders above it here.                           *)
EventsOf(f, e) ==
    LET src == Subscribed(e.old)
        dst == Subscribed(e.new)
        Ev(type, from, to) == EventOf(type, f, from, to)
        Send(sts, ev) == {[sub |-> hub[st], event |-> ev] : st \in sts}
    IN  CASE e.op = "create" -> Send(dst, Ev("create", e.new[2], None))
          [] e.op = "modify" -> Send(src, Ev("modify", e.old[2], None))
          [] e.op = "rename" -> Send(src, Ev("rename", e.old[2], e.new[2]))
          [] e.op = "delete" -> Send(src, Ev("delete", e.old[2], None))
          [] e.op = "move" ->
                LET both == Clients_(src) \cap Clients_(dst)
                    Of(sts, cs) == {st \in sts : Client(st) \in cs}
                IN  Send(Of(src, both), Ev("rename", e.old[2], e.new[2]))
                      \cup Send({st \in src : Client(st) \notin both},
                                Ev("delete", e.old[2], None))
                      \cup Send({st \in dst : Client(st) \notin both},
                                Ev("create", e.new[2], None))

(* GetSubscribers takes a copy; the events are published without e.mu.       *)
GetSubscribers(f) ==
    /\ HubFree
    /\ emitting[f].op \notin {"none", "publish"}
    /\ LET to == EventsOf(f, emitting[f])
       IN  emitting' = [emitting EXCEPT ![f] =
                            IF to = {} THEN Quiet
                            ELSE [Quiet EXCEPT !.op = "publish", !.to = to]]
    /\ UNCHANGED <<fileVars, hub, up, sub, rows, conn, view, faults>>

(* Mutant: a closed subscriber is given the event too.                       *)
PublishToClosed(f, m) ==
    /\ emitting[f].op = "publish"
    /\ m \in emitting[f].to
    /\ LET rest == emitting[f].to \ {m}
       IN  emitting' = [emitting EXCEPT ![f] =
                            IF rest = {} THEN Quiet ELSE [@ EXCEPT !.to = rest]]
    /\ sub' = [sub EXCEPT ![m.sub].buffer = Append(@, m.event), ![m.sub].timer = TRUE]
    /\ UNCHANGED <<fileVars, hub, up, rows, conn, view, faults>>

Publish(f, m) ==
    /\ emitting[f].op = "publish"
    /\ m \in emitting[f].to
    /\ LET rest == emitting[f].to \ {m}
       IN  emitting' = [emitting EXCEPT ![f] =
                            IF rest = {} THEN Quiet ELSE [@ EXCEPT !.to = rest]]
    /\ sub' = IF sub[m.sub].closed THEN sub
              ELSE [sub EXCEPT ![m.sub].buffer = Append(@, m.event),
                               ![m.sub].timer = TRUE]
    /\ UNCHANGED <<fileVars, hub, up, rows, conn, view, faults>>

-----------------------------------------------------------------------------
(* flushLocked: s is the subscriber as its caller left it.  It forgets a     *)
(* timer that has been started meanwhile without stopping it: that one       *)
(* still fires, and nobody can stop it any more.                             *)

Cleared(s) == [s EXCEPT !.buffer = <<>>, !.timer = FALSE,
                        !.flushes = IF s.timer THEN @ + 1 ELSE @]

Sent(ch, events) ==
    LET room == ChanSize - Len(ch)
    IN  ch \o SubSeq(events, 1, IF Len(events) < room THEN Len(events) ELSE room)

FlushOnline(i, s) ==
    LET merged == DebounceEvents(s.buffer)
    IN  /\ sub' = [sub EXCEPT ![i] = [Cleared(s) EXCEPT !.ch = Sent(s.ch, merged)]]
        /\ MissedIf(s.stream, \/ Len(s.ch) + Len(merged) > ChanSize
                              \/ \E f \in Files : DeletedTwice(s.buffer, f))
        /\ UNCHANGED <<rows, faults>>

(* The row of an event does not say which topic it came from: stream is not  *)
(* a column, it is recorded for the properties.                              *)
StoreRows(i, s) ==
    /\ sub' = [sub EXCEPT ![i] = Cleared(s)]
    /\ rows' = [rows EXCEPT ![Client(s.stream)] = @ \o
                  [j \in DOMAIN s.buffer |->
                      [event |-> s.buffer[j], stream |-> s.stream]]]
    /\ UNCHANGED <<view, faults>>

(* The insertion fails: its error is dropped and the buffer cleared.         *)
RowsLost(i, s) ==
    /\ Fault
    /\ sub' = [sub EXCEPT ![i] = Cleared(s)]
    /\ Missed(s.stream)
    /\ UNCHANGED rows

(* The owner cannot be read: the buffer stays, and no timer is started.      *)
OwnerUnknown(i, s) ==
    /\ Fault
    /\ sub' = [sub EXCEPT ![i] = s]
    /\ UNCHANGED <<rows, view>>

FlushLocked(i, s) ==
    IF s.buffer = <<>> \/ s.closed
    THEN sub' = [sub EXCEPT ![i] = s] /\ UNCHANGED <<rows, view, faults>>
    ELSE IF s.online THEN FlushOnline(i, s)
    ELSE StoreRows(i, s) \/ RowsLost(i, s) \/ OwnerUnknown(i, s)

(* The timer fires: its callback then waits for s.mu.                        *)
TimerFires(i) ==
    /\ sub[i].timer
    /\ sub[i].flushes < MaxFlushes
    /\ sub' = [sub EXCEPT ![i].timer = FALSE, ![i].flushes = @ + 1]
    /\ UNCHANGED <<fileVars, emitting, hub, up, rows, conn, view, faults>>

Flush(i) ==
    /\ sub[i].flushes > 0
    /\ FlushLocked(i, [sub[i] EXCEPT !.flushes = @ - 1])
    /\ UNCHANGED <<fileVars, emitting, hub, up, conn>>

-----------------------------------------------------------------------------
(* Subscribe, called by a handler that starts.                               *)

Open(k, st, i, pc) ==
    conn' = [conn EXCEPT ![k] = [pc |-> pc, stream |-> st, ch |-> i]]

SubscribeNew(k, st) ==
    \E i \in Subs :
        /\ sub[i] = Unused
        /\ \A j \in Subs : j < i => sub[j] # Unused
        /\ sub' = [sub EXCEPT ![i] = NewSubscriber(st)]
        /\ hub' = [hub EXCEPT ![st] = i]
        /\ view' = [view EXCEPT ![st] =
                      IF rows[Client(st)] = <<>> THEN EmptyView ELSE Unknown]
        /\ Open(k, st, i, "subscribed")
        /\ UNCHANGED <<rows, faults>>

(* Mutant: the timer is left as it is.                                       *)
SetOnlineUnarmed(k, st, i) ==
    LET taken == rows[Client(st)]
        buffer == sub[i].buffer \o [j \in DOMAIN taken |-> taken[j].event]
    IN  /\ sub' = [sub EXCEPT ![i].online = TRUE, ![i].buffer = buffer]
        /\ rows' = [rows EXCEPT ![Client(st)] = <<>>]
        /\ MissedIf(st, sub[i].buffer # <<>> /\ taken # <<>>)
        /\ UNCHANGED <<hub, faults>>
        /\ Open(k, st, i, "resumed")

(* setOnline: the rows are taken and put BEHIND what is buffered.  They are  *)
(* read and deleted in one step: of this client nobody else adds any.        *)
SetOnline(k, st, i) ==
    LET taken == rows[Client(st)]
        buffer == sub[i].buffer \o [j \in DOMAIN taken |-> taken[j].event]
        late == sub[i].buffer # <<>> /\ taken # <<>>
    IN  /\ sub' = [sub EXCEPT ![i].online = TRUE, ![i].buffer = buffer,
                              ![i].timer = @ \/ buffer # <<>>]
        /\ rows' = [rows EXCEPT ![Client(st)] = <<>>]
        /\ MissedIf(st, late)
        /\ UNCHANGED <<hub, faults>>
        /\ Open(k, st, i, "resumed")

(* The rows cannot be read, or cannot be deleted: they stay, and the timer   *)
(* is left as it is.                                                         *)
SetOnlineFails(k, st, i) ==
    /\ Fault
    /\ sub' = [sub EXCEPT ![i].online = TRUE]
    /\ Missed(st)
    /\ Open(k, st, i, "resumed")
    /\ UNCHANGED <<rows, hub>>

Subscribe(k, st) ==
    /\ up /\ HubFree
    /\ conn[k].pc = "idle"
    /\ \A j \in Conns : conn[j].stream = st => conn[j].pc = "left"
    /\ IF hub[st] = NoSub THEN SubscribeNew(k, st)
       ELSE SetOnline(k, st, hub[st]) \/ SetOnlineFails(k, st, hub[st])
    /\ UNCHANGED <<fileVars, emitting, up>>

(* Greeted with "subscribed" rather than "resumed", the client lists the     *)
(* folder again.  The listing may already show what events that are not      *)
(* merged yet will tell: the other half of a pair that cancels out then      *)
(* takes the first with it.                                                  *)
ClientLists(k) ==
    /\ conn[k].pc = "subscribed"
    /\ LET st == conn[k].stream
           ahead == \/ sub[conn[k].ch].buffer # <<>> \/ rows[Client(st)] # <<>>
                    \/ \E f \in Files : emitting[f] # Quiet
       IN  view' = [view EXCEPT ![st] =
                      IF ahead \/ @ = Unknown THEN Unknown ELSE Listing(st)]
    /\ conn' = [conn EXCEPT ![k].pc = "resumed"]
    /\ UNCHANGED <<fileVars, emitting, hub, up, sub, rows, faults>>

ClientLeaves(k) ==
    /\ conn[k].pc \in {"subscribed", "resumed"}
    /\ conn' = [conn EXCEPT ![k].pc = "left"]
    /\ MissedIf(conn[k].stream, conn[k].pc = "subscribed")
    /\ UNCHANGED <<fileVars, emitting, hub, up, sub, rows, faults>>

(* The handler's loop takes an event from its channel.  Nobody reads what it *)
(* writes once the client has gone; another handler of the stream may share  *)
(* the channel.                                                              *)
HandlerSends(k) ==
    /\ conn[k].pc \in {"subscribed", "resumed", "left"}
    /\ LET i == conn[k].ch
           st == conn[k].stream
           gone == conn[k].pc = "left"
       IN  /\ sub[i].ch # <<>>
           /\ sub' = [sub EXCEPT ![i].ch = Tail(@)]
           /\ view' = [view EXCEPT ![st] =
                 IF gone \/ @ = Unknown THEN Unknown
                 ELSE IF conn[k].pc = "subscribed" THEN @
                 ELSE Apply(@, Head(sub[i].ch))]
    /\ UNCHANGED <<fileVars, emitting, hub, up, rows, conn, faults>>

(* Unsubscribe looks the subscriber up by topic and client: it need not be   *)
(* the one this handler was given.  Stop, then setOffline.                   *)
Stop(k) ==
    /\ conn[k].pc = "left"
    /\ HubFree
    /\ LET i == hub[conn[k].stream]
       IN  IF ~up \/ i = NoSub
           THEN conn' = [conn EXCEPT ![k] = Idle]
                /\ UNCHANGED <<sub, rows, view, faults>>
           ELSE conn' = [conn EXCEPT ![k].pc = "stopping"]
                /\ FlushLocked(i, [sub[i] EXCEPT !.timer = FALSE])
    /\ UNCHANGED <<fileVars, emitting, hub, up>>

SetOffline(k) ==
    /\ conn[k].pc = "stopping"
    /\ LET i == hub[conn[k].stream]
       IN  FlushLocked(i, [sub[i] EXCEPT !.online = FALSE, !.timer = FALSE])
    /\ conn' = [conn EXCEPT ![k] = Idle]
    /\ UNCHANGED <<fileVars, emitting, hub, up>>

(* The channel was closed: the handler returns, and the client reconnects.   *)
HandlerEnds(k) ==
    /\ conn[k].pc \in {"subscribed", "resumed", "left"}
    /\ sub[conn[k].ch].closed /\ sub[conn[k].ch].ch = <<>>
    /\ conn' = [conn EXCEPT ![k] = Idle]
    /\ UNCHANGED <<fileVars, emitting, hub, up, sub, rows, view, faults>>

-----------------------------------------------------------------------------
(* close of a set of subscribers; the error of DeleteBySubscriber is         *)
(* dropped.                                                                  *)
CloseSubs(is) ==
    /\ sub' = [i \in Subs |-> IF i \in is
                              THEN [sub[i] EXCEPT !.closed = TRUE, !.timer = FALSE,
                                                  !.buffer = <<>>]
                              ELSE sub[i]]
    /\ \/ /\ rows' = [c \in Clients |-> IF c \in Clients_({sub[i].stream : i \in is})
                                        THEN <<>> ELSE rows[c]]
          /\ NoFault
       \/ Fault /\ UNCHANGED rows

(* cleanupExpiredSubscribers, for one that has been offline too long.        *)
Expire(st) ==
    /\ up /\ HubFree
    /\ hub[st] # NoSub
    /\ ~sub[hub[st]].online
    /\ CloseSubs({hub[st]})
    /\ hub' = [hub EXCEPT ![st] = NoSub]
    /\ UNCHANGED <<fileVars, emitting, up, conn, view>>

Close ==
    /\ up /\ HubFree
    /\ up' = FALSE
    /\ CloseSubs({hub[st] : st \in Streams} \ {NoSub})
    /\ hub' = [st \in Streams |-> NoSub]
    /\ UNCHANGED <<fileVars, emitting, conn, view>>

(* The process ends and a new one starts, which deletes every row.           *)
Restart ==
    /\ Fault
    /\ up' = TRUE
    /\ hub' = [st \in Streams |-> NoSub]
    /\ sub' = [i \in Subs |-> Unused]
    /\ emitting' = [f \in Files |-> Quiet]
    /\ conn' = [k \in Conns |-> Idle]
    /\ rows' \in {rows, [c \in Clients |-> <<>>]}
    /\ UNCHANGED <<fileVars, view>>

-----------------------------------------------------------------------------
FileOperation ==
    \E f \in Files :
        \/ \E t \in Topics, n \in Names : FileCreated(f, t, n)
        \/ FileModified(f) \/ FileDeleted(f)
        \/ \E n \in Names : FileRenamed(f, n)
        \/ \E t \in Topics : FileMoved(f, t)

Emission == \E f \in Files :
    GetSubscribers(f) \/ \E m \in emitting[f].to : Publish(f, m)

Handler(k) == ClientLists(k) \/ HandlerSends(k) \/ Stop(k) \/ SetOffline(k)
                \/ HandlerEnds(k)

Next ==
    \/ FileOperation
    \/ Emission
    \/ \E i \in Subs : TimerFires(i) \/ Flush(i)
    \/ \E k \in Conns : Handler(k) \/ ClientLeaves(k)
                          \/ \E st \in Streams : Subscribe(k, st)
    \/ \E st \in Streams : Expire(st)
    \/ Close
    \/ Restart

Spec == Init /\ [][Next]_vars

-----------------------------------------------------------------------------
TypeOK ==
    /\ server \in [Files -> Places \cup {None}]
    /\ \A f \in Files :
          /\ emitting[f].op \in {"none", "create", "modify", "rename", "delete",
                                 "move", "publish"}
          /\ \A m \in emitting[f].to : m.sub \in Subs /\ m.event \in Event
    /\ hub \in [Streams -> {NoSub} \cup Subs]
    /\ up \in BOOLEAN
    /\ \A i \in Subs :
          /\ sub[i].stream \in Streams \cup {None}
          /\ sub[i].flushes \in 0 .. MaxFlushes
          /\ Len(sub[i].ch) <= ChanSize
          /\ ToSet(sub[i].buffer) \cup ToSet(sub[i].ch) \subseteq Event
    /\ \A c \in Clients, r \in UNION {ToSet(rows[d]) : d \in Clients} :
          r.event \in Event /\ r.stream \in Streams
    /\ \A k \in Conns : conn[k].pc \in
          {"idle", "subscribed", "resumed", "left", "stopping"}
    /\ view \in [Streams -> [Files -> Names \cup {None}] \cup {Unknown}]
    /\ ops \in 0 .. MaxOps
    /\ faults \in 0 .. MaxFaults

(* Nothing for the stream is on its way.                                     *)
Drained(st) ==
    /\ hub[st] # NoSub
    /\ sub[hub[st]].buffer = <<>> /\ sub[hub[st]].ch = <<>>
    /\ rows[Client(st)] = <<>>
    /\ \A f \in Files : emitting[f] = Quiet

(* A client that is connected and has received everything shows the folder   *)
(* as it is, whatever was merged, stored while it was away, taken back or    *)
(* published to a subscriber that had just been replaced; unless one of the  *)
(* named losses happened since its subscriber was made (eventhub, all of     *)
(* it).                                                                      *)
Converged ==
    \A st \in Streams :
        /\ Drained(st)
        /\ view[st] # Unknown
        /\ \E k \in Conns : conn[k] = [pc |-> "resumed", stream |-> st, ch |-> hub[st]]
        => view[st] = Listing(st)

(* Once closed, a subscriber neither sends on its channel (Go would panic)   *)
(* nor leaves rows for the subscriber that follows it, whatever timer or     *)
(* operation still holds it (subscriber.close, flushLocked, Publish).        *)
ClosedStaysSilent ==
    [][\A i \in Subs : sub[i].closed /\ sub[i].stream # None /\ sub'[i] # Unused =>
          /\ Len(sub'[i].ch) <= Len(sub[i].ch)
          /\ sub'[i].buffer = <<>>
          /\ sub'[i].closed]_vars

(* What an online subscriber has buffered is on its way: a timer runs or a   *)
(* flush waits for the mutex.  No sequence of stopping, storing, going       *)
(* offline and coming back, with one failure of the database, leaves events  *)
(* that nothing will ever send (setOnline, setOffline, Stop, flushLocked).   *)
BufferHasTimer ==
    \A i \in Subs :
        (sub[i].online /\ ~sub[i].closed /\ sub[i].buffer # <<>>)
            => sub[i].timer \/ sub[i].flushes > 0

(* Doc: "Buffered events will be kept for when the subscriber reconnects"    *)
(* (eventhub.go:20): the stored events of an offline subscriber stay while   *)
(* it is offline and not expired.                                            *)
RowsOf(c, i) == SelectSeq(rows[c], LAMBDA r : r.stream = sub[i].stream)
KeptForReconnect ==
    [][\A st \in Streams :
          LET i == hub[st]
          IN  (i # NoSub /\ hub'[st] = i /\ ~sub[i].online /\ ~sub'[i].online)
                => IsPrefix(RowsOf(Client(st), i), RowsOf(Client(st), i)')]_vars

(* Doc: "Rename(a->b) + Modify -> emit Rename(a->b) then a single Modify at  *)
(* b" (event.go:42): the client is told of a modification that follows a     *)
(* rename.                                                                   *)
Has(events, f, types) == \E e \in ToSet(events) : e.file = f /\ e.type \in types
ModifyNotLost ==
    \A i \in Subs, f \in Files :
        LET in == sub[i].buffer
            RenamedThenModified == \E j, k \in DOMAIN in :
                /\ j < k /\ in[j].file = f /\ in[k].file = f
                /\ in[j].type = "rename" /\ in[k].type = "modify"
        IN  RenamedThenModified /\ ~Has(in, f, {"create", "delete"})
              => Has(DebounceEvents(in), f, {"modify"})
=============================================================================
