\* One client and the folder it watches; files also come from and go to a
\* folder nobody watches.
SPECIFICATION Spec
CONSTANTS
    None = None
    t1 = t1
    t2 = t2
    c1 = c1
    Topics = {t1, t2}
    Clients = {c1}
    Streams <- OneStream
    Conns = {k1, k2}
    Files = {f1}
    Names = {"a", "b"}
    ChanSize = 1
    MaxOps = 3
    MaxSubs = 2
    MaxFlushes = 1
    MaxFaults = 1
INVARIANTS  BufferHasTimer
PROPERTIES ClosedStaysSilent
CHECK_DEADLOCK FALSE
