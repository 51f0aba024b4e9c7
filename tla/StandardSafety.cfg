\* Three requests, room for two, an event sink of one slot: the queue, the work
\* channel and the sink all fill up.  Priorities and admission with burst tokens.
SPECIFICATION Spec
CONSTANTS
    Requests = {r1, r2, r3}
    Scheduler = "priority"
    MaxQueueSize = 2
    Overflow = "reject"
    Priorities = {0, 1}
    Timeouts = {0, 1}
    EventBuf = 1
    Available <- MCAvailable
SYMMETRY Symmetry
INVARIANTS TypeOK Conservation SignalNeverBlocks PermitNeverWasted ReleasedOnce
PROPERTY GateSpec
