\* Two tickets through a queue of one place.
SPECIFICATION Spec
CONSTANTS
    Requests = {r1, r2}
    Scheduler = "fifo"
    MaxQueueSize = 1
    Overflow = "reject"
    Priorities = {0}
    Timeouts = {0}
    EventBuf = 0
    Capacity = 1
    DefaultTokens = 1
    TokenParams = {0}
    MayStop = FALSE
INVARIANT SignalNeverBlocks
CHECK_DEADLOCK FALSE
