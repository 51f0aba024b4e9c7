\* One ticket whose client leaves while it is released.
SPECIFICATION Spec
CONSTANTS
    Requests = {r1}
    Scheduler = "fifo"
    MaxQueueSize = 1
    Overflow = "reject"
    Priorities = {0}
    Timeouts = {0}
    EventBuf = 0
    Capacity = 1
    DefaultTokens = 1
    TokenParams = {0}
    MayStop = FALSE
INVARIANT PendingExact
CHECK_DEADLOCK FALSE
