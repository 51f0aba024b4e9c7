\* Stop at any moment; every ticket fills the window, room for one, blocking overflow.
SPECIFICATION FairSpec
CONSTANTS
    Requests = {r1, r2}
    Scheduler = "fifo"
    MaxQueueSize = 1
    Overflow = "block"
    Priorities = {0}
    Timeouts = {0}
    EventBuf = 0
    Capacity = 2
    DefaultTokens = 1
    TokenParams = {2}
    MayStop = TRUE
PROPERTIES GateSpec AnsweredUntilStop GoroutinesStop
\* A handler can be left blocked on the work channel after Stop.
CHECK_DEADLOCK FALSE
