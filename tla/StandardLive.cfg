\* A queue of one place, blocking overflow, an event sink that may never be read.
SPECIFICATION FairSpec
CONSTANTS
    Requests = {r1, r2, r3}
    Scheduler = "lifo"
    MaxQueueSize = 1
    Overflow = "block"
    Priorities = {0}
    Timeouts = {0}
    EventBuf = 1
    Available = {0}
PROPERTIES Answered DeadTicketsDrain DispatcherStops
