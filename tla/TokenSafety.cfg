\* Three tickets of one or two tokens, or too large for the window of two; room for
\* two, an event sink of one slot.
SPECIFICATION Spec
CONSTANTS
    Requests = {r1, r2, r3}
    Scheduler = "fifo"
    MaxQueueSize = 2
    Overflow = "reject"
    Priorities = {0}
    Timeouts = {0}
    EventBuf = 1
    Capacity = 2
    DefaultTokens = 1
    TokenParams = {0, 2, 3}
    MayStop = FALSE
SYMMETRY Symmetry
INVARIANTS BudgetPerWindow NoFittingTicketForgotten ReleasedOnce PendingNeverInflated
PROPERTY FavorsServeOrder
\* An idle endpoint waits for requests, clients and Stop.
CHECK_DEADLOCK FALSE
