\* The four queues with up to four of five tickets.
SPECIFICATION QueueSpec
CONSTANTS
    Schedulers = {"fifo", "lifo", "random", "priority"}
    MaxQueueSize = 4
    Tickets = {1, 2, 3, 4, 5}
    Priorities = {0, 1}
    Costs = {1, 2}
    Budgets = {1, 3}
INVARIANTS PopServesFirst PopWhereGreedy OrderKept
