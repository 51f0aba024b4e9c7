\* Three connections, room for two dynamic endpoints, three configurations.
SPECIFICATION ServerSpec
CONSTANTS
    Callers = {c1, c2, c3}
    Paths <- MCPaths
    Fields = {"algorithm", "burst"}
    Algorithms = {1, 2}
    ConfigLists <- MCConfigLists
    MaxDynamic = 2
INVARIANTS DynamicCapHolds InheritsNearestConfigured SamePathSameEndpoint FallbackOnlyAtCap
INVARIANTS DrainIsGraceful NothingLeftRunning
PROPERTY ShutdownReturns
\* Each connection carries one request, and the process ends.
CHECK_DEADLOCK FALSE
