\* Two requests for configured and dynamic paths, three keys.
SPECIFICATION MirrorSpec
CONSTANTS
    Requests = {"r1", "r2"}
    Order <- MCOrder
    ConfigRows <- MCConfigRows
    AskedChoices <- MCAskedChoices
    MaxKeys = 3
INVARIANTS DriftBounded 
PROPERTY StatsFollowPath
\* The requests end.
CHECK_DEADLOCK FALSE
