\* A client that reads and one that is suspended, buffers that overflow.
SPECIFICATION Spec
CONSTANTS
    Clients = {c1, c2}
    Stalled = {c2}
    Watched = c1
    MaxProduced = 2
    SinkCap = 1
    FanCap = 1
    SubCap = 2
    WireCap = 1
    ClientCap = 1
PROPERTIES StreamKept ConnectEnds ServeReturns
\* The events end, and so does everything else.
CHECK_DEADLOCK FALSE
