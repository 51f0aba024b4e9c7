\* Up to two endpoints with set, unset and refused fields.
SPECIFICATION Spec
CONSTANTS
    RawEndpoints <- MCRawEndpoints
    RawDefaults <- MCRawDefaults
    Ports = {0, 70000}
    FlagPorts = {0, 9090}
INVARIANTS AlwaysStarts FieldsFromNearestSource
\* Loading ends.
CHECK_DEADLOCK FALSE
