\* The instance of MCMainProcess.cfg.
CONSTANTS
    Connections = {c1}
    Sessions = {s1}
    Requests = {r1}
    MaxKey = 3
    NoConnection = NoConnection
    NoSession = NoSession
    Bounds <- MCBounds
SPECIFICATION MainSpec
INVARIANT GatewayKeyIsPersisted
CHECK_DEADLOCK FALSE
