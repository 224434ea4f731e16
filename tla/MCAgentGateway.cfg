\* Two connections contend for two sessions with two commands in flight, and the
\* access key is replaced once.
CONSTANTS
    Connections = {c1, c2}
    Sessions = {s1, s2}
    Requests = {r1, r2}
    MaxKey = 2
    NoConnection = NoConnection
    NoSession = NoSession
SPECIFICATION MCSpec
SYMMETRY Symmetry
INVARIANTS ControlAgrees UnownedRequestsAborted GrantsAreTrue AnnouncedIsActual
PROPERTIES ImplementsSessionControl
