\* A gateway with one connection, one session and one command in flight, and at most three keys.
CONSTANTS
    Connections = {c1}
    Sessions = {s1}
    Requests = {r1}
    MaxKey = 3
    NoConnection = NoConnection
    NoSession = NoSession
    Bounds <- MCBounds
SPECIFICATION MainFairSpec
INVARIANTS AuthorityIsCurrent CredentialIsPersisted SavedIsKept GeometrySurvivesQuit
PROPERTY AbandonedRequestsEnd
\* The process may be quit for good.
CHECK_DEADLOCK FALSE
