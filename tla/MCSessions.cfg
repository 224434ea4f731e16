\* Two clients that close again and again, two expiries; two calls of any kind and
\* one observer on a session with one chunk of output; two sessions until the end of the application.
CONSTANTS
    Closers = {k1, k2}
    MaxExpiring = 2
    Calls = {a1, a2}
    Observers = {o1}
    MaxOutput = 1
    NoCall = NoCall
    Ids = {s1, s2}
SPECIFICATION MCSpec
INVARIANTS RemovedOnlyExited NoMissedWakeup PublishedIsActual RetentionExact NothingForgotten FilesAreReclaimed ShutdownIsTruthful
PROPERTIES CompletedExpire CallsSettle ExitReachesWaiters ShutdownReturns
\* An operation that is gone, a session whose calls are used up and a manager that has
\* been shut down stop.
CHECK_DEADLOCK FALSE
