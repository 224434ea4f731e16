\* Two sessions and two windows, one of which may replace the other.
CONSTANTS
    s1 = s1
    s2 = s2
    Sessions = {s1, s2}
    Windows = {w1, w2}
    NoWindow = NoWindow
    MaxCommands = 5
    Bounds <- MCBounds
SPECIFICATION Spec
INVARIANTS NeverLeftOpening RegisteredHasView PresentedHasView
PROPERTIES TransitionsSettle
\* All requests are served.
CHECK_DEADLOCK FALSE
