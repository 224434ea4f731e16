\* One session, one window that stays.
CONSTANTS
    s1 = s1
    s2 = s2
    Sessions = {s1, s2}
    Windows = {w1}
    NoWindow = NoWindow
    MaxCommands = 5
    Bounds <- MCLateBounds
SPECIFICATION Spec
INVARIANTS PresentedHasTab
CHECK_DEADLOCK FALSE
