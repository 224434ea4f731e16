\* Two sessions, three prompts of which two can be pending, two tabs ever opened.
CONSTANTS
    Sessions = {s1, s2}
    Viewed = s1
    Prompts = {p1, p2, p3}
    MaxPending = 2
    Bounds <- MCBounds
    Ids = {t1, t2}
    None = None
SPECIFICATION MCSpec
INVARIANTS ListConverges DialogConverges ShownExactly AnsweredOnce StatusIsActual NoneAbandoned
\* The system stops when the bounds are used up and when the window is closed.
CHECK_DEADLOCK FALSE
