\* A page starts while prompts are asked for, of which two can be pending.
CONSTANTS
    Sessions = {s1, s2}
    Viewed = s1
    Prompts = {p1, p2, p3}
    MaxPending = 2
    Bounds <- MCPromptBounds
    Ids = {t1, t2}
    None = None
SPECIFICATION MCSpec
INVARIANT PendingAreExposed
\* The system stops when the bounds are used up and when the window is closed.
CHECK_DEADLOCK FALSE
