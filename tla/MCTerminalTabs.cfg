CONSTANTS
    Ids = {t1, t2}
    NoTab = NoTab
SPECIFICATION Spec
INVARIANT FinalTabClosesWindow
CHECK_DEADLOCK FALSE
