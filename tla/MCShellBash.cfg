\* Bash, with one line entered.
CONSTANTS
    Shells = {"bash"}
    ExitCodes = {0, 1}
    Directories = {"home"}
    MaxLines = 1
    NoId = NoId
SPECIFICATION Spec
INVARIANT LastCommandWasRun
CHECK_DEADLOCK FALSE
