\* A close and two starts of a recording race.
CONSTANTS
    Calls = {a1, a2, a3}
    Observers = {}
    MaxOutput = 1
    NoCall = NoCall
SPECIFICATION Spec
SYMMETRY Symmetry
INVARIANT RecordingFinalizedBeforeRelease
\* The system stops when the calls are used up and the process has exited.
CHECK_DEADLOCK FALSE
