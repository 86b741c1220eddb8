\* Lists done before the program wakes; the keyboard comes and goes at any time.
SPECIFICATION Spec
CONSTANTS
    Keys = {W, A}
    MaxFaults = 2
    MaxChanges = 3
    Prompt = TRUE
    Slow = FALSE
    Quiet = FALSE
    DetectReads = 6
    WatchReads = 8
INVARIANTS TypeOK EnumeratedInOrder NothingOutstanding
PROPERTY PortShowsReports
