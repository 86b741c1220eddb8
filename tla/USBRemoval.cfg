\* The keyboard is pulled out at any moment: the counterexample is a program
\* that waits for a message it has erased.
SPECIFICATION Spec
CONSTANTS
    Keys = {W}
    MaxFaults = 0
    MaxChanges = 1
    Prompt = TRUE
    Slow = TRUE
    Quiet = FALSE
    DetectReads = 6
    WatchReads = 8
PROPERTY RemovalNoticed
