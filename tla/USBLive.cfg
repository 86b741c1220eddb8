\* Two failures of the chip or the bus, two removals and returns of the keyboard
\* while it is polled, lists run while the program sleeps or waits.
SPECIFICATION Spec
CONSTANTS
    Keys = {W, A}
    MaxFaults = 2
    MaxChanges = 4
    Prompt = TRUE
    Slow = TRUE
    Quiet = TRUE
    DetectReads = 6
    WatchReads = 8
PROPERTY KeyReachesGame
