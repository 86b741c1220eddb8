SPECIFICATION FairStepsSpec
CONSTANTS
    CoordRange = 8
    CornerX = 1
    CornerY = 2
    StartPos <- MCStart
    PowerUpPos <- MCPowerUp
    Partner <- MCPartner
    Blocked <- MCBlocked
    TileIdle = 3
    FadeLast = 3
    WalkLast = 1
    SpinLast = 1
    PostspinWrap = 2
    SpinRange = 4
    KeysPressed = {"S", "W", "A", "D", "Enter", "Esc", "other"}
    LatchOutcomes = {TRUE}
    KeysAnyTime = TRUE
    RunPresses = TRUE
    ResetSampled = TRUE
INVARIANTS
    FadeAtStart
    SpinOnPad
    ArrivedOnPad
    WalkInv
PROPERTIES
    WalkSpec
    KeyWalkLength
    SpinEnds
