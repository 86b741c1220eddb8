SPECIFICATION Spec
CONSTANTS
    CoordRange = 1024
    CornerX = 15
    CornerY = 20
    StartPos <- GymStart
    PowerUpPos <- GymPowerUp
    Partner <- GymPartner
    Blocked <- AtBounds
    TileIdle = 31
    FadeLast = 50
    WalkLast = 0
    SpinLast = 7
    PostspinWrap = 19
    SpinRange = 64
    KeysPressed = {"S", "W", "A", "D", "Enter"}
    LatchOutcomes = {TRUE}
    KeysAnyTime = FALSE
    RunPresses = FALSE
    ResetSampled = FALSE
INVARIANTS
    InRooms
