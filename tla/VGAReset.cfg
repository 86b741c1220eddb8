SPECIFICATION Spec
CONSTANTS
    H_TOTAL = 8
    V_TOTAL = 10
    HVisible = 4
    VVisible = 6
    HSyncStart = 5
    HSyncEnd = 7
    VSyncStart = 7
    VSyncEnd = 9
    DrawFirst = 2
    DrawLast = 4
PROPERTIES
    ButtonResetsGame
