SPECIFICATION PipelineSpec
CONSTANTS
    H_TOTAL = 10
    V_TOTAL = 14
    HVisible = 6
    VVisible = 11
    HSyncStart = 8
    HSyncEnd = 9
    VSyncStart = 12
    VSyncEnd = 13
    DrawFirst = 1
    DrawLast = 5
    Left = 1
    Columns = 3
    AddressRange = 32
    Views = {1, 2}
    MaxPresses = 2
INVARIANTS ShowsThisFrame
PROPERTIES EdgesOutsideDrawing FramesKeepComing
