SPECIFICATION Spec
INVARIANTS
    InWalls
PROPERTIES
    WalksStayInside
    FinishByTile
