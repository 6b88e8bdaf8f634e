CONSTANTS
    MaxPlayers = 2
    Tiles = {0, 1, 2}
    Capacity = 5
    InitialTiles <- NoPattern
    MaxAppends = 4
SPECIFICATION Spec
PROPERTY
    OwnTileIsLowered
CHECK_DEADLOCK FALSE
