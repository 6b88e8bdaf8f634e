CONSTANTS
    MaxPlayers = 2
    Tiles = {0, 1, 2}
    Capacity = 5
    InitialTiles <- Pattern
    MaxAppends = 4
SPECIFICATION Spec
PROPERTY
    RoomIsUsedFirst
CHECK_DEADLOCK FALSE
