CONSTANTS
    Players = {a, b, c}
    Direct = {{a, b}, {a, c}, {b, c}}
    Local = {{b, c}}
    Lossy = FALSE
    PartlyDirect = {{a, b}, {b, c}}
    Hosts = {h1, h2}
    Ports = {1, 2}
    LobbyIds = {l1, l2}
    TargetSizes = {2, 3}
    MaxRestarts = 1
SPECIFICATION MCSpec
CHECK_DEADLOCK FALSE
PROPERTIES
    FullLobbyAlwaysStarts
