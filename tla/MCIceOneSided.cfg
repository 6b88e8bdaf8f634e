CONSTANTS
    Players = {a, b}
    Direct = {{a, b}}
    Local = {}
    Lossy = FALSE
SPECIFICATION EndlessSpec
PROPERTY HandshakeCompletes
CHECK_DEADLOCK FALSE
