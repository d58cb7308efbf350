SPECIFICATION Spec
CONSTANTS
    X_RES = 1024
    Y_RES = 768
    MovesX <- AnyX
    MovesY <- AnyY
INVARIANTS
    TypeOK
PROPERTIES
    NoDragClick
    OnePressOneChange
    QuitIsFinal
    FrameIsCoherent
CHECK_DEADLOCK FALSE
