SPECIFICATION Spec
CONSTANTS
    X_RES = 1024
    Y_RES = 768
    MovesX <- RightX
    MovesY <- DownY
PROPERTIES
    ScreenFollows
    PressIsSeen
    QuitEnds
CHECK_DEADLOCK FALSE
