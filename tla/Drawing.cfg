SPECIFICATION Spec
CONSTANTS
    X_RES = 3
    Y_RES = 2
    Sheet <- SmallSheet
    Frames <- TwoFrames
    framesc = 2
    delay = 1
    Xs <- AroundX
    Ys <- AroundY
    MaxDraws = 2
INVARIANTS
    StaysInside
    PictureIsRight
    FrameFollowsCalls
