CONSTANTS
    MaxQueuedFrames = 2
    MaxPings = 2
    MaxPongs = 1
    MaxData = 2
    Frames = {}
SPECIFICATION Spec
CHECK_DEADLOCK FALSE
INVARIANTS
    TypeOK
    LateFramesOnly
    PingsEndByTheirOwn
    HeartbeatGoesOn
PROPERTIES
    CloseEnds
