\* VIEW an image, ask for one of its tiles again, VIEW it once more while the
\* tile is read.
CONSTANTS
    Images = {i1}
    NoImage = NoImage
    Window = 2
    TileSizes = {1}
    PlanTiles = 1
    MaxInFlight = 2
    MaxRetries = 1
    TaskCapacity = 4
    FrameCapacity = 4
    MaxDeliveryId = 4
    Answers = {"granted"}
    Confirmations = {"ACK_STATE"}
    MaxEpoch = 3
    MaxHellos = 1
    MaxAsks = 1
SPECIFICATION Spec
CHECK_DEADLOCK FALSE
PROPERTY RecoveredTilesAreCurrent
