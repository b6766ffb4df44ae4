\* OPEN one image, VIEW it, OPEN another.
CONSTANTS
    Images = {i1, i2}
    NoImage = NoImage
    Window = 2
    TileSizes = {1}
    PlanTiles = 1
    MaxInFlight = 2
    MaxRetries = 1
    TaskCapacity = 4
    FrameCapacity = 4
    MaxDeliveryId = 4
    Answers = {"granted"}
    Confirmations = {"ACK_STATE"}
    MaxEpoch = 3
    MaxHellos = 1
    MaxAsks = 0
SPECIFICATION Spec
CHECK_DEADLOCK FALSE
INVARIANT ThumbnailWasSent
