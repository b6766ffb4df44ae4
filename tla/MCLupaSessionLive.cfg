\* Plans end: two images, one tile in flight, tiles larger than the window,
\* queues that fill, delivery ids that run out, and every way the shared
\* executors and budgets can say no.
CONSTANTS
    Images = {i1, i2}
    NoImage = NoImage
    Window = 2
    TileSizes = {1, 3}
    PlanTiles = 1
    MaxInFlight = 1
    MaxRetries = 1
    TaskCapacity = 3
    FrameCapacity = 2
    MaxDeliveryId = 2
    Answers = {"granted", "queued", "turnsFull", "diskFull", "buffersFull", "metadataFull", "planTooLarge", "noSession"}
    Confirmations = {"RELEASE"}
    MaxEpoch = 3
    MaxHellos = 1
    MaxAsks = 0
SPECIFICATION FairSpec
CHECK_DEADLOCK FALSE
PROPERTIES
    PlansEnd
