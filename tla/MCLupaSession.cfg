\* Safety: one opening and two views, a thumbnail and a tile, a window that a
\* large tile fills, one tile asked again.
CONSTANTS
    Images = {i1}
    NoImage = NoImage
    Window = 2
    TileSizes = {1, 2}
    PlanTiles = 1
    MaxInFlight = 2
    MaxRetries = 1
    TaskCapacity = 4
    FrameCapacity = 4
    MaxDeliveryId = 4
    Answers = {"granted", "queued", "diskFull", "buffersFull"}
    Confirmations = {"ACK_STATE"}
    MaxEpoch = 3
    MaxHellos = 1
    MaxAsks = 1
SPECIFICATION Spec
CHECK_DEADLOCK FALSE
INVARIANTS
    TypeOK
    CreditConserved
    HeldTilesReserved
    TurnHasAnOwner
    PlanHasAWakeup
    ReservationsEnd
PROPERTIES
    ImplementsViewStream
