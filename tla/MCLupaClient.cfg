CONSTANTS
    Images = {i1}
    NoImage = NoImage
    Level <- MCLevel
    Bytes <- MCBytes
    MaxReleasedHistory = 1
    MaxSelectiveRetries = 1
    TransientBudgetBytes = 2
    BitmapBudgetBytes = 4
    MaxActive = 1
    MaxQueuedJobs = 1
    MaxSafeInteger = 9
    MaxEpoch = 3
    MaxManifestHistory = 2
    MaxConnections = 2
    MaxDeliveries <- MCDeliveries
SPECIFICATION Spec
CHECK_DEADLOCK FALSE
INVARIANTS
    TypeOK
    EveryTileHasAnOwner
    BudgetExact
    AccountsBalance
    NothingStaleOnCanvas
    ObservingIsSettled
PROPERTIES
    NoFalseViolation
    ImplementsReceipts
