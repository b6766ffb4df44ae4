CONSTANTS
    MaxViewZoom = 4
    ImageWidths = {9}
    Sizes = {7, 8, 10}
    Strides <- MCStrides
    Radii = {20}
    NavigationInterval = 2
    NavigationSettle = 3
    ResizeDelay = 2
    MaxInputs = 4
    NoView = NoView
SPECIFICATION Spec
CHECK_DEADLOCK FALSE
INVARIANTS
    TypeOK
    UnaskedHasATimer
    InputsDoNotPostpone
PROPERTIES
    
    ViewsAreAsked
