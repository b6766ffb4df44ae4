CONSTANTS
    small = small
    large = large
    Owners = {small, large}
    MaxInFlight = 1
    MaxWaiters = 2
    Quantum = 1
    Costs = {1, 4}
    TileBytes <- SmallAndLarge
SPECIFICATION SharesSpec
INVARIANT ByteShares
