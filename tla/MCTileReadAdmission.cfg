\* Three sessions, one permit and two places to wait, turns that are free (a
\* failed read) and tiles above the cost cap.  No symmetry, because
\* WaiterServed is temporal.
CONSTANTS
    Owners = {o1, o2, o3}
    MaxInFlight = 1
    MaxWaiters = 2
    Quantum = 1
    Costs = {0, 5}
SPECIFICATION FairSpec
INVARIANTS
    TypeOK
    PermitsAccounted
    OneTurnPerOwner
    WorkConserving
    FlowsBounded
    PassedOverAtMostSevenTimes
PROPERTIES
    ImplementsTurnPool
    WaiterServed
