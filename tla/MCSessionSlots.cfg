\* Two sessions compete for one slot.
CONSTANTS
    Sessions = {s1, s2}
    MaxSessions = 1
    MaxBuffers = 1
SPECIFICATION ResourcesSpec
CHECK_DEADLOCK FALSE
INVARIANT EndedSessionHasNoSlot
