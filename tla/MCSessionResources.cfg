\* Two sessions, one slot, room for two envelopes.
CONSTANTS
    Sessions = {s1, s2}
    MaxSessions = 1
    MaxBuffers = 2
SPECIFICATION ResourcesSpec
CHECK_DEADLOCK FALSE
INVARIANTS
    ResourcesTypeOK
    TakenIsKnown
    EndedSessionLeavesAtMostOneEnvelope
