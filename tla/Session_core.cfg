SPECIFICATION Spec
CONSTANTS
    MaxActions = 3
    Identifiers = {"e1", "e2"}
    Rules = {"r1"}
    Faults = {}
INVARIANTS
    TypeOK
    SeenReadyMeansAvailable
    NoStaleStatus
    SnapshotFaithful
PROPERTIES
    KeepsPromise
