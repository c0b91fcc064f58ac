SPECIFICATION Spec
CONSTANTS
    MaxActions = 3
    Identifiers = {"e1"}
    Rules = {"r1"}
    Faults = {"panic", "runtime", "reject", "spawn", "timeout"}
INVARIANTS
    SingleOwner
PROPERTIES
    SessionComesBack
