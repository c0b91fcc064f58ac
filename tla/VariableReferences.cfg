SPECIFICATION Spec
CONSTANTS
    x = x
    y = y
    Declarations <- MCDeclarations
    LetNames <- MCLetNames
    BoundRefs <- MCBoundRefs
    MaxItems = 2
SYMMETRY Interchangeable
INVARIANTS
    AcceptedCreates
    CreatedRuns
    RefusedForCause
CHECK_DEADLOCK FALSE
