SPECIFICATION Spec
CONSTANT N = 4
INVARIANTS
    TypeOK
    VisitIsPath
PROPERTY PlacesStably
CHECK_DEADLOCK FALSE
