SPECIFICATION Spec
CONSTANTS
    Spaces <- MCSpaces
    TaskCounts = {1, 2, 3, 5}
    MaxSets = 2
INVARIANTS
    TypeOK
    ExactlyOnce
    OrderAndAccess
    ContainmentAgrees
    SetterReachesChunk
PROPERTY ChunksFit
