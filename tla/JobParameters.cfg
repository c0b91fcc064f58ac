SPECIFICATION Spec
CONSTANTS
    Values <- MCValues
    Definitions <- MCDefinitions
    Templates <- MCTemplates
    Submitted <- MCSubmitted
    DirSize = 2
INVARIANTS
    TypeOK
    MergedIsExact
    AgreeingMerge
    AcceptedMeetsEvery
    CreateJobAgrees
CHECK_DEADLOCK FALSE
