\* two shares, so fills and exits come in parts; one failure or crash anywhere
SPECIFICATION Spec
CONSTANTS
    Qty         = 2
    MaxAborts   = 0
    MaxGlitches = 1
    PositionLag = FALSE
    LatePosts   = FALSE
    LookupGaps  = FALSE
INVARIANTS
    TypeOK
    ExitWorksAlone
    ExitIsWholePosition
    ExposureTracked
    ReentryOnlyAfterStop
    PutAwayFillsRecorded
    OwnTraceReconciles
PROPERTIES
    ImplementsLongOnlyTrade
