\* one exit ended by the venue after a part fill
SPECIFICATION Spec
CONSTANTS
    Qty         = 2
    MaxAborts   = 0
    MaxGlitches = 1
    PositionLag = FALSE
    LatePosts   = FALSE
    LookupGaps  = FALSE
INVARIANT FlatDisagreementIsReal
