\* two failures, so that every exit retry is used; the clock need not move
SPECIFICATION PollingSpec
CONSTANTS
    Qty         = 1
    MaxAborts   = 1
    MaxGlitches = 2
    PositionLag = FALSE
    LatePosts   = FALSE
    LookupGaps  = FALSE
PROPERTY SessionEndsFlat
PROPERTY NakedPositionIsClosed
