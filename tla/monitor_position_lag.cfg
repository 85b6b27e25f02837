\* only the position endpoint lags
SPECIFICATION Spec
CONSTANTS
    Qty         = 1
    MaxAborts   = 0
    MaxGlitches = 0
    PositionLag = TRUE
    LatePosts   = FALSE
    LookupGaps  = FALSE
INVARIANT NeverShort
