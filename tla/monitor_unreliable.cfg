\* an endpoint that lags, lookups that miss, POSTs that arrive late
SPECIFICATION Spec
CONSTANTS
    Qty         = 1
    MaxAborts   = 1
    MaxGlitches = 2
    PositionLag = TRUE
    LatePosts   = TRUE
    LookupGaps  = TRUE
INVARIANTS
    IntentBeforeOrder
    ExitWorksAlone
PROPERTIES
    LiveExitNotCanceled
\* a start that finds a short position is refused, and the process stays down
CHECK_DEADLOCK FALSE
