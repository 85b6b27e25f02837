\* two ticks that overlap, one fault anywhere in the day
SPECIFICATION FairSpec
CONSTANTS
    t1 = t1
    t2 = t2
    none = none
    some = some
    Ticks          = {t1, t2}
    Pools          = {none, some}
    Empty          = none
    MaxMonitors    = 2
    MaxFaults      = 1
    PaperConfirmed = TRUE
    BothSlow       = FALSE
    WritesOverlap  = FALSE
CONSTRAINTS FollowedDays FollowedStages
INVARIANT TypeOK
INVARIANT FrozenChain
INVARIANT AnnouncedOnce
INVARIANT StatusHonest
INVARIANT AuthorisationBacked
INVARIANT OneMonitor
PROPERTY HandoffCompletes
\* after the close nothing is left to do
CHECK_DEADLOCK FALSE
