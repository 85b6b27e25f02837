\* one monitor that may be closed for the day, and the sync; two changes of state
SPECIFICATION FairSpec
CONSTANTS
    f1 = f1
    p1 = p1
    p2 = p2
    s1 = s1
    Fills       = {f1}
    Pumps       = {p1}
    Syncs       = {s1}
    MaxSequence = 2
    StateBatch  = 1
    FlushBatch  = 1
    MaxGlitches = 1
INVARIANTS
    TypeOK
PROPERTIES
    FillsAreAnnouncedOrReported
    OnlyUncertainFactsAreMissing
