\* a pump that was taken over, its successor and the sync on the same files
SPECIFICATION Spec
CONSTANTS
    f1 = f1
    p1 = p1
    p2 = p2
    s1 = s1
    Fills       = {f1}
    Pumps       = {p1, p2}
    Syncs       = {s1}
    MaxSequence = 0
    StateBatch  = 1
    FlushBatch  = 1
    MaxGlitches = 2
INVARIANTS
    PushedOnce
    RecordedOnce
    SentIsDelivered
