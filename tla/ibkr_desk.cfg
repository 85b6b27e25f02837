SPECIFICATION MCSpec
CONSTANTS
    live = live
    other = other
    o1 = o1
    o2 = o2
    o3 = o3
    Accounts = {live, other}
    Ids = {o1, o2}
    MaxQty = 1
    SnapshotRaces = FALSE
    OtherWords = TRUE
    MaxErred = 1
    MaxRows = 1
INVARIANT TypeOK
INVARIANT OneUncertain
INVARIANT LedgerHonest
INVARIANT SellsCovered
INVARIANT OneLiveBuy
PROPERTY ImplementsOrderJournal
SYMMETRY Symmetry
CONSTRAINT TwoOrders
CONSTRAINT OneOddity
