SPECIFICATION LSpec
CONSTANTS
    k1 = k1  k2 = k2  i1 = i1  i2 = i2  a1 = a1  a2 = a2
    None = None
    Clients <- MCTwoClients
    Subscribers = {"n1"}
    SnapshotSubs = {"n1"}
    Keys <- MCKeys
    BanIds <- MCBanIds
    Ttls = {0, 1}
    HoldNames = {}
    Statuses = {}
    Reports = {}
    ChannelCap = 1
    MaxTime = 2
    MaxIndex = 2
SYMMETRY Symmetry
INVARIANTS TypeOK KeyIndexed IndexNamesState CaughtUpMeansSaved IndexesUnique CopiesAreReplays
PROPERTY ImplementsDurableLog
