SPECIFICATION FairOneNodeSpec
CONSTANTS
    k1 = k1  k2 = k2  i1 = i1  i2 = i2
    None = None
    Operators <- MCOperators
    Clients <- MCClients
    Subscribers = {"n1"}
    SnapshotSubs = {"n1"}
    Nodes = {"n1"}
    Keys = {k1, k2}
    BanIds = {i1, i2}
    Exempt = {k2}
    Ttls = {0}
    HoldNames = {}
    Statuses = {}
    Reports <- MCReports
    ChannelCap = 1
    MaxTime = 1
    MaxIndex = 2
    MaxCrashes = 1
INVARIANT NodesFollow
PROPERTY BanEnforcedOrExcused
