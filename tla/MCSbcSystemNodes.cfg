SPECIFICATION OneNodeSpec
CONSTANTS
    k1 = k1  k2 = k2  i1 = i1  i2 = i2
    None = None
    Operators <- MCOperators
    Clients <- MCClients
    Subscribers = {"n1", "n2"}
    SnapshotSubs = {"n1"}
    Nodes = {"n1", "n2"}
    Keys = {k1}
    BanIds = {i1}
    Exempt = {}
    Ttls = {0, 1}
    HoldNames = {}
    Statuses = {}
    Reports = {}
    ChannelCap = 2
    MaxTime = 2
    MaxIndex = 3
    MaxCrashes = 1
INVARIANT NodesFollow
