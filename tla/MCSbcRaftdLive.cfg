SPECIFICATION FairSpec
CONSTANTS
    k1 = k1  k2 = k2  i1 = i1  i2 = i2
    None = None
    Clients <- MCOneClient
    Subscribers = {}
    SnapshotSubs = {}
    Keys <- MCKeys
    BanIds <- MCTwoIds
    Ttls = {0, 1}
    HoldNames = {"h1"}
    Statuses <- MCStatuses
    Reports <- MCReports
    ChannelCap = 1
    MaxTime = 3
    MaxIndex = 2
PROPERTY MutationsTakeEffect
