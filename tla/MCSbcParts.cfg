SPECIFICATION PartsSpec
CONSTANTS
    k1 = k1  k2 = k2  i1 = i1  i2 = i2
    None = None
    Nodes = {"n1"}
    BanIds = {i1, i2}
    Keys = {k1, k2}
    KeyOf <- MCKeyOf
    Exempt = {k2}
    Expiries = {0, 2}
    MaxTime = 2
    NoStatus = NoStatus
    Errors = {"e1", "e2"}
    KickCap = 2
    MaxFails = 1
    Sources = {"s1", "s2", "s3"}
    NotIps = {}
    ExemptSources = {"s3"}
    TopN = 3
    Threshold = 2
    Ttl = 1
    MaxCount = 3
    MaxClock = 3
    Width <- MCWidth
INVARIANTS EnforcerInv ReporterInv  PrefixesAgree
PROPERTY PartsGoOn
