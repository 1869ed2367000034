SPECIFICATION ProgressSpec
CONSTANTS
    Sessions = {s1}
    Names = {n1}
    NoName = NoName
    ChanCap = 2
    WireCap = 1
    MaxBreaks = 2
    FirstCast = 1
    CastTime = 3
    Cadence = 6
    MaxLate = 2
    WormEvery = 1
    TavernEvery = 3
    EmoteEvery = 2
    MaxChains = 2
    MaxWorms = 2
    Heroes = {h1}
    XpPerMob = 3
    XpUnit = 2
    ManaBase = 1
    ManaCost = 1
    ManaEvery = 3
    Cooldown = 2
    MaxPoll = 2
    MaxRank = 1
    MaxSlain = 2
    Loggers = {w1}
    MaxLogged = 2
    LastDay = 1
    MaxStops = 1
    Sockets = {w1, w2}
    NoSocket = NoSocket
    MaxChunks = 1
    BufCap = 1
    WsCap = 1
    Visitors = {w1, w2}
    NoVisitor = NoVisitor
    Inputs = {}
    MaxConnects = 1
    MaxLogouts = 1
INVARIANT PopulationInv
PROPERTIES SessionsSettle ShardGoesOn ServicesGoOn
CHECK_DEADLOCK FALSE
