SPECIFICATION ServicesSpec
CONSTANTS
    c1 = c1  c2 = c2  i1 = i1  i2 = i2  n1 = n1
    HoldSessions = {s1}
    Operators = {o1}
    MaxChanges = 2
    MaxCuts = 1
    Clients = {c1, c2}
    LoginNames = {n1}
    NoClient = NoClient
    Unnamed = Unnamed
    Providers = {"google"}
    MaxSaveFails = 1
    Guessers = {c1, c2}
    IpOf <- MCIpOf
    NameOf <- MCNameOf
    BackoffMax = 4
    ResetAfter = 5
    MaxEntries = 1
    MaxSeconds = 8
    SeqMax = 2
    ScrollCap = 1
    QueueCap = 1
    Segments = 2
    SegMax = 1
    Context = 1
    MaxLines = 3
    MaxMillis = 2
    MaxFaults = 1
    Loggers = {w1, w2}
    MaxLogged = 3
    LastDay = 1
    MaxStops = 1
    Sockets = {w1, w2}
    NoSocket = NoSocket
    MaxChunks = 2
    BufCap = 1
    WsCap = 1
    Visitors = {w1, w2}
    NoVisitor = NoVisitor
    Inputs = {t1}
    MaxConnects = 2
    MaxLogouts = 1
    Flows = {"f1", "f2"}
    ProviderOf <- MCProviderOf
    TokenOf <- MCTokenOf
    Users = {"u1", "u2"}
    Registered = {"u1"}
    Callbacks = {w1, w2}
    MaxCodes = 2
    MaxPasswords = 2
    MaxRestarts = 1
    Keys = {w1, w2}
    NoKey = NoKey
    Requests = {r1, r2}
    MaxPrepared = 2
    MaxPortalStops = 1
SYMMETRY Symmetry
INVARIANTS     WebPlayersInv SignInv PortalInv
 
CHECK_DEADLOCK FALSE
