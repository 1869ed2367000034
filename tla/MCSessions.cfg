SPECIFICATION PlaySpec
CONSTANTS
    Sessions = {s1, s2}
    Names = {n1}
    NoName = NoName
    ChanCap = 2
    WireCap = 1
    MaxBreaks = 2
    JsonClients = {j1}
    FbsClients = {f1}
    ShardTxCap = 1
    GateWire = 1
    OutCap = 1
    MaxAttaches = 2
    MaxGateBreaks = 1
    MaxTyped = 3
    MaxFrames = 3
    FrameLimit = 2
    Max8 = 1
    Max16 = 2
SYMMETRY Symmetry
INVARIANTS
    TypeOK ShardConverges LinesFindTheirSession OnlyErrorsLeaveGhosts
     CodecsAgree
CHECK_DEADLOCK FALSE
