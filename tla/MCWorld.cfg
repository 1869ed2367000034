SPECIFICATION WorldSpec
CONSTANTS
    WorldSessions = {s1, s2}
    MaxChars = 3
    MaxParties = 2
    NoOne = NoOne
    StaticRooms = {start, gate}
    StartRoom = start
    GateRoom = gate
    Graveyard = start
    Proto = proto
    RunLengths = {1}
    Contracts = {"a", "c"}
    ClinicJob = "c"
    Valves = {"v1", "v2"}
    Levers = {"l1", "l2"}
    Names = {"ann", "bob"}
    Bootstrap = {"ann"}
    GivenRoles = {"officer", "member"}
    GivenCaps <- MCGivenCaps
    MaxGroups = 1
    MaxLog = 6
    Heroes = {h1, h2}
    XpPerMob = 3
    XpUnit = 2
    ManaBase = 1
    ManaCost = 1
    ManaEvery = 3
    Cooldown = 2
    MaxPoll = 2
    MaxRank = 1
    MaxSlain = 2
    Players = {s1, s2}
    Mobs = {m}
    Nobody = Nobody
    Gone = Gone
    Hall = hall
    Arena = arena
    Grave = grave
    MaxHp = 2
    StunTime = 1
    MaxActs = 2
    a = a
    b = b
    PlayerSessions = {s1, s2}
    Principals = {a, b}
    NoCharacter = NoCharacter
    MaxLoot <- MCMaxLoot
SYMMETRY Symmetry
INVARIANTS FightInv PlayerInv RoomInv CharacterInv GroupInv
 
CHECK_DEADLOCK FALSE
