SPECIFICATION GroupSpec
CONSTANTS
    Names = {"ann", "bob"}
    Bootstrap = {"ann"}
    GivenRoles = {"officer", "member"}
    GivenCaps = {}
    MaxGroups = 1
    MaxLog = 6
INVARIANT OfficersManage
CHECK_DEADLOCK FALSE
