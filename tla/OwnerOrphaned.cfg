CONSTANTS
    Users = {1, 2}
    CustomRoles = {}
    Manage = "manage"
    Perms = {"manage"}
    Txs = {"t1", "t2", "t3"}
    MaxJoins = 1
SPECIFICATION Spec
CHECK_DEADLOCK FALSE
PROPERTY OwnerKept
CONSTRAINT OnlyAssignments
