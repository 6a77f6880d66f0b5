SPECIFICATION Spec
CONSTANTS
    Handlers = {a}
    Names = {n1, n2, n3}
    Nil = nil
    MinRanks = 2
    MaxRoles = 3
    MaxHands = 0
    MaxFaults = 0
    MaxTeardowns = 0
    Serial = TRUE
INVARIANT BotRolesMarked
