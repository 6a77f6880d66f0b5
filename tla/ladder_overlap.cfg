SPECIFICATION Spec
CONSTANTS
    Handlers = {a, b}
    Names = {n1, n2}
    Nil = nil
    MinRanks = 2
    MaxRoles = 2
    MaxHands = 0
    MaxFaults = 0
    MaxTeardowns = 0
    Serial = FALSE
INVARIANT BotRolesRemembered
