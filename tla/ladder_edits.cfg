SPECIFICATION Spec
CONSTANTS
    Handlers = {a, b}
    Names = {n1, n2, n3}
    Nil = nil
    MinRanks = 2
    MaxRoles = 3
    MaxHands = 1
    MaxFaults = 1
    MaxTeardowns = 1
    Serial = TRUE
SYMMETRY Symmetry
INVARIANTS TypeOK BotRolesRemembered
PROPERTY AdminRolesSpared
