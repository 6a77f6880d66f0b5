SPECIFICATION FairSpec
CONSTANTS
    Guilds = {g1, g2}
    Handlers = {a, b}
    Kinds = {"null", "rcon", "feed"}
    Nil = nil
    MaxChanges = 3
    MaxFaults = 2
    MaxTeardowns = 0
    Serial = TRUE
INVARIANT ListenerMatchesLinks
PROPERTY StaleStatusHeals
