SPECIFICATION Spec
CONSTANTS
    Guilds = {g1, g2}
    Handlers = {a, b}
    Kinds = {"null", "feed"}
    Nil = nil
    MaxChanges = 4
    MaxFaults = 0
    MaxTeardowns = 0
    Serial = FALSE
INVARIANT ListenerMatchesLinks
