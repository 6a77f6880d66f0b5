SPECIFICATION Spec
CONSTANTS
    Guilds = {g1}
    Handlers = {a}
    Kinds = {"rcon"}
    Nil = nil
    MaxChanges = 1
    MaxFaults = 0
    MaxTeardowns = 1
    Serial = TRUE
INVARIANT TornDownIsUnlinked
