SPECIFICATION Spec
CONSTANTS
    Guilds = {g1, g2}
    Handlers = {a, b}
    Kinds = {"null", "rcon", "feed"}
    Nil = nil
    MaxChanges = 3
    MaxFaults = 1
    MaxTeardowns = 1
    Serial = FALSE
SYMMETRY Symmetry
INVARIANTS TypeOK RegistryMatchesStore ConnectionsKept
