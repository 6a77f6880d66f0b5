SPECIFICATION FairSpec
CONSTANTS
    Handlers = {a, b}
    Names = {n1}
    Nil = nil
    MaxBuilds = 2
    MaxFaults = 1
    MaxTeardowns = 1
INVARIANTS TypeOK BuiltIsTracked
PROPERTY DisbandEnds
