SPECIFICATION Spec
CONSTANTS
    Handlers = {a, b}
    Names = {n1}
    Nil = nil
    MaxBuilds = 1
    MaxFaults = 0
    MaxTeardowns = 1
INVARIANT TeardownLeavesNothing
