SPECIFICATION Spec
CONSTANTS
    Keys = {k1}
    Callers = {a, b, c}
    Nil = nil
    TTL = 1
    MaxNow = 1
    MaxVersion = 1
    MaxCancels = 1
INVARIANT CancelledAlone
