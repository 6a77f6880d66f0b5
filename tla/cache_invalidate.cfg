SPECIFICATION Spec
CONSTANTS
    Keys = {k1}
    Callers = {a, b}
    Nil = nil
    TTL = 1
    MaxNow = 1
    MaxVersion = 1
    MaxCancels = 0
INVARIANT InvalidatedIsGone
