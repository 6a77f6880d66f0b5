SPECIFICATION Spec
CONSTANTS
    Handlers = {a, b}
    Nil = nil
    MaxMarks = 2
    MaxPosts = 5
    MaxRuns = 5
    MaxFaults = 1
    MaxHands = 1
CHECK_DEADLOCK FALSE
INVARIANT QuietMapIsCurrent
