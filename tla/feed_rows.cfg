SPECIFICATION Spec
CONSTANTS
    Guilds = {g1, g2}
    Nil = nil
    Requests = {r1}
    Readers = {q}
    StaleAfter = 1
    MaxTokens = 2
    MaxPosts = 2
    MaxTime = 3
    MaxFaults = 1
CHECK_DEADLOCK FALSE
PROPERTY BadRowsDropAlone
