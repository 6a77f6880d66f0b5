SPECIFICATION FairSpec
CONSTANTS
    Posts = {p1}
    Mods = {a, b}
    Terms = {1, nil}
    Nil = nil
    MaxNow = 2
    MaxClicks = 4
    MaxHands = 2
    MaxFaults = 1
    Serial = TRUE
INVARIANTS TypeOK HeldIsTracked
PROPERTY TempRankEnds
