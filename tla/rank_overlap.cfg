SPECIFICATION Spec
CONSTANTS
    Posts = {p1}
    Mods = {a, b}
    Terms = {1, nil}
    Nil = nil
    MaxNow = 2
    MaxClicks = 2
    MaxHands = 0
    MaxFaults = 0
    Serial = FALSE
INVARIANT HeldIsTracked
