SPECIFICATION Spec
CONSTANTS
    Events = {e1}
    Members = {m1, m2}
    Clickers = {t1, t2}
    Ticker = ticker
    Nil = nil
    Lead = 1
    Grace = 1
    MaxNow = 3
    MaxClicks = 3
    MaxFaults = 1
    Exclusive = FALSE
SYMMETRY Symmetry
INVARIANTS TypeOK EndedEventHoldsNobody RemindedOncePerFault
