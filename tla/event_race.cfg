SPECIFICATION Spec
CONSTANTS
    Events = {e1}
    Members = {m1}
    Clickers = {t1, t2}
    Ticker = ticker
    Nil = nil
    Lead = 1
    Grace = 1
    MaxNow = 3
    MaxClicks = 4
    MaxFaults = 0
    Exclusive = FALSE
PROPERTY TerminalIsFinal
