SPECIFICATION FairSpec
CONSTANTS
    Events = {e1}
    Members = {m1}
    Clickers = {t1}
    Ticker = ticker
    Nil = nil
    Lead = 1
    Grace = 1
    MaxNow = 2
    MaxClicks = 3
    MaxFaults = 1
    Exclusive = FALSE
PROPERTY EventsEndForGood
