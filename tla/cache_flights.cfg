SPECIFICATION PartsSpec
CONSTANTS
    Keys = {k1}
    Callers = {a, b, c}
    Nil = nil
    TTL = 1
    MaxNow = 1
    MaxVersion = 1
    MaxCancels = 1
    MaxConnects = 6
    MaxDrops = 3
CHECK_DEADLOCK FALSE
INVARIANTS PartsTypeOK SingleFlight OneConnection
PROPERTIES CallsReturn DownIsRepaired
