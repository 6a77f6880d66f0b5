SPECIFICATION PartsSpec
CONSTANTS
    Admins = {a, b}
    Nil = nil
    Features = {f, g}
    Channels = {ch}
    Keys = {k}
    Positions = {1}
    Wizards <- MCWizards
    Apart = TRUE
    MaxRuns = 3
    MaxCrashes = 1
    Guilds = {g1, g2}
    Users = {u}
    Roles = {r, s}
    MaxFaults = 1
    MaxHands = 1
    MaxMarks = 2
    MaxMessages = 5
    MaxInteractions = 5
    Choices = {0, 1}
    Templates = {"minimal", "vanilla"}
    Specs <- MCSpecs
    OneAtATime = FALSE
    MaxApplications = 2
    Requests = {"r"}
    Readers = {"q"}
    StaleAfter = 1
    MaxTokens = 2
    MaxReports = 2
    MaxHours = 3
    Statements <- MCStatements
    MaxStarts = 2
    MaxMoves = 3
    Halves = {1, 2, 3, 4, 5}
    Ordinals = {0, 1, 49, 50, 99, 150, 250, 999, 1250, 12800, 99960, 99999}
    Extent = 12800
    Size = 1280
    Amounts = {0, 1, 9}
    Units = {4, 12}
    Second = 2
    Minute = 4
    Times = {0, 1, 2, 3, 4, 5, 8, 9}
    MaxDate = 60
    Rungs = {1, 2}
    Commands = {"grant", "reset", "revoke"}
    Limited = {"grant", "revoke"}
    Buttons = {"revoke"}
    AdminOnly = {"reset"}
    Required = 2
    MaxCalls = 1
    MaxPromotions = 2
    MaxStops = 1
    Callers = {k1}
    None = none
    Capacity = 2
    Refill = 3
    MaxTime = 12
CHECK_DEADLOCK FALSE
SYMMETRY Symmetry
INVARIANTS NeverDuplicated
