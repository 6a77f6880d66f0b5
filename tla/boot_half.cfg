SPECIFICATION Spec
CONSTANTS
    Guilds = {g1, g2}
    Nil = nil
    Statements <- MCStatements
    MaxCrashes = 2
    MaxMoves = 3
CHECK_DEADLOCK FALSE
INVARIANTS CanStartAgain
