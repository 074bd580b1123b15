SPECIFICATION Spec
CONSTANTS
    MaxErrs = 3
    Width = 4
    Programs <- MCPrograms
INVARIANTS AcceptedIsTyped AcceptedKeepsFrozen CellsAreExact
CHECK_DEADLOCK FALSE
