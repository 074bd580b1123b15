SPECIFICATION Spec
CONSTANTS
    MaxErrs = 3
    Width = 4
    Programs <- SameNames
INVARIANTS TablesApart
CHECK_DEADLOCK FALSE
