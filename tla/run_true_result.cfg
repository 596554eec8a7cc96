\* A program that ends before docker wait reaches the daemon.
SPECIFICATION Spec
CONSTANTS
    NumSlots = 2
    Group <- OneGroup
    PerTask = 2
    Programs <- SolvesBoth
    MaxFaults = 0
    MaxEdits = 0
INVARIANT TrueResult
CHECK_DEADLOCK FALSE
