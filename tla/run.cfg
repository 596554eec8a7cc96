\* Three tests, two at a time, each with its own ways to fail; docker fails or the process
\* dies once, and the tests are imported once.
SPECIFICATION FairSpec
CONSTANTS
    NumSlots = 3
    Group <- TwoGroups
    PerTask = 2
    Programs <- SomePrograms
    MaxFaults = 1
    MaxEdits = 1
INVARIANTS TypeOK ContainersBounded NothingLeftBehind PointsMatchResults SoundResults
PROPERTY EventuallyReturns
CHECK_DEADLOCK FALSE
