\* Two requests at once, three in all with the creation, and a failure.
SPECIFICATION FairSpec
CONSTANTS
    small = small
    large = large
    e1 = e1
    e2 = e2
    none = none
    Threads = {e1, e2}
    Packages = {small, large}
    Size <- Sizes12
    NoPackage = none
    CustomLimits = {"two seconds"}
    Edits <- SomeEdits
    Creations <- SomeCreations
    Groupings = {{1}}
    MaxRequests = 3
    MaxFaults = 1
INVARIANTS TypeOK TestsInOrder NothingShownEarly
PROPERTY EventuallyShown
CHECK_DEADLOCK FALSE
