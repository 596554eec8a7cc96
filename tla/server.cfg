\* The web process with two requests at once, one console and one fault.
SPECIFICATION FairSpec
CONSTANTS
    t1 = t1
    t2 = t2
    c1 = c1
    Threads = {t1, t2}
    Consoles = {c1}
    Names = {"root", "bob", "eve"}
    Clients = {"root", "bob"}
    GroupNames = {"super", "class", "club"}
    MaxRequests = 3
    MaxFaults = 1
    Imports <- SomeImports
    InitialUsers <- SomeUsers
    InitialGroups <- SomeGroups
    FirstUser = 3
    FirstGroup = 4
INVARIANTS TypeOK SavedAsIntended MembersHaveGroups BoardAsPosted
PROPERTY CommandsAnswered
CHECK_DEADLOCK FALSE
