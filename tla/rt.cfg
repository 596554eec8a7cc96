\* A ticker and a rebuild that overlap on MySQL; a statement or process fails once, and a
\* rating is set by hand or a contest deleted once.  The contests share a problem.
SPECIFICATION FairSpec
CONSTANTS
    ann = ann
    bob = bob
    web1 = web1
    web2 = web2
    adm = adm
    sum = sum
    path = path
    tree = tree
    NumContests = 2
    Users = {ann, bob}
    Players <- SomePlayers
    Problems = {sum, path, tree}
    Linked <- SharedProblems
    Tickers = {web1}
    Admins = {adm}
    SerialTx = FALSE
    MaxFaults = 1
    MaxRebuilds = 1
    MaxEdits = 1
INVARIANTS TypeOK TidyRatings FlaggedBeforeRated NothingEarly
PROPERTIES Chronological EventuallyRated
CHECK_DEADLOCK FALSE
