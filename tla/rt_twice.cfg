\* The tickers of two web processes on MySQL, without faults.
SPECIFICATION Spec
CONSTANTS
    ann = ann
    bob = bob
    web1 = web1
    web2 = web2
    adm = adm
    sum = sum
    path = path
    tree = tree
    NumContests = 2
    Users = {ann, bob}
    Players <- SomePlayers
    Problems = {sum, path, tree}
    Linked <- SharedProblems
    Tickers = {web1, web2}
    Admins = {}
    SerialTx = FALSE
    MaxFaults = 0
    MaxRebuilds = 0
    MaxEdits = 0
INVARIANT SettledOnce
CHECK_DEADLOCK FALSE
