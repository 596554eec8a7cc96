\* Three submissions of two users to two problems, and the settlement of one contest.
SPECIFICATION BothSpec
CONSTANTS
    p1 = p1
    p2 = p2
    NumSubs = 3
    Points = {100}
    NumUsers = 2
    Members = {2}
    Problems = {p1, p2}
    Collections = {{p1}, {p2}, {p1, p2}}
    MaxTroubles = 1
    NumCodes = 3
    CodeProblems = {1, 2}
    Similarity <- SomeSimilarity
    Thresholds = {6, 8}
    Checkers = {c1, c2}
    MaxChecks = 3
    MaxBreaks = 1
VIEW Seen
SYMMETRY ProblemsAlike
INVARIANTS TypeOK SettledAsShown RanksFair SimilarityAsChecked
PROPERTY StandingsFinal
CHECK_DEADLOCK FALSE
