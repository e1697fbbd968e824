CONSTANTS
    Ranks = {0, 1, 2}
    BenchBarriers = 3
    MaxRuns = 2
    MaxKills = 2
SPECIFICATION Spec
INVARIANTS AllOrNone FileIsRight Accounted EndsEarlyOnlyAtFirst
PROPERTY BatchEnds
CHECK_DEADLOCK FALSE
