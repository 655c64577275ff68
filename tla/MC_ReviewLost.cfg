CONSTANTS
    p1 = p1  h1 = h1  h2 = h2  u1 = u1  none = none
    Plans = {p1}
    Calls = {h1, h2}
    Humans = {u1}
    MaxRounds = 3
    MaxBatches = 2
    MaxKills = 1
    MaxCrashes = 0
    NoCall = none
SPECIFICATION ReviewSpec
INVARIANTS FeedbackNeverLost
CHECK_DEADLOCK FALSE
