\* A session of two lives of the daemon, under every failing write and thread,
\* with a signal; and two plans, an orphaned and a live request, a reviewer, one
\* kill and one crash.
CONSTANTS
    s1 = s1  p1 = p1  p2 = p2  h1 = h1  h2 = h2  u1 = u1  none = none
    NoSession = NoSession
    Sessions = {s1}
    MaxLives = 2
    MaxSignals = 1
    Faults = TRUE
    Plans = {p1, p2}
    Calls = {h1, h2}
    Humans = {u1}
    MaxRounds = 2
    MaxBatches = 2
    MaxKills = 1
    MaxCrashes = 1
    NoCall = none
SPECIFICATION MCSpec
SYMMETRY HandlerSymmetry
INVARIANTS
    TypeOK FinalizeOnce  NoGhost PastLivesTerminal
    FeedbackKept NeverUnapproved
CHECK_DEADLOCK FALSE
