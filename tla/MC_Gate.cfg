\* One run with one finding of an agent, two commits, two ships, and a cancel or a
\* crash; or two runs next to the cards' authors, with two ships.
CONSTANTS
    c1 = c1  c2 = c2  none = none
    Cards = {c1, c2}
    MaxSlots = 3
    Strictness = {"none", "checks_only", "full"}
    MaxRuns = 2
    MaxCommits = 2
    MaxFindings = 1
    MaxShips = 2
    MaxFaults = 1
    NoCard = none
SPECIFICATION MCSpec
INVARIANTS TypeOK VerdictsAreEarned WorktreesAreKept
PROPERTIES RunsConclude
CHECK_DEADLOCK FALSE
