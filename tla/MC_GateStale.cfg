CONSTANTS
    Cards = {c1}
    MaxSlots = 3
    Strictness = {"checks_only"}
    MaxRuns = 2
    MaxCommits = 2
    MaxFindings = 1
    MaxShips = 1
    MaxFaults = 0
    NoCard = none
SPECIFICATION Spec
PROPERTIES GatesAuthorsWork
CHECK_DEADLOCK FALSE
