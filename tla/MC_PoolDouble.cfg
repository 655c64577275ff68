\* Two dispatches at a time.
CONSTANTS
    Cards = {c1, c2}
    Handlers = {h1, h2}
    Strategies = {"find", "number"}
    Resumable = {}
    MaxSlots = 2
    MaxDispatches = 3
    MaxCrashes = 0
    NoCard = none
SPECIFICATION Spec
INVARIANTS OneOwner
CHECK_DEADLOCK FALSE
