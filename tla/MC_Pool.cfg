\* One request at a time for two cards, three slots and a crash; or two requests
\* at a time for one card that may be resumed, and two slots.
CONSTANTS
    c1 = c1  c2 = c2  h1 = h1  h2 = h2  none = none
    Cards = {c1, c2}
    Handlers = {h1, h2}
    Strategies = {"find", "number"}
    Resumable = {c1}
    MaxSlots = 3
    MaxDispatches = 3
    MaxCrashes = 1
    NoCard = none
SPECIFICATION MCSpec
SYMMETRY HandlerSymmetry
INVARIANTS TypeOK CanCreate  
 
CHECK_DEADLOCK FALSE
