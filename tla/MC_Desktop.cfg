\* Each conversation by itself.  Events: two writers and a client that reconnects
\* once, pages of two, an announcement queue of two.  Board: two cards in two
\* lanes, two changes by others, a card dragged, and a lost connection or another
\* upset.  Terminal: three bytes through a ring of two, a key, two panes, a
\* dropped connection or an attach while attached.  Phone: two items, one raise,
\* two lost connections, two taps.
CONSTANTS
    w1 = w1  w2 = w2  c1 = c1
    Writers = {w1, w2}
    Clients = {c1}
    MaxEvents = 5
    MaxDrops = 1
    Capacity = 2
    PageSize = 2
    BoardCards = {"card 1", "card 2"}
    BoardLanes = {"inbox", "ready"}
    Keys = {"digest"}
    MaxChanges = 2
    MaxMoves = 1
    MaxUpsets = 1
    MaxTogether = 3
    RingCap = 2
    BroadcastCap = 1
    ReadChunk = 2
    MaxBytes = 3
    MaxKeys = 1
    MaxPanes = 2
    MaxTroubles = 1
    PhoneItems = {"i", "j"}
    MaxRaises = 1
    MaxPhoneDrops = 2
    MaxLoads = 2
    MaxTaps = 2
SPECIFICATION MCSpec
INVARIANTS DesktopTypesOK NoDuplicates OnlyOvertakenLost  
PROPERTIES KeepsPromise ViewsCatchUp
CHECK_DEADLOCK FALSE
