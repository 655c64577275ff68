\* One pane, one byte, one dropped connection.
CONSTANTS
    RingCap = 2
    BroadcastCap = 1
    ReadChunk = 2
    MaxBytes = 1
    MaxKeys = 0
    MaxPanes = 1
    MaxTroubles = 1
SPECIFICATION TermSpec
PROPERTIES ReattachesOnReconnect
CHECK_DEADLOCK FALSE
