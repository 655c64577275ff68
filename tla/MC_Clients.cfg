\* Connections: a desktop, a concertmaster and a phone open three, make two calls,
\* and the daemon dies once.  Steer budget: two steers an hour, four calls, a
\* second server.  LAN: two ports, two phones, two owners, three requests, two ends
\* of the daemon.
CONSTANTS
    Asked <- TheAsked
    ScopeOf <- TheScopes
    MaxSockets = 3
    MaxCalls = 2
    MaxEnds = 1
    Calls = {"a", "b", "c", "d"}
    SteersPerHour = 2
    Hour = 2
    MaxTicks = 3
    MaxServers = 2
    Ports = {1, 2}
    NoPort = 0
    DefaultPort = 1
    Phones = {"p", "q"}
    Owners = {"desktop", "cli"}
    MaxAsks = 3
    MaxStops = 2
SPECIFICATION MCSpec
INVARIANTS ClientTypesOK 
PROPERTIES CallsAreAnswered PhonesAreServed
CHECK_DEADLOCK FALSE
