\* Each part of the daemon by itself: a session that nothing disturbs; one plan
\* under review of two humans; a prompt and a steer at a program that swallows an
\* Enter, under one dialog, and a prompt at programs that swallow others or draw
\* late, under two; two daemons, two windows, and two of a tool, a crash and a
\* reload; a round type with two troubles.
CONSTANTS
    s1 = s1  p1 = p1  h1 = h1  u1 = u1  u2 = u2  none = none
    NoSession = NoSession
    Sessions = {s1}
    MaxLives = 1
    MaxSignals = 0
    Faults = FALSE
    Plans = {p1}
    Calls = {h1}
    Humans = {u1, u2}
    MaxRounds = 3
    MaxBatches = 2
    MaxKills = 0
    MaxCrashes = 0
    NoCall = none
    Prompts = {"p"}
    Steers = {"s"}
    Slashed = {"s"}
    TuiModes = {"popup", "slow", "placeholder", "never"}
    MaxAttempts = 2
    MaxDialogs = 2
    Daemons = {1, 2}
    Windows = {"w1", "w2"}
    MaxTools = 1
    MaxDeaths = 1
    MaxReloads = 1
    MaxTogether = 2
    RoundTypes <- OneRound
    Interval = 3
    SetBack = 2
    MaxTroubles = 2
SPECIFICATION MCSpec
INVARIANTS DaemonTypesOK OneDaemon
PROPERTIES
    SessionsSettle   WindowsAreServed SchedulesGoOn
CHECK_DEADLOCK FALSE
