------------------------------ MODULE SteerBudget ------------------------------
(***************************************************************************)
(* The Concertmaster's steers of one session, as its MCP server counts     *)
(* them (dflow-mcp steer.rs): a slot of a rolling hour is taken before the *)
(* steer is sent, and handed back when the daemon does not know the verb.  *)
(* Tool calls run side by side; the count dies with the server.            *)
(***************************************************************************)
EXTENDS Integers, Sequences, FiniteSets

CONSTANTS
    Calls,         \* steer_session calls
    SteersPerHour, \* STEERS_PER_HOUR
    Hour,          \* WINDOW, in ticks of the clock
    MaxTicks,      \* bound: ticks of the clock
    MaxServers     \* bound: MCP servers that run one after the other

ASSUME SteerBudgetAssumption ==
    /\ IsFiniteSet(Calls)
    /\ {SteersPerHour, Hour, MaxServers} \subseteq Nat \ {0} /\ MaxTicks \in Nat

VARIABLES
    knows,     \* the daemon routes session.send_verified
    steerable, \* the session is alive and its adapter known, without no_auto_steer
    slots,     \* SteerGuard.by_session of the session: when its slots were taken
    now,
    servers,   \* MCP servers started so far
    call,      \* where each call is: "idle", "sending", "done", "refused"
    sends      \* steers that reached the daemon's submit: when, and from which server

budgetVars == << knows, steerable, slots, now, servers, call, sends >>

BudgetInit ==
    /\ knows \in BOOLEAN /\ steerable \in BOOLEAN
    /\ slots = << >> /\ now = 0 /\ servers = 1
    /\ call = [c \in Calls |-> "idle"] /\ sends = << >>

\* retain(..): slots are in the order they were taken, so those younger than an
\* hour are what is left when as many as are older are dropped in front.
Old   == {k \in DOMAIN slots : now - slots[k] >= Hour}
Young == SubSeq(slots, Cardinality(Old) + 1, Len(slots))

\* steer_session up to the send: a session that is gone or an adapter that
\* refuses spends nothing; try_acquire forgets slots older than an hour.
Acquire(c) ==
    /\ call[c] = "idle"
    /\ LET ok == steerable /\ Len(Young) < SteersPerHour
       IN  /\ slots' = IF ok THEN Append(Young, now) ELSE IF steerable THEN Young ELSE slots
           /\ call' = [call EXCEPT ![c] = IF ok THEN "sending" ELSE "refused"]
    /\ UNCHANGED << knows, steerable, now, servers, sends >>

\* The daemon submits the text, or does not know the verb and the latest slot
\* is handed back.
Answered(c) ==
    /\ call[c] = "sending"
    /\ call' = [call EXCEPT ![c] = "done"]
    /\ IF knows
       THEN sends' = Append(sends, [at |-> now, server |-> servers]) /\ UNCHANGED slots
       ELSE slots' = SubSeq(slots, 1, Len(slots) - 1) /\ UNCHANGED sends
    /\ UNCHANGED << knows, steerable, now, servers >>

\* A steer takes seconds: the clock's ticks fall between steers.
Tick ==
    /\ now < MaxTicks /\ now' = now + 1
    /\ \A c \in Calls : call[c] # "sending"
    /\ UNCHANGED << knows, steerable, slots, servers, call, sends >>

SessionEnds ==
    /\ steerable /\ steerable' = FALSE
    /\ UNCHANGED << knows, slots, now, servers, call, sends >>

\* The Concertmaster's conversation ends, between its calls, and another begins.
RestartServer ==
    /\ servers < MaxServers /\ servers' = servers + 1
    /\ \A c \in Calls : call[c] # "sending"
    /\ slots' = << >>
    /\ UNCHANGED << knows, steerable, now, call, sends >>

BudgetNext ==
    \/ \E c \in Calls : Acquire(c) \/ Answered(c)
    \/ Tick \/ SessionEnds \/ RestartServer

BudgetSpec == BudgetInit /\ [][BudgetNext]_budgetVars

-----------------------------------------------------------------------------
(* Properties.                                                             *)

\* The types of the variables: no more slots are taken than there are.
SteerBudgetTypeOK ==
    /\ knows \in BOOLEAN /\ steerable \in BOOLEAN
    /\ Len(slots) <= SteersPerHour /\ \A i \in DOMAIN slots : slots[i] \in 0 .. now
    /\ now \in 0 .. MaxTicks /\ servers \in 1 .. MaxServers
    /\ call \in [Calls -> {"idle", "sending", "done", "refused"}]
    /\ Len(sends) <= Cardinality(Calls)

\* "A per-session steer budget per rolling hour": in no hour do more steers of
\* one MCP server reach the session than the budget, however its tool calls
\* overlap.
SteersBounded ==
    \A i \in DOMAIN sends :
        Cardinality({j \in i .. Len(sends) : /\ sends[j].server = sends[i].server
                                             /\ sends[j].at - sends[i].at < Hour}) <= SteersPerHour
================================================================================
