------------------------------ MODULE EventStream ------------------------------
(***************************************************************************)
(* The card-event stream: Store::tx_events commits events to the durable   *)
(* log and then, with the lock released, broadcasts them; start_event_stream *)
(* replays the log from the client's cursor and goes over to the broadcast. *)
(*                                                                         *)
(* Source: crates/dflow-core/src/store/mod.rs (tx_events, append_event,    *)
(* events_after), crates/dflowd/src/conn.rs (handle_socket,                *)
(* start_event_stream), tokio's broadcast channel as they use it.          *)
(*                                                                         *)
(* An event is its place in the log: ids are minted under the connection   *)
(* lock by one monotonic generator, so their order is the order of commit. *)
(***************************************************************************)
EXTENDS Naturals, Sequences

CONSTANTS
    Writers,    \* threads that run store transactions
    Clients,    \* subscribed clients; each keeps the cursor it has seen
    MaxEvents,  \* bound: events ever committed
    MaxDrops,   \* bound: lost connections and daemon restarts, together
    Capacity,   \* events the broadcast channel retains
    PageSize    \* rows a replay query returns at most

ASSUME CapacityAssumption == Capacity \in Nat \ {0}
ASSUME PageAssumption     == PageSize \in Nat \ {0}
ASSUME BoundAssumption    == MaxEvents \in Nat /\ MaxDrops \in Nat

VARIABLES
    log,        \* how many events are committed: they are 1 .. log
    pending,    \* a writer's committed events that it has still to broadcast
    sent,       \* everything broadcast in this daemon's life, in order
    at,         \* a client's forwarder: "off", "replay", "live" or "gap"
    pos,        \* the forwarder's next index in sent
    last,       \* the forwarder's high-water mark
    wire,       \* events handed to the connection and not yet received
    seen,       \* the client's cursor: the last event it received, 0 for none
    got,        \* every event the client received
    overtaken,  \* events still pending when a later one was broadcast
    drops       \* counts lost connections and restarts against MaxDrops

logVars    == <<log, pending, sent, overtaken>>
streamVars == <<at, pos, last>>
clientVars == <<seen, got>>
vars == <<logVars, streamVars, wire, clientVars, drops>>

Events == 1 .. MaxEvents

TypeOK ==
    /\ log \in 0 .. MaxEvents
    /\ pending \in [Writers -> SUBSET Nat]
    /\ sent \in Seq(Nat)
    /\ at \in [Clients -> {"off", "replay", "live", "gap"}]
    /\ pos \in [Clients -> Nat \ {0}]
    /\ last \in [Clients -> 0 .. MaxEvents]
    /\ wire \in [Clients -> Seq(Nat)]
    /\ seen \in [Clients -> Nat]
    /\ got \in [Clients -> SUBSET Nat]
    /\ overtaken \subseteq Nat
    /\ drops \in 0 .. MaxDrops

Init ==
    /\ log = 0 /\ sent = <<>> /\ overtaken = {} /\ drops = 0
    /\ pending = [w \in Writers |-> {}]
    /\ at = [c \in Clients |-> "off"]
    /\ pos = [c \in Clients |-> 1]
    /\ last = [c \in Clients |-> 0]
    /\ wire = [c \in Clients |-> <<>>]
    /\ seen = [c \in Clients |-> 0]
    /\ got = [c \in Clients |-> {}]

-----------------------------------------------------------------------------
(* Slips, put in place of the definition they are named after.              *)

\* The forwarder forgets to skip what the replay has already delivered.
ForwardsAll(c, e) ==
    /\ last' = [last EXCEPT ![c] = e]
    /\ wire' = [wire EXCEPT ![c] = Append(@, e)]

\* The stream starts at the log's end instead of at the client's cursor.
ResumesAtLatest(c) ==
    /\ at[c] = "off"
    /\ at' = [at EXCEPT ![c] = "replay"]
    /\ pos' = [pos EXCEPT ![c] = Len(sent) + 1]
    /\ last' = [last EXCEPT ![c] = log]
    /\ UNCHANGED <<logVars, wire, clientVars, drops>>

\* A lagging receiver goes on with what the channel retains.
LagIgnored(c) ==
    /\ at[c] = "live" /\ Len(sent) - (pos[c] - 1) > Capacity
    /\ pos' = [pos EXCEPT ![c] = Len(sent) - Capacity + 1]
    /\ UNCHANGED <<at, last, logVars, wire, clientVars, drops>>

-----------------------------------------------------------------------------
(* The store.                                                               *)

Pending == UNION {pending[w] : w \in Writers}

\* tx_events: one transaction under the lock appends one or more events.
Commit(w) ==
    /\ pending[w] = {}
    /\ \E n \in 1 .. 2 :
         /\ log + n <= MaxEvents
         /\ log' = log + n
         /\ pending' = [pending EXCEPT ![w] = log + 1 .. log + n]
    /\ UNCHANGED <<sent, overtaken, streamVars, wire, clientVars, drops>>

\* After the commit, without the lock: the batch goes out in id order.
Broadcast(w) ==
    /\ \E e \in pending[w] :
         /\ \A f \in pending[w] : e <= f
         /\ pending' = [pending EXCEPT ![w] = @ \ {e}]
         /\ sent' = Append(sent, e)
         /\ overtaken' = overtaken \union {f \in Pending : f < e}
    /\ UNCHANGED <<log, streamVars, wire, clientVars, drops>>

-----------------------------------------------------------------------------
(* The forwarder of one connection.                                         *)

\* The rows of a replay query: the events after the cursor, one page of them.
Page(c) == [i \in 1 .. (IF log - last[c] < PageSize THEN log - last[c] ELSE PageSize)
              |-> last[c] + i]

\* event.subscribe { cursor }: subscribe to the channel first, then replay.
Subscribe(c) ==
    /\ at[c] = "off"
    /\ at' = [at EXCEPT ![c] = "replay"]
    /\ pos' = [pos EXCEPT ![c] = Len(sent) + 1]
    /\ last' = [last EXCEPT ![c] = seen[c]]
    /\ UNCHANGED <<logVars, wire, clientVars, drops>>

\* Replay and gap recovery alike: a page of rows goes to the connection ...
SendPage(c) ==
    /\ at[c] \in {"replay", "gap"} /\ last[c] < log
    /\ last' = [last EXCEPT ![c] = @ + Len(Page(c))]
    /\ wire' = [wire EXCEPT ![c] = @ \o Page(c)]
    /\ UNCHANGED <<at, pos, logVars, clientVars, drops>>

\* ... and an empty page ends it.
GoLive(c) ==
    /\ at[c] \in {"replay", "gap"} /\ last[c] >= log
    /\ at' = [at EXCEPT ![c] = "live"]
    /\ UNCHANGED <<pos, last, logVars, wire, clientVars, drops>>

\* An event of the live tail: skipped at or below the high-water mark.
Forward(c, e) ==
    IF e <= last[c]
    THEN UNCHANGED <<last, wire>>
    ELSE /\ last' = [last EXCEPT ![c] = e]
         /\ wire' = [wire EXCEPT ![c] = Append(@, e)]

Lag(c) == Len(sent) - (pos[c] - 1)

ReceiveLive(c) ==
    /\ at[c] = "live" /\ pos[c] <= Len(sent) /\ Lag(c) <= Capacity
    /\ Forward(c, sent[pos[c]])
    /\ pos' = [pos EXCEPT ![c] = @ + 1]
    /\ UNCHANGED <<at, logVars, clientVars, drops>>

\* RecvError::Lagged: the receiver is moved to the oldest retained event.
Lagged(c) ==
    /\ at[c] = "live" /\ Lag(c) > Capacity
    /\ at' = [at EXCEPT ![c] = "gap"]
    /\ pos' = [pos EXCEPT ![c] = Len(sent) - Capacity + 1]
    /\ UNCHANGED <<last, logVars, wire, clientVars, drops>>

Forwarder(c) == SendPage(c) \/ GoLive(c) \/ ReceiveLive(c) \/ Lagged(c)

-----------------------------------------------------------------------------
(* The client and the failures.                                             *)

ClientReceives(c) ==
    /\ wire[c] # <<>>
    /\ seen' = [seen EXCEPT ![c] = Head(wire[c])]
    /\ got' = [got EXCEPT ![c] = @ \union {Head(wire[c])}]
    /\ wire' = [wire EXCEPT ![c] = Tail(@)]
    /\ UNCHANGED <<logVars, streamVars, drops>>

\* The connection is lost with what it still carries; the forwarder is aborted.
Disconnect(c) ==
    /\ at[c] # "off" /\ drops < MaxDrops
    /\ drops' = drops + 1
    /\ at' = [at EXCEPT ![c] = "off"]
    /\ wire' = [wire EXCEPT ![c] = <<>>]
    /\ UNCHANGED <<pos, last, logVars, clientVars>>

\* The daemon dies, perhaps between a commit and its broadcast, and comes back.
Restart ==
    /\ drops < MaxDrops
    /\ drops' = drops + 1
    /\ pending' = [w \in Writers |-> {}]
    /\ sent' = <<>>
    /\ at' = [c \in Clients |-> "off"]
    /\ wire' = [c \in Clients |-> <<>>]
    /\ UNCHANGED <<log, overtaken, pos, last, clientVars>>

Next ==
    \/ Restart
    \/ \E w \in Writers : Commit(w) \/ Broadcast(w)
    \/ \E c \in Clients : \/ Subscribe(c) \/ Forwarder(c)
                          \/ ClientReceives(c) \/ Disconnect(c)

Spec == Init /\ [][Next]_vars

\* A thread that has committed goes on to broadcast, the runtime runs every
\* forwarder, the connection delivers what it carries as long as it stands, and
\* a client that lost its connection subscribes again.
Fairness ==
    /\ \A w \in Writers : WF_vars(Broadcast(w))
    /\ \A c \in Clients :
         WF_vars(Forwarder(c)) /\ WF_vars(ClientReceives(c)) /\ WF_vars(Subscribe(c))

FairSpec == Spec /\ Fairness

-----------------------------------------------------------------------------
(* Properties.                                                              *)

Increasing(s) == \A i, j \in 1 .. Len(s) : i < j => s[i] < s[j]

\* "Nothing is duplicated": what a client has received and what is on its way
\* ascends strictly, over the seams of replay, live tail, gap recovery and
\* reconnection.
NoDuplicates == \A c \in Clients : Increasing(<<seen[c]>> \o wire[c])

\* A client's cursor never passes an event it did not get, unless that event's
\* broadcast was overtaken by that of a later one: replay, paging, lag, lost
\* connections and restarts between commit and broadcast lose nothing.
OnlyOvertakenLost ==
    \A c \in Clients : \A e \in 1 .. seen[c] : e \in got[c] \union overtaken

\* The same without the exception, as the comment of start_event_stream has it:
\* "an event committed during replay is never lost", "a slow client loses
\* nothing".
NothingLost == \A c \in Clients : \A e \in 1 .. seen[c] : e \in got[c]

\* Every committed event reaches every client in the end, or was overtaken.
CatchesUp ==
    \A c \in Clients, e \in Events : e <= log ~> e \in got[c] \union overtaken

\* The stream keeps the abstract promise.
Promise == INSTANCE Timeline
KeepsPromise == Promise!Spec
=============================================================================
