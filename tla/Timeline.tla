------------------------------- MODULE Timeline -------------------------------
(***************************************************************************)
(* What event.subscribe promises (docs/spec/protocol.md, "Errors,          *)
(* reconnection, and flow control"; crates/dflowd/src/conn.rs, comment of  *)
(* start_event_stream), with the one exception the code makes: a client    *)
(* reads the card-event log from its start, in order, nothing twice and    *)
(* nothing left out that was not overtaken, across dropped connections and *)
(* daemon restarts.                                                        *)
(***************************************************************************)
EXTENDS Integers

CONSTANT Clients

VARIABLES
    log,        \* how many events were committed
    seen,       \* the last of them a client has received
    overtaken   \* those announced after a later one; none while one thread writes

Init == log = 0 /\ seen = [c \in Clients |-> 0] /\ overtaken = {}

Commit == log' \in Nat /\ log' > log /\ UNCHANGED <<seen, overtaken>>

Overtake ==
    /\ overtaken \subseteq overtaken' /\ overtaken' \ overtaken \subseteq 1 .. log - 1
    /\ UNCHANGED <<log, seen>>

Receive(c) ==
    /\ \E e \in seen[c] + 1 .. log :
         /\ \A f \in seen[c] + 1 .. e - 1 : f \in overtaken
         /\ seen' = [seen EXCEPT ![c] = e]
    /\ UNCHANGED <<log, overtaken>>

Next == Commit \/ Overtake \/ \E c \in Clients : Receive(c)

Spec == Init /\ [][Next]_<<log, seen, overtaken>>
=============================================================================
