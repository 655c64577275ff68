-------------------------------- MODULE Leases --------------------------------
(***************************************************************************)
(* What the worktree pool promises, without its handlers: a checkout has   *)
(* at most one owner, work happens only in an owned checkout, and an owned *)
(* checkout goes back to the pool only when nothing in it is unlanded.     *)
(***************************************************************************)
CONSTANTS Slots, Cards, NoCard

VARIABLES
    owner,   \* the card that holds a checkout, or NoCard
    parked,  \* checkouts kept for a human
    work     \* checkouts with unlanded work

vars == <<owner, parked, work>>

Init ==
    /\ owner = [s \in Slots |-> NoCard]
    /\ parked = {} /\ work = {}

Acquire(s, c) ==
    /\ owner[s] = NoCard
    /\ owner' = [owner EXCEPT ![s] = c]
    /\ UNCHANGED <<parked, work>>

Return(s) ==
    /\ owner[s] # NoCard /\ s \notin parked /\ s \notin work
    /\ owner' = [owner EXCEPT ![s] = NoCard]
    /\ UNCHANGED <<parked, work>>

Park(s) ==
    /\ owner[s] # NoCard
    /\ parked' = parked \union {s}
    /\ UNCHANGED <<owner, work>>

Work(s) ==
    /\ owner[s] # NoCard
    /\ work' = work \union {s}
    /\ UNCHANGED <<owner, parked>>

Land(s) ==
    /\ work' = work \ {s}
    /\ UNCHANGED <<owner, parked>>

Next == \E s \in Slots :
    \/ \E c \in Cards : Acquire(s, c)
    \/ Return(s) \/ Park(s) \/ Work(s) \/ Land(s)

Spec == Init /\ [][Next]_vars
=============================================================================
