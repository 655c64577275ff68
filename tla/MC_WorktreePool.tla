--------------------------- MODULE MC_WorktreePool ---------------------------
(* WorktreePool for TLC, in two cases chosen at the start: requests one at a  *)
(* time for two cards, none of them resumed, with crashes; and requests that  *)
(* overlap, for one card that may be resumed, without crashes.                *)
EXTENDS WorktreePool, TLC

CONSTANTS c1, c2, h1, h2, none

VARIABLE overlap

HandlerSymmetry == Permutations(Handlers)

OneAtATime ==
    /\ \A g, h \in Handlers : call'[g] # Idle /\ call'[h] # Idle => g = h
    /\ call' = call => \A s \in Slots : agents'[s] \subseteq agents[s]   \* no Resume

OneCard ==
    /\ \A h \in Handlers : call'[h] # Idle => call'[h].card = c1
    /\ \A s \in Slots : s > 1 => row'[s] = "none"
    /\ crashes' = 0

MCSpec ==
    /\ overlap \in BOOLEAN /\ Init
    /\ [][UNCHANGED overlap /\ Next /\ IF overlap THEN OneCard ELSE OneAtATime]_<< overlap, vars >>

(* What holds of requests one at a time.                                      *)

\* No two cards' agents run in one checkout, and an agent runs only where its
\* card holds the lease.
ExclusiveAlone == ~overlap => OneOwner /\ AgentsHoldLease

\* Work is never silently discarded: a checkout with unlanded work is under
\* lease, or parked for its card with a Needs You item.
WorkIsSafeAlone == ~overlap => NothingDiscarded /\ WorkIsHeld /\ ParkedIsAsked

\* The pool keeps what it promises.
PromiseAlone == INSTANCE Leases WITH
    owner  <- [s \in Slots |-> IF overlap \/ row[s] \notin {"leased", "dirty"}
                               THEN NoCard ELSE holder[s]],
    parked <- {s \in Slots : ~overlap /\ row[s] = "dirty"},
    work   <- {s \in Slots : ~overlap /\ Unlanded(s)}
KeepsPromiseAlone == PromiseAlone!Spec
=============================================================================
