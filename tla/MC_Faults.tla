------------------------------ MODULE MC_Faults ------------------------------
(* What may never happen to a session and to a review under every fault, one  *)
(* of them at a time: they share no state, so each is explored while the      *)
(* other rests in its initial states.                                         *)
EXTENDS SessionLifecycle, ArtifactReview, TLC

CONSTANTS s1, p1, p2, h1, h2, u1, none

VARIABLE part   \* the part that runs

MCInit == part \in {"session", "review"} /\ Init /\ ReviewInit

SessionPart == part = "session" /\ Next /\ UNCHANGED << part, reviewVars >>
ReviewPart  == part = "review" /\ ReviewNext /\ UNCHANGED << part, vars >>

MCSpec == MCInit /\ [][SessionPart \/ ReviewPart]_<< part, vars, reviewVars >>

HandlerSymmetry == Permutations(Calls)
=============================================================================
