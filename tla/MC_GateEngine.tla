---------------------------- MODULE MC_GateEngine ----------------------------
(* GateEngine for TLC, in two cases chosen at the start: one run of any        *)
(* strictness, with an agent's finding, fixes and a fault; and two runs, of    *)
(* one card or of two, whose agents find nothing.                              *)
EXTENDS GateEngine, TLC

CONSTANTS c1, c2, none

VARIABLE several

\* The bounds of a case are kept by steps nobody promises to take: requests,
\* commits, faults.
OneRun ==
    /\ run'[2] = NoRow /\ author'[c2] = NoSlot
    /\ counts'.ships + counts'.cancels + counts'.crashes <= 2

\* The first run is of c1: cards are only compared for equality.
TwoRuns ==
    /\ run'[1].card # c2
    /\ \A r \in Runs : run'[r].strict = "full" /\ run'[r].findings = << >>
    /\ made' <= 1 /\ counts'.cancels = 0 /\ counts'.crashes = 0

MCSpec ==
    /\ several \in BOOLEAN /\ Init
    /\ [][UNCHANGED several /\ Next /\ IF several THEN TwoRuns ELSE OneRun]_<< several, vars >>

\* GateEngine's Fairness, in the case of one run.
OneRunFairness == \A r \in Runs : WF_vars(~several /\ Pipeline(r))

\* A run comes to a verdict unless the daemon dies under it.
RunsConclude == ~several /\ OneRunFairness => RunConcludes
==============================================================================
