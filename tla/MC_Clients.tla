------------------------------ MODULE MC_Clients ------------------------------
(* What the daemon lets clients do, one part at a time: calls over connections, *)
(* the Concertmaster's steers, the LAN settings and pairings.  They share no    *)
(* state, so each is explored while the others rest in their initial states.    *)
EXTENDS Connection, SteerBudget, LanAccess, TLC

(* Who speaks over the connections, and what they ask for: verbs that hand out *)
(* tokens, verbs their scope has and verbs it withholds.                       *)
TheAsked ==
    [c \in {"desktop", "concertmaster", "phone"} |->
        CASE c = "desktop"       -> {"auth.mint_concertmaster", "daemon.lan.pair", "daemon.shutdown"}
          [] c = "concertmaster" -> {"card.move", "gate.merge"}
          [] c = "phone"         -> {"session.send_verified", "session.kill"}]

TheScopes ==
    [c \in DOMAIN TheAsked |-> IF c = "desktop" THEN "root" ELSE c]

VARIABLE part   \* the part that runs

parts == << talkVars, budgetVars, lanVars >>

MCInit ==
    /\ part \in {"connection", "budget", "lan"}
    /\ ConnInit /\ BudgetInit /\ LanInit
    /\ part # "budget" => knows = FALSE /\ steerable = FALSE

ConnectionPart ==
    /\ part = "connection" /\ ConnNext
    /\ UNCHANGED << part, budgetVars, lanVars >>

BudgetPart ==
    /\ part = "budget" /\ BudgetNext
    /\ UNCHANGED << part, talkVars, lanVars >>

LanPart ==
    /\ part = "lan" /\ LanNext
    /\ UNCHANGED << part, talkVars, budgetVars >>

MCNext == ConnectionPart \/ BudgetPart \/ LanPart

MCSpec == MCInit /\ [][MCNext]_<< part, parts >>

\* Calls over connections that break and open again: those answered were done,
\* those refused were not, no token reaches verbs it was not given, and no server
\* of the Concertmaster's sends more steers than its hour allows.
CallsAreTrue == AnsweredMeansDone /\ ScopesHold /\ SteersBounded

\* Whatever breaks, no caller waits for ever: its call is answered or rejected.
CallsAreAnswered == part = "connection" /\ ConnFairness => CallsSettle

\* The LAN is open as the toggle says, to the phones that are paired and to no
\* other, and a phone that was promised a listener comes back to it.
PhonesAreServed ==
    []ToggleIsTrue /\ RevokedStaysOut /\ (part = "lan" /\ LanFairness => PromisedPhonesReturn)

\* The types of the parts' variables.
ClientTypesOK == ConnTypeOK /\ SteerBudgetTypeOK /\ LanTypeOK
================================================================================
