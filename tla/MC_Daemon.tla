------------------------------- MODULE MC_Daemon -------------------------------
(* What must eventually happen on the daemon's side, one part of it at a time: *)
(* the parts share no state, so each is explored while the others rest in      *)
(* their initial states.  For what may never happen to a session or a review   *)
(* there is MC_Faults.                                                         *)
EXTENDS SessionLifecycle, ArtifactReview, Steering, DaemonStart, Rounds, TLC

CONSTANTS
    s1, p1, h1, u1, u2, none,
    MaxTogether   \* bound: tools, crashes and reloads around daemons that start

OneRound == << "garden" >>

VARIABLE part   \* the part that runs

parts == << vars, reviewVars, steerVars, startVars, roundVars >>

MCInit ==
    /\ part \in {"session", "review", "steering", "start", "rounds"}
    /\ Init /\ ReviewInit /\ SteerInit /\ DaemonInit /\ RoundsInit
    /\ part # "rounds" => enabled = {}
    /\ part # "steering" => mode = "popup"

SessionPart ==
    /\ part = "session" /\ Next
    /\ UNCHANGED << part, reviewVars, steerVars, startVars, roundVars >>

ReviewPart ==
    /\ part = "review" /\ ReviewNext
    /\ UNCHANGED << part, vars, steerVars, startVars, roundVars >>

\* A steer beside the prompt at the program with the popup and one dialog; at
\* every program the prompt alone and two.
SteeringPart ==
    /\ part = "steering" /\ SteerNext
    /\ (mode = "popup" /\ dialogs' <= 1) \/ \A s \in Steers : at'[s] = "idle"
    /\ UNCHANGED << part, vars, reviewVars, startVars, roundVars >>

StartPart ==
    /\ part = "start" /\ DaemonNext
    /\ budget'.tools + budget'.crashes + budget'.reloads <= MaxTogether
    /\ UNCHANGED << part, vars, reviewVars, steerVars, roundVars >>

RoundsPart ==
    /\ part = "rounds" /\ RoundsNext
    /\ UNCHANGED << part, vars, reviewVars, steerVars, startVars >>

MCNext == SessionPart \/ ReviewPart \/ SteeringPart \/ StartPart \/ RoundsPart

MCSpec == MCInit /\ [][MCNext]_<< part, parts >>

\* A session's end is noticed, a graceful shutdown completes, and the tokens of
\* a session that ended by itself are taken.
SessionsSettle ==
    part = "session" /\ Fairness => ExitNoticed /\ ShutdownCompletes /\ TokensPruned

\* Feedback reaches the agent, and an agent parked in a poll shows as waiting.
ReviewGoesOn ==
    []ParkedIsAwaiting /\ (part = "review" /\ ReviewFairness => FeedbackHeard)

\* A submit answers no dialog that stood before it, nor one that its own retries
\* would meet; what it reports as submitted the program took, and a first prompt
\* that could not be delivered is in Needs You.
SubmitsAreVerified ==
    /\ []RetriesAreSafe /\ []LooksBeforeTyping
    /\ part = "steering" /\ SteerFairness => SubmittedArrives /\ NeverDropped

\* Of daemons that start, stop and die one serves, under a token that outlives
\* it, and what is said to be stopped is.
OneDaemon == OneServes /\ TokenOutlives /\ StoppedIsStopped

\* A window that waits for a daemon gets one, and connects to one that lives.
WindowsAreServed ==
    ToldTheLiving /\ (part = "start" /\ DaemonFairness => StartIsNotBlocked)

\* A schedule goes on dispatching rounds, and no faster than its interval.
SchedulesGoOn ==
    AttemptsApart /\ (part = "rounds" /\ RoundsFairness => ScheduleKeepsGoing)

\* The types of the parts' variables.
DaemonTypesOK == ReviewTypeOK /\ SteerTypeOK /\ DaemonTypeOK /\ RoundsTypeOK
================================================================================
