---------------------------- MODULE ArtifactReview ----------------------------
(***************************************************************************)
(* Plan Studio's review loop: the agent opens a plan (artifact.register)   *)
(* and polls for feedback (artifact.feedback.poll); a human reviews it and *)
(* submits feedback, an approval or the end of the review                  *)
(* (artifact.feedback.submit).  Every request is a handler of the daemon   *)
(* that makes several store calls, each under the store's lock; handlers   *)
(* interleave between them.                                                *)
(*                                                                         *)
(* Source: crates/dflowd/src/api.rs (register_artifact_inner,              *)
(* feedback_submit, artifact_feedback_poll), crates/dflowd/src/conn.rs     *)
(* (handle_socket awaits a request before it reads on, so it does not see  *)
(* that the client is gone), crates/dflow-core/src/store/artifacts.rs.     *)
(***************************************************************************)
EXTENDS Naturals, Sequences, FiniteSets

CONSTANTS
    Plans,      \* paths of plan artifacts of one card
    Calls,      \* the daemon's handlers of the agent's requests
    Humans,     \* review clients (desktop, phone): one submission each at a time
    MaxRounds,  \* bound: rounds of one plan
    MaxBatches, \* bound: feedback submissions
    MaxKills,   \* bound: invocations of the CLI killed by the agent's harness
    MaxCrashes, \* bound: deaths of the daemon
    NoCall

ASSUME ReviewAssumption ==
    NoCall \notin Calls /\ {MaxRounds, MaxBatches, MaxKills, MaxCrashes} \subseteq Nat

VARIABLES
    round,      \* artifacts.round of a plan, 0 while it is not registered
    status,     \* artifacts.status
    order,      \* the registered plans in the order of their ids
    queued,     \* the annotations in state 'queued', by batch
    asked,      \* plans whose plan_round item is open in Needs You
    session,    \* the agent session's state
    call,       \* the handlers
    agent,      \* the call the agent's CLI waits for, or NoCall
    next,       \* what the last `next:` line told the agent to do
    human,      \* the submissions under way
    batches,    \* counts submissions against MaxBatches; a batch is its number
    stored,     \* batches whose annotations were written
    heard,      \* batches the agent received
    lost,       \* batches whose reply found no reader
    approvals,  \* plans with a plan_approved event
    told,       \* plans the agent was told are approved
    kills,      \* counts killed invocations against MaxKills
    crashes     \* counts crashes against MaxCrashes

planVars   == <<round, status, order, asked>>
agentVars == <<agent, next, heard, lost, told>>
countVars == <<batches, kills, crashes>>
noteVars  == <<queued, stored>>
reviewVars == <<planVars, noteVars, session, call, agentVars, human, approvals, countVars>>

Batches == 1 .. MaxBatches
Acts    == {"notes", "approve_plan", "end_review"}
Statuses == {"open", "approved", "ended"}

Batch == [id : Batches, plan : Plans, round : 1 .. MaxRounds]

NoRequest == [pc |-> "idle"]

CallStates ==
    {NoRequest}
    \union [pc : {"write", "ask"}, plan : Plans, seen : 0 .. MaxRounds - 1]
    \union [pc : {"park", "read"}, plan : Plans]
    \union [pc : {"take"}, plan : Plans, seen : Statuses]
    \union [pc : {"wake", "reply"}, plan : Plans, items : SUBSET Batches,
            next : {"open", "poll", "stop"}, approved : BOOLEAN]

HumanStates ==
    {NoRequest}
    \union [pc : {"queue", "resolve", "conclude"}, plan : Plans, round : 1 .. MaxRounds,
            act : Acts, id : Batches]

ReviewTypeOK ==
    /\ round \in [Plans -> 0 .. MaxRounds]
    /\ status \in [Plans -> Statuses]
    /\ order \in Seq(Plans)
    /\ queued \subseteq Batch
    /\ asked \subseteq Plans
    /\ session \in {"working", "awaiting_feedback"}
    /\ call \in [Calls -> CallStates]
    /\ agent \in Calls \union {NoCall}
    /\ next \in {"open", "poll", "stop"}
    /\ human \in [Humans -> HumanStates]
    /\ batches \in 0 .. MaxBatches /\ kills \in 0 .. MaxKills /\ crashes \in 0 .. MaxCrashes
    /\ stored \subseteq Batches /\ heard \subseteq Batches /\ lost \subseteq Batches
    /\ approvals \subseteq Plans /\ told \subseteq Plans

ReviewInit ==
    /\ round = [p \in Plans |-> 0] /\ status = [p \in Plans |-> "open"]
    /\ order = <<>> /\ queued = {} /\ asked = {}
    /\ session = "working" /\ agent = NoCall /\ next = "open"
    /\ call = [h \in Calls |-> NoRequest] /\ human = [u \in Humans |-> NoRequest]
    /\ batches = 0 /\ kills = 0 /\ crashes = 0
    /\ stored = {} /\ heard = {} /\ lost = {} /\ approvals = {} /\ told = {}

Ended(s) == s \in {"approved", "ended"}

\* active_plan_artifact: the newest plan that has not ended, else the newest.
Newest(S) ==
    LET places == {i \in DOMAIN order : order[i] \in S}
    IN  {order[i] : i \in {j \in places : \A k \in places : k <= j}}

Registered == {p \in Plans : round[p] > 0}

ActivePlan ==
    LET going == {p \in Registered : ~ Ended(status[p])}
    IN  Newest(IF going # {} THEN going ELSE Registered)

\* A slip for Due: only feedback for the current round is due.
DueNow(p) == {b \in queued : b.plan = p /\ b.round = round[p]}

\* The queued batches of a plan's lowest round.
Due(p) == {b \in queued : b.plan = p /\ \A c \in queued : c.plan = p => b.round <= c.round}

Answer(p, items, then, approved) ==
    [pc |-> "reply", plan |-> p, items |-> items, next |-> then, approved |-> approved]

\* What a poll answers with a batch, once the session is set to working.
Delivery(h, items) ==
    [Answer(call[h].plan, items, IF Ended(call[h].seen) THEN "stop" ELSE "open",
            call[h].seen = "approved") EXCEPT !.pc = "wake"]

-----------------------------------------------------------------------------
(* Slips, put in place of the definition they are named after.              *)

\* The mark forgets the round: it marks more than was read.
MarksEveryRound(h) ==
    /\ call[h].pc = "take" /\ Due(call[h].plan) # {}
    /\ queued' = {b \in queued : b.plan # call[h].plan}
    /\ call' = [call EXCEPT ![h] = Delivery(h, {b.id : b \in Due(call[h].plan)})]
    /\ UNCHANGED <<planVars, stored, session, agentVars, human, approvals, countVars>>

\* An ended review counts as an approved one.
EndedIsApproved(h) ==
    /\ call[h].pc = "take" /\ Due(call[h].plan) = {} /\ Ended(call[h].seen)
    /\ call' = [call EXCEPT ![h] = [Delivery(h, {}) EXCEPT !.approved = TRUE]]
    /\ UNCHANGED <<planVars, noteVars, session, agentVars, human, approvals, countVars>>

-----------------------------------------------------------------------------
(* artifact.register, `dflow plan open`.                                    *)

\* The handler looks the path up ...
Open(h, p) ==
    /\ agent = NoCall /\ next = "open" /\ call[h].pc = "idle"
    /\ round[p] < MaxRounds
    /\ agent' = h
    /\ call' = [call EXCEPT ![h] = [pc |-> "write", plan |-> p, seen |-> round[p]]]
    /\ UNCHANGED <<planVars, noteVars, session, next, heard, lost, told, human, approvals, countVars>>

\* ... and writes what it found plus one, back to open; a first registration
\* inserts, which the unique key refuses if another one came first.
OpenWrites(h) ==
    LET p == call[h].plan IN
    /\ call[h].pc = "write"
    /\ IF call[h].seen = 0 /\ round[p] > 0
       THEN /\ call' = [call EXCEPT ![h] = Answer(p, {}, "open", FALSE)]
            /\ UNCHANGED <<round, status, order>>
       ELSE /\ round' = [round EXCEPT ![p] = call[h].seen + 1]
            /\ status' = [status EXCEPT ![p] = "open"]
            /\ order' = IF call[h].seen = 0 THEN Append(order, p) ELSE order
            /\ call' = [call EXCEPT ![h].pc = "ask"]
    /\ UNCHANGED <<asked, noteVars, session, agentVars, human, approvals, countVars>>

\* The human is asked to review the round.
OpenAsks(h) ==
    /\ call[h].pc = "ask"
    /\ asked' = asked \union {call[h].plan}
    /\ call' = [call EXCEPT ![h] = Answer(call[h].plan, {}, "poll", FALSE)]
    /\ UNCHANGED <<round, status, order, noteVars, session, agentVars, human, approvals, countVars>>

-----------------------------------------------------------------------------
(* artifact.feedback.poll, `dflow plan poll`.                               *)

Poll(h) ==
    /\ agent = NoCall /\ next = "poll" /\ call[h].pc = "idle"
    /\ agent' = h
    /\ \E p \in ActivePlan : call' = [call EXCEPT ![h] = [pc |-> "park", plan |-> p]]
    /\ UNCHANGED <<planVars, noteVars, session, next, heard, lost, told, human, approvals, countVars>>

PollParks(h) ==
    /\ call[h].pc = "park"
    /\ session' = "awaiting_feedback"
    /\ call' = [call EXCEPT ![h] = [pc |-> "read", plan |-> call[h].plan]]
    /\ UNCHANGED <<planVars, noteVars, agentVars, human, approvals, countVars>>

\* The loop reads the artifact's row first ...
PollReads(h) ==
    /\ call[h].pc = "read"
    /\ call' = [call EXCEPT ![h] =
          [pc |-> "take", plan |-> call[h].plan, seen |-> status[call[h].plan]]]
    /\ UNCHANGED <<planVars, noteVars, session, agentVars, human, approvals, countVars>>

\* ... and then takes the lowest queued round, marking it sent.
PollTakes(h) ==
    /\ call[h].pc = "take" /\ Due(call[h].plan) # {}
    /\ queued' = queued \ Due(call[h].plan)
    /\ call' = [call EXCEPT ![h] = Delivery(h, {b.id : b \in Due(call[h].plan)})]
    /\ UNCHANGED <<planVars, stored, session, agentVars, human, approvals, countVars>>

PollEnds(h) ==
    /\ call[h].pc = "take" /\ Due(call[h].plan) = {} /\ Ended(call[h].seen)
    /\ call' = [call EXCEPT ![h] = Delivery(h, {})]
    /\ UNCHANGED <<planVars, noteVars, session, agentVars, human, approvals, countVars>>

\* An answer with a batch or an end: the session is working again.
PollWakes(h) ==
    /\ call[h].pc = "wake"
    /\ session' = "working"
    /\ call' = [call EXCEPT ![h].pc = "reply"]
    /\ UNCHANGED <<planVars, noteVars, agentVars, human, approvals, countVars>>

\* Nothing yet: wait for a wakeup or a tick, or answer `pending` at the deadline.
PollWaits(h) ==
    /\ call[h].pc = "take" /\ Due(call[h].plan) = {} /\ ~ Ended(call[h].seen)
    /\ \/ call' = [call EXCEPT ![h] = [pc |-> "read", plan |-> call[h].plan]]
       \/ call' = [call EXCEPT ![h] = Answer(call[h].plan, {}, "poll", FALSE)]
    /\ UNCHANGED <<planVars, noteVars, session, agentVars, human, approvals, countVars>>

\* The answer goes out: to the agent, or to a connection nobody reads.
Reply(h) ==
    /\ call[h].pc = "reply"
    /\ call' = [call EXCEPT ![h] = NoRequest]
    /\ IF agent = h
       THEN /\ agent' = NoCall
            /\ next' = call[h].next
            /\ heard' = heard \union call[h].items
            /\ told' = IF call[h].approved THEN told \union {call[h].plan} ELSE told
            /\ UNCHANGED lost
       ELSE /\ lost' = lost \union call[h].items
            /\ UNCHANGED <<agent, next, heard, told>>
    /\ UNCHANGED <<planVars, noteVars, session, human, approvals, countVars>>

Handler(h) ==
    \/ OpenWrites(h) \/ OpenAsks(h)
    \/ PollParks(h) \/ PollReads(h) \/ PollTakes(h) \/ PollEnds(h) \/ PollWakes(h) \/ PollWaits(h)
    \/ Reply(h)

\* The agent's harness kills the CLI; the handler knows nothing of it, and the
\* agent runs the same command again.
Killed ==
    /\ agent # NoCall /\ kills < MaxKills
    /\ kills' = kills + 1
    /\ agent' = NoCall
    /\ UNCHANGED <<planVars, noteVars, session, call, next, heard, lost, told, human, approvals, batches, crashes>>

-----------------------------------------------------------------------------
(* artifact.feedback.submit.                                                *)

\* A batch for the round the client shows; an approval is for the row's round.
Submit(u, p, act, r) ==
    /\ human[u].pc = "idle" /\ batches < MaxBatches
    /\ r \in 1 .. round[p] /\ (act = "approve_plan" => r = round[p])
    /\ batches' = batches + 1
    /\ human' = [human EXCEPT ![u] =
          [pc |-> "queue", plan |-> p, round |-> r, act |-> act, id |-> batches + 1]]
    /\ UNCHANGED <<planVars, noteVars, session, call, agentVars, approvals, kills, crashes>>

SubmitQueues(u) ==
    /\ human[u].pc = "queue"
    /\ queued' = queued \union
          {[id |-> human[u].id, plan |-> human[u].plan, round |-> human[u].round]}
    /\ stored' = stored \union {human[u].id}
    /\ human' = [human EXCEPT ![u].pc = "resolve"]
    /\ UNCHANGED <<planVars, session, call, agentVars, approvals, countVars>>

SubmitResolves(u) ==
    /\ human[u].pc = "resolve"
    /\ asked' = asked \ {human[u].plan}
    /\ human' = [human EXCEPT ![u] = IF @.act = "notes" THEN NoRequest ELSE [@ EXCEPT !.pc = "conclude"]]
    /\ UNCHANGED <<round, status, order, noteVars, session, call, agentVars, approvals, countVars>>

SubmitConcludes(u) ==
    LET p == human[u].plan IN
    /\ human[u].pc = "conclude"
    /\ IF human[u].act = "approve_plan"
       THEN status' = [status EXCEPT ![p] = "approved"] /\ approvals' = approvals \union {p}
       ELSE status' = [status EXCEPT ![p] = "ended"] /\ UNCHANGED approvals
    /\ human' = [human EXCEPT ![u] = NoRequest]
    /\ UNCHANGED <<round, order, asked, noteVars, session, call, agentVars, countVars>>

Submission(u) == SubmitQueues(u) \/ SubmitResolves(u) \/ SubmitConcludes(u)

\* The batches a handler took and has not answered with yet.
InReply(h) == IF call[h].pc \in {"wake", "reply"} THEN call[h].items ELSE {}

\* The daemon dies: requests under way are gone, rows and annotations stay.  The
\* agent is resumed in a session of its own and goes on where it was.
ReviewCrash ==
    /\ crashes < MaxCrashes
    /\ crashes' = crashes + 1
    /\ lost' = lost \union (UNION {InReply(h) : h \in Calls})
    /\ call' = [h \in Calls |-> NoRequest] /\ human' = [u \in Humans |-> NoRequest]
    /\ agent' = NoCall /\ session' = "working"
    /\ UNCHANGED <<planVars, noteVars, next, heard, told, approvals, batches, kills>>

-----------------------------------------------------------------------------
AgentStep(h) == Poll(h) \/ \E p \in Plans : Open(h, p)

ReviewNext ==
    \/ Killed \/ ReviewCrash
    \/ \E h \in Calls : AgentStep(h) \/ Handler(h)
    \/ \E u \in Humans :
         \/ Submission(u)
         \/ \E p \in Plans, act \in Acts, r \in 1 .. MaxRounds : Submit(u, p, act, r)

ReviewSpec == ReviewInit /\ [][ReviewNext]_reviewVars

\* The runtime runs every handler, and the agent does what `next:` tells it.
ReviewFairness ==
    /\ \A h \in Calls : WF_reviewVars(Handler(h))
    /\ \A u \in Humans : WF_reviewVars(Submission(u))
    /\ WF_reviewVars(\E h \in Calls : AgentStep(h))

ReviewFairSpec == ReviewSpec /\ ReviewFairness

-----------------------------------------------------------------------------
(* Properties.                                                              *)

Waiting    == {b.id : b \in queued}
Answered   == heard \union lost \union (UNION {InReply(h) : h \in Calls})

\* take_queued_batch: "a batch is delivered exactly once".  A batch that was
\* taken is not queued any more, and no two polls, orphaned ones included, carry
\* the same batch.
DeliveredOnce ==
    /\ Waiting \intersect Answered = {}
    /\ \A h \in Calls :
         /\ InReply(h) \intersect (heard \union lost) = {}
         /\ \A g \in Calls \ {h} : InReply(g) \intersect InReply(h) = {}

\* "Feedback is never lost", as far as the store is concerned: a batch that was
\* stored is queued or in somebody's answer.
NothingVanishes == stored \subseteq Waiting \union Answered

\* Both: as far as the store is concerned, a batch is taken by one poll, and
\* queued until then.
FeedbackKept == DeliveredOnce /\ NothingVanishes

\* The agent goes on to implement only a plan that a human approved, whatever
\* order polls, reopenings and submissions take.
NeverUnapproved == told \subseteq approvals

\* "Feedback is never lost: queued items persist across GUI reloads and poll
\* interruptions."
FeedbackNeverLost == lost = {}

\* While the agent is held in a poll its session is parked in awaiting_feedback,
\* which keeps the stuck detection away from a review that lasts for hours.
ParkedIsAwaiting ==
    agent # NoCall /\ call[agent].pc \in {"read", "take"} => session = "awaiting_feedback"

\* Feedback stored before the agent was told to stop reaches it.
FeedbackHeard == \A b \in Batches : b \in Waiting ~> b \in heard \/ next = "stop"
=============================================================================
