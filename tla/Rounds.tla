-------------------------------- MODULE Rounds --------------------------------
(***************************************************************************)
(* Concertmaster rounds of one project: the scheduler that dispatches a    *)
(* round of each type when its interval has passed (server.rs), the same   *)
(* path taken by a user's round.start beside it, and the card a type's     *)
(* rounds share (api.rs).                                                  *)
(*                                                                         *)
(* Time is counted in minutes and forgotten beyond the interval.  What the *)
(* scheduler knows of it is a bookmark in the settings, by the wall clock. *)
(***************************************************************************)
EXTENDS Integers, Sequences, FiniteSets

CONSTANTS
    RoundTypes,  \* ROUND_TYPES, in the order the scheduler takes them
    Interval,    \* interval_minutes of every schedule
    SetBack,     \* by how much the wall clock is set back
    MaxTroubles  \* bound: crashes, clock changes and failures of the store, together

Types == {RoundTypes[i] : i \in DOMAIN RoundTypes}

ASSUME RoundsAssumption ==
    /\ Interval \in Nat \ {0} /\ {SetBack, MaxTroubles} \subseteq Nat

Starters == {"scheduler", "user"}
NotStarting     == [step |-> "idle", type |-> "none", found |-> FALSE]

VARIABLES
    enabled,   \* the types whose schedule is enabled
    bookmark,  \* minutes from each type's bookmark to now, Interval at most
    since,     \* minutes since the scheduler's last attempt, Interval at most
    doubtful,  \* types whose bookmark a clock change or a failed store made wrong
    up,        \* the daemon runs
    todo,      \* the scheduler's tick: places in RoundTypes it has still to look at
    start,     \* where each starter is in start_round
    cards,     \* round cards of each type: at most one, by the unique index
    running,   \* types that have a session
    troubles

schedVars  == << enabled, bookmark, since, doubtful, todo >>
roundVars  == << enabled, bookmark, since, doubtful, up, todo, start, cards, running, troubles >>

RoundsInit ==
    /\ enabled \in SUBSET Types
    /\ bookmark = [t \in Types |-> Interval] /\ since = [t \in Types |-> Interval] /\ doubtful = {}
    /\ up = TRUE /\ todo = {} /\ start = [s \in Starters |-> NotStarting]
    /\ cards = [t \in Types |-> 0] /\ running = {} /\ troubles = 0

AtMost(n, top) == IF n > top THEN top ELSE n

-----------------------------------------------------------------------------
(* Time, and the user's settings.                                          *)

Minute ==
    /\ bookmark' = [t \in Types |-> AtMost(bookmark[t] + 1, Interval)]
    /\ since' = [t \in Types |-> AtMost(since[t] + 1, Interval)]
    /\ UNCHANGED << enabled, doubtful, up, todo, start, cards, running, troubles >>

\* The wall clock is set back, or forward.
SetClock ==
    /\ troubles < MaxTroubles /\ troubles' = troubles + 1
    /\ \/ bookmark' = [t \in Types |-> bookmark[t] - SetBack]
       \/ bookmark' = [t \in Types |-> Interval]
    /\ doubtful' = Types
    /\ UNCHANGED << enabled, since, up, todo, start, cards, running >>

\* project.update with rounds_schedule or gardener_schedule.
SetSchedule(t) ==
    /\ enabled' = IF t \in enabled THEN enabled \ {t} ELSE enabled \cup {t}
    /\ UNCHANGED << bookmark, since, doubtful, up, todo, start, cards, running, troubles >>

-----------------------------------------------------------------------------
(* start_round, of either starter.                                         *)

StarterAt(s, step) == up /\ start[s].step = step
Step(s, step) == start' = [start EXCEPT ![s].step = step]
Finished(s) == start' = [start EXCEPT ![s] = NotStarting]

Begin(s, t) == start' = [start EXCEPT ![s] = [step |-> "find", type |-> t, found |-> FALSE]]

\* upsert_origin_card: the lookup, and then a create or a refresh.
FindCard(s) ==
    /\ StarterAt(s, "find")
    /\ start' = [start EXCEPT ![s].step = "card", ![s].found = cards[start[s].type] > 0]
    /\ UNCHANGED << schedVars, up, cards, running, troubles >>

\* The unique index refuses a second card: this start fails.
WriteCard(s) ==
    /\ StarterAt(s, "card")
    /\ LET t == start[s].type
       IN  IF start[s].found THEN Step(s, "spawn") /\ UNCHANGED cards
           ELSE IF cards[t] > 0 THEN Finished(s) /\ UNCHANGED cards
           ELSE cards' = [cards EXCEPT ![t] = 1] /\ Step(s, "spawn")
    /\ UNCHANGED << schedVars, up, running, troubles >>

\* The launcher is found, the token minted, the session created and bound.
Spawn(s) ==
    /\ StarterAt(s, "spawn")
    /\ running' = running \cup {start[s].type}
    /\ Finished(s)
    /\ UNCHANGED << schedVars, up, cards, troubles >>

\* An unknown project, a launcher or a harness that is not there.
StartFails(s) ==
    /\ StarterAt(s, "find") \/ StarterAt(s, "spawn")
    /\ Finished(s)
    /\ UNCHANGED << schedVars, up, cards, running, troubles >>

\* round.start.
UserStarts(t) ==
    /\ StarterAt("user", "idle")
    /\ Begin("user", t)
    /\ UNCHANGED << schedVars, up, cards, running, troubles >>

-----------------------------------------------------------------------------
(* The scheduler.                                                          *)

\* A tick reads every project's schedules; when it cannot it waits for the next.
BeginTick ==
    /\ StarterAt("scheduler", "idle") /\ todo = {} /\ enabled # {}
    /\ todo' = {i \in DOMAIN RoundTypes : RoundTypes[i] \in enabled}
    /\ UNCHANGED << enabled, bookmark, since, doubtful, up, start, cards, running, troubles >>

\* The scheduler looks at one type after the other.
LooksAt(i) ==
    /\ StarterAt("scheduler", "idle")
    /\ i \in todo /\ \A j \in todo : i <= j
    /\ todo' = todo \ {i}

\* A slip: the run is bookmarked when it has been dispatched.
ConsiderBookmarkLate(i) ==
    /\ LooksAt(i)
    /\ LET t == RoundTypes[i]
       IN  IF bookmark[t] < Interval THEN UNCHANGED << bookmark, since, start >>
           ELSE /\ since' = [since EXCEPT ![t] = 0]
                /\ bookmark' = IF t \in running THEN [bookmark EXCEPT ![t] = 0] ELSE bookmark
                /\ Begin("scheduler", t)
    /\ UNCHANGED << enabled, doubtful, up, cards, running, troubles >>

\* maybe_run_scheduled_round: a due round is bookmarked, then started.
Consider(i) ==
    /\ LooksAt(i)
    /\ LET t == RoundTypes[i]
       IN  IF bookmark[t] < Interval THEN UNCHANGED << bookmark, since, doubtful, start >>
           ELSE /\ bookmark' = [bookmark EXCEPT ![t] = 0]
                /\ since' = [since EXCEPT ![t] = 0]
                /\ doubtful' = doubtful \ {t}
                /\ Begin("scheduler", t)
    /\ UNCHANGED << enabled, up, cards, running, troubles >>

\* The bookmark cannot be read, and counts as never: or it cannot be written.
ConsiderFailing(i) ==
    /\ LooksAt(i) /\ troubles < MaxTroubles
    /\ troubles' = troubles + 1
    /\ LET t == RoundTypes[i]
       IN  /\ since' = [since EXCEPT ![t] = 0]
           /\ \/ bookmark' = [bookmark EXCEPT ![t] = 0] /\ doubtful' = doubtful \cup {t}
              \/ bookmark[t] = Interval /\ UNCHANGED bookmark /\ doubtful' = doubtful \cup {t}
           /\ Begin("scheduler", t)
    /\ UNCHANGED << enabled, up, cards, running >>

-----------------------------------------------------------------------------
(* A round ends; the daemon.                                               *)

RoundEnds(t) ==
    /\ t \in running /\ running' = running \ {t}
    /\ UNCHANGED << schedVars, up, start, cards, troubles >>

\* Sessions die with the daemon; bookmarks, cards do not.
RoundsCrash ==
    /\ up /\ troubles < MaxTroubles
    /\ up' = FALSE /\ troubles' = troubles + 1
    /\ todo' = {} /\ start' = [s \in Starters |-> NotStarting] /\ running' = {}
    /\ UNCHANGED << enabled, bookmark, since, doubtful, cards >>

Restart ==
    /\ ~up /\ up' = TRUE
    /\ UNCHANGED << schedVars, start, cards, running, troubles >>

Starting(s) == FindCard(s) \/ WriteCard(s) \/ Spawn(s) \/ StartFails(s)
Scheduling  == BeginTick \/ \E i \in todo : Consider(i)

RoundsNext ==
    \/ Minute \/ SetClock \/ Scheduling \/ RoundsCrash \/ Restart
    \/ \E i \in todo : ConsiderFailing(i)
    \/ \E t \in Types :
         SetSchedule(t) \/ UserStarts(t) \/ RoundEnds(t)
    \/ \E s \in Starters : Starting(s)

\* Time passes, the scheduler's task runs, and a daemon that crashed is started.
RoundsFairness ==
    /\ WF_roundVars(Minute) /\ WF_roundVars(Scheduling)
    /\ WF_roundVars(Starting("scheduler")) /\ WF_roundVars(Restart)

RoundsSpec == RoundsInit /\ [][RoundsNext]_roundVars /\ RoundsFairness

-----------------------------------------------------------------------------
(* Properties.                                                             *)

\* The types of the variables, and the index: a type has one round card.
RoundsTypeOK ==
    /\ enabled \subseteq Types /\ doubtful \subseteq Types
    /\ bookmark \in [Types -> (0 - MaxTroubles * SetBack) .. Interval] /\ since \in [Types -> 0 .. Interval]
    /\ up \in BOOLEAN /\ todo \subseteq DOMAIN RoundTypes
    /\ \A s \in Starters : start[s].step \in {"idle", "find", "card", "spawn"}
    /\ cards \in [Types -> 0 .. 1] /\ running \subseteq Types

\* "the interval is respected": the scheduler's attempts at a type are an
\* interval apart, those that failed and those of earlier lives of the daemon
\* counted, as long as the bookmark could be read and written and nobody set the
\* clock.
AttemptsApart ==
    [][start["scheduler"].step = "idle" /\ start'["scheduler"].step = "find" =>
          LET t == start'["scheduler"].type
          IN  since[t] = Interval \/ t \in doubtful \/ troubles' # troubles]_roundVars

\* "Bookmark first so a slow/failed dispatch cannot cause a tight re-dispatch
\* loop" - nor does anything stop the schedule: a round that is overdue is tried,
\* or its schedule is turned off, whatever failed, ran, crashed or set the clock.
ScheduleKeepsGoing ==
    \A t \in Types : t \in enabled /\ since[t] = Interval ~> since[t] = 0 \/ t \notin enabled
================================================================================
