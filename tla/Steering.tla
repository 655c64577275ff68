------------------------------- MODULE Steering -------------------------------
(***************************************************************************)
(* Text typed into an agent's terminal by the daemon: verified submit      *)
(* (steer.rs) as the first prompt of a session, as session.send_verified   *)
(* of a client, and as a Concertmaster's steer; and the watcher that       *)
(* answers a trust dialog.  They run in threads of their own and write to  *)
(* one PTY.                                                                *)
(*                                                                         *)
(* The terminal program is the repository's stub of an agent's composer    *)
(* (dflow-stubtui) with its hazards, and a dialog that may open.  A sender *)
(* waits for a redraw before it reads the screen: only the slow program,   *)
(* after an Enter, may not have drawn by then.                             *)
(***************************************************************************)
EXTENDS Integers, Sequences, FiniteSets

CONSTANTS
    Prompts,       \* first prompts: deliver_typed_brief on a thread of its own
    Steers,        \* session.send_verified of a Concertmaster
    Slashed,       \* texts that open a completion popup
    TuiModes,      \* what DFLOW_STUB_MODE may be
    MaxAttempts,   \* SubmitConfig.max_attempts
    MaxDialogs     \* bound: dialogs opened

Submits == Prompts \cup Steers
Watcher == "watcher"
FreshTui   == [composer |-> << >>, dialog |-> "none", busy |-> FALSE]

ASSUME SteeringAssumption ==
    /\ Prompts \cap Steers = {} /\ Slashed \subseteq Submits /\ Watcher \notin Submits
    /\ IsFiniteSet(Submits) /\ TuiModes \subseteq {"normal", "popup", "placeholder", "slow", "never"}
    /\ MaxAttempts \in Nat \ {0} /\ MaxDialogs \in Nat

VARIABLES
    mode,        \* DFLOW_STUB_MODE
    tuiAlive,
    input,       \* what was written to the PTY and not read
    tui,         \* the program: its composer (the texts in it), dialog, and whether it works
    swallowed,   \* popup_dismissed, placeholder_expanded
    taken,       \* texts the program took as prompts
    screen,      \* what it has drawn
    dialogs,
    at,          \* where each submit is
    seen,        \* wait_for_composer_ready: idle polls in a row
    pressed,     \* attempts
    said,        \* what each submit returned: "nothing", "submitted", "failed", "refused"
    raised,      \* first prompts whose failure is in Needs You
    watching,    \* the trust watcher: "looking", "answering", "done"
    crossed,     \* submits that a dialog met which they could not see when they looked
    answered     \* dialogs answered by a key: who pressed it, which dialog; and "none"
                 \* of the watcher, when its Enter found the composer instead

steerVars == << mode, tuiAlive, input, tui, swallowed, taken, screen, dialogs, at, seen, pressed,
                said, raised, watching, crossed, answered >>
tuiVars   == << mode, tuiAlive, swallowed, taken, screen, dialogs, answered >>

SteerInit ==
    /\ mode \in TuiModes /\ tuiAlive = TRUE
    /\ input = << >> /\ tui = FreshTui /\ swallowed = FALSE /\ taken = {}
    /\ screen = FreshTui /\ dialogs = 0
    /\ at = [s \in Submits |-> "idle"] /\ seen = [s \in Submits |-> 0]
    /\ pressed = [s \in Submits |-> 0] /\ said = [s \in Submits |-> "nothing"]
    /\ raised = {} /\ watching = "looking"
    /\ crossed = {} /\ answered = {}

-----------------------------------------------------------------------------
(* The terminal program.                                                   *)

InComposer(t) == \E i \in DOMAIN tui.composer : tui.composer[i] = t

Text(t)  == [key |-> "text", by |-> t]
Enter(s) == [key |-> "enter", by |-> s]

\* handle_enter: the hazards of the program's mode.
Swallows ==
    \/ mode = "never"
    \/ mode = "popup" /\ Head(tui.composer) \in Slashed /\ ~swallowed
    \/ mode = "placeholder" /\ ~swallowed

\* The program reads a key.  A dialog takes an Enter as its answer and leaves
\* text alone; an Enter on an empty composer is ignored.
ReadKey ==
    /\ tuiAlive /\ input # << >>
    /\ input' = Tail(input)
    /\ LET k == Head(input)
       IN  CASE k.key = "text" /\ tui.dialog = "none" ->
                  /\ tui' = [tui EXCEPT !.composer = Append(@, k.by)]
                  /\ UNCHANGED << swallowed, taken, answered >>
             [] k.key = "enter" /\ tui.dialog # "none" ->
                  /\ tui' = [tui EXCEPT !.dialog = "none"]
                  /\ answered' = answered \cup {<< k.by, tui.dialog >>}
                  /\ UNCHANGED << swallowed, taken >>
             [] k.key = "enter" /\ tui.dialog = "none" /\ tui.composer # << >> /\ Swallows ->
                  /\ swallowed' = TRUE
                  /\ UNCHANGED << tui, taken, answered >>
             [] k.key = "enter" /\ tui.dialog = "none" /\ tui.composer # << >> /\ ~Swallows ->
                  /\ taken' = taken \cup {t \in Submits : InComposer(t)}
                  /\ tui' = [tui EXCEPT !.composer = << >>, !.busy = TRUE]
                  /\ swallowed' = FALSE
                  /\ answered' = IF k.by = Watcher THEN answered \cup {<< Watcher, "none" >>} ELSE answered
             [] OTHER -> UNCHANGED << tui, swallowed, taken, answered >>
    /\ UNCHANGED << mode, tuiAlive, screen, dialogs, at, seen, pressed, said, raised, watching,
                    crossed >>

Render ==
    /\ tuiAlive /\ screen # tui
    /\ screen' = tui
    /\ UNCHANGED << mode, tuiAlive, input, tui, swallowed, taken, dialogs, at, seen, pressed, said,
                    raised, watching, crossed, answered >>

\* Submits that have looked and are not done, or whose keys are not read yet.
Past == {s \in Submits : at[s] \in {"type", "enter", "check"} \/ \E i \in DOMAIN input : input[i].by = s}

\* A trust dialog opens before the first prompt, a permission dialog while the
\* agent works.
OpenDialog ==
    /\ tuiAlive /\ tui.dialog = "none" /\ dialogs < MaxDialogs
    /\ \/ taken = {} /\ dialogs = 0 /\ tui' = [tui EXCEPT !.dialog = "trust"]
       \/ tui.busy /\ tui' = [tui EXCEPT !.dialog = "permission"]
    /\ dialogs' = dialogs + 1
    /\ crossed' = crossed \cup Past
    /\ UNCHANGED << mode, tuiAlive, input, swallowed, taken, screen, at, seen, pressed, said, raised,
                    watching, answered >>

HumanAnswers ==
    /\ tuiAlive /\ tui.dialog # "none"
    /\ tui' = [tui EXCEPT !.dialog = "none"]
    /\ UNCHANGED << tuiVars, input, at, seen, pressed, said, raised, watching, crossed >>

TurnEnds ==
    /\ tuiAlive /\ tui.busy /\ tui.dialog = "none"
    /\ tui' = [tui EXCEPT !.busy = FALSE]
    /\ UNCHANGED << tuiVars, input, at, seen, pressed, said, raised, watching, crossed >>

TuiDies ==
    /\ tuiAlive /\ tuiAlive' = FALSE
    /\ UNCHANGED << mode, input, tui, swallowed, taken, screen, dialogs, at, seen, pressed, said,
                    raised, watching, crossed, answered >>

-----------------------------------------------------------------------------
(* Verified submit.                                                        *)

MoveTo(s, place)   == at' = [at EXCEPT ![s] = place]
Report(s, what)  == said' = [said EXCEPT ![s] = what]

Redrawn ==
    \/ ~tuiAlive \/ (input = << >> /\ screen = tui)
    \/ mode = "slow" /\ \E s \in Submits : pressed[s] > 0

\* spawn_first_prompt_submit.
Deliver(s) ==
    /\ s \in Prompts /\ at[s] = "idle"
    /\ MoveTo(s, "gate")
    /\ UNCHANGED << tuiVars, tui, input, seen, pressed, said, raised, watching, crossed >>

\* session.send_verified, refused for a session that is gone.
Steer(s) ==
    /\ s \in Steers /\ at[s] = "idle"
    /\ IF tuiAlive THEN MoveTo(s, "gate") /\ UNCHANGED said
       ELSE MoveTo(s, "done") /\ Report(s, "refused")
    /\ UNCHANGED << tuiVars, tui, input, seen, pressed, raised, watching, crossed >>

\* A submit that failed is reported; that of a first prompt is raised.
Fail(s) ==
    /\ MoveTo(s, "done") /\ Report(s, "failed")
    /\ raised' = IF s \in Prompts THEN raised \cup {s} ELSE raised

\* A slip: a dialog counts as a composer that is ready.
ReadyAtDialog == ~screen.busy

Ready == ~screen.busy /\ screen.dialog = "none"

\* wait_for_composer_ready: two polls in a row that see it idle, or its end.
PollComposer(s) ==
    /\ at[s] = "gate" /\ Redrawn
    /\ IF ~tuiAlive THEN Fail(s) /\ UNCHANGED seen
       ELSE /\ seen' = [seen EXCEPT ![s] = IF Ready THEN @ + 1 ELSE 0]
            /\ IF Ready /\ seen[s] = 1 THEN MoveTo(s, "type") ELSE UNCHANGED at
            /\ UNCHANGED << said, raised >>
    /\ crossed' = IF tui.dialog # screen.dialog THEN crossed \cup {s} ELSE crossed
    /\ UNCHANGED << tuiVars, tui, input, pressed, watching >>

GateTimesOut(s) ==
    /\ at[s] = "gate" /\ ~(Ready /\ seen[s] = 1)
    /\ Fail(s)
    /\ UNCHANGED << tuiVars, tui, input, seen, pressed, watching, crossed >>

TypeText(s) ==
    /\ at[s] = "type"
    /\ input' = IF tuiAlive THEN Append(input, Text(s)) ELSE input
    /\ MoveTo(s, "enter")
    /\ UNCHANGED << tuiVars, tui, seen, pressed, said, raised, watching, crossed >>

PressEnter(s) ==
    /\ at[s] = "enter" /\ Redrawn
    /\ input' = IF tuiAlive THEN Append(input, Enter(s)) ELSE input
    /\ pressed' = [pressed EXCEPT ![s] = @ + 1]
    /\ MoveTo(s, "check")
    /\ UNCHANGED << tuiVars, tui, seen, said, raised, watching, crossed >>

\* A slip: any redraw counts as a submit.
PendingNever(s) == FALSE

\* current_composer and is_submitted: the text stands in the composer's row; a
\* dialog has the cursor elsewhere.
Pending(s) ==
    screen.dialog = "none" /\ \E i \in DOMAIN screen.composer : screen.composer[i] = s

\* A slip: one Enter more than the attempts.
CheckOffByOne(s) ==
    /\ at[s] = "check" /\ Redrawn
    /\ IF ~Pending(s)
       THEN MoveTo(s, "done") /\ Report(s, "submitted") /\ UNCHANGED raised
       ELSE IF pressed[s] > MaxAttempts THEN Fail(s)
       ELSE MoveTo(s, "enter") /\ UNCHANGED << said, raised >>
    /\ UNCHANGED << tuiVars, tui, input, seen, pressed, watching, crossed >>

Check(s) ==
    /\ at[s] = "check" /\ Redrawn
    /\ IF ~Pending(s)
       THEN MoveTo(s, "done") /\ Report(s, "submitted") /\ UNCHANGED raised
       ELSE IF pressed[s] >= MaxAttempts THEN Fail(s)
       ELSE MoveTo(s, "enter") /\ UNCHANGED << said, raised >>
    /\ UNCHANGED << tuiVars, tui, input, seen, pressed, watching, crossed >>

\* spawn_trust_watcher: answers the first trust dialog it sees, once.
Watch ==
    /\ watching = "looking"
    /\ watching' = IF ~tuiAlive THEN "done" ELSE IF screen.dialog = "trust" THEN "answering" ELSE "looking"
    /\ watching' # watching
    /\ UNCHANGED << tuiVars, tui, input, at, seen, pressed, said, raised, crossed >>

WatcherAnswers ==
    /\ watching = "answering"
    /\ watching' = "done"
    /\ input' = IF tuiAlive THEN Append(input, Enter(Watcher)) ELSE input
    /\ UNCHANGED << tuiVars, tui, at, seen, pressed, said, raised, crossed >>

WatchEnds ==
    /\ watching = "looking" /\ watching' = "done"
    /\ UNCHANGED << tuiVars, tui, input, at, seen, pressed, said, raised, crossed >>

Program == ReadKey \/ Render

Submitting(s) == PollComposer(s) \/ TypeText(s) \/ PressEnter(s) \/ Check(s)

SteerNext ==
    \/ Program \/ OpenDialog \/ HumanAnswers \/ TurnEnds \/ TuiDies
    \/ \E s \in Submits : Deliver(s) \/ Steer(s) \/ Submitting(s) \/ GateTimesOut(s)
    \/ Watch \/ WatcherAnswers \/ WatchEnds

\* The program reads its keys and draws, and a submit's thread runs: its wait
\* for a ready composer ends with a deadline.
SteerFairness ==
    /\ WF_steerVars(ReadKey) /\ WF_steerVars(Render)
    /\ \A s \in Submits : WF_steerVars(Submitting(s)) /\ WF_steerVars(GateTimesOut(s))

SteerSpec == SteerInit /\ [][SteerNext]_steerVars /\ SteerFairness

-----------------------------------------------------------------------------
(* Properties.                                                             *)

\* The types of the variables.
SteerTypeOK ==
    /\ mode \in TuiModes /\ tuiAlive \in BOOLEAN /\ swallowed \in BOOLEAN
    /\ \A i \in DOMAIN input : input[i].key \in {"text", "enter"} /\ input[i].by \in Submits \cup {Watcher}
    /\ {tui.dialog, screen.dialog} \subseteq {"none", "trust", "permission"}
    /\ {tui.busy, screen.busy} \subseteq BOOLEAN
    /\ Len(tui.composer) <= Cardinality(Submits) /\ taken \subseteq Submits
    /\ dialogs \in 0 .. MaxDialogs
    /\ at \in [Submits -> {"idle", "gate", "type", "enter", "check", "done"}]
    /\ seen \in [Submits -> 0 .. 2] /\ pressed \in [Submits -> 0 .. MaxAttempts]
    /\ said \in [Submits -> {"nothing", "submitted", "failed", "refused"}]
    /\ raised \subseteq Prompts /\ watching \in {"looking", "answering", "done"}
    /\ crossed \subseteq Submits

\* "the primitive that makes unattended steering trustworthy": a text reported as
\* submitted becomes a prompt of the agent, whatever the composer swallows,
\* expands or draws late and whoever else types, unless a dialog crossed the
\* submit, or the agent is gone.
SubmittedArrives ==
    \A s \in Submits : said[s] = "submitted" ~> s \in taken \/ s \in crossed \/ ~tuiAlive

\* "A failed submit raises Needs You [...], so the message is never silently
\* dropped": a first prompt is submitted or put before the human.
NeverDropped ==
    \A s \in Prompts : at[s] # "idle" ~> said[s] = "submitted" \/ s \in raised

\* A submit alone at a terminal that draws in time never presses an Enter more
\* than its text needs: none of its retries answers what the agent asks.  It is
\* not alone where the trust watcher comes late: the Enter meant for a dialog
\* that is gone submits the text, and the submit's own comes after it.
RetriesAreSafe ==
    \A s \in Submits :
        << s, "permission" >> \in answered =>
            \/ mode = "slow" \/ << Watcher, "none" >> \in answered
            \/ \E u \in Submits \ {s} : at[u] # "idle" /\ said[u] # "refused"

\* Verified submit does not type into a dialog that stood there when it looked.
LooksBeforeTyping ==
    \A s \in Submits : {<< s, "trust" >>, << s, "permission" >>} \cap answered # {} => s \in crossed
================================================================================
