------------------------------ MODULE MC_Desktop ------------------------------
(* Clients in conversation with the daemon, one part at a time: a client that *)
(* follows the events, the desktop's board, a terminal of the desktop, the    *)
(* phone's queue.  The parts share no state, so each is explored while the    *)
(* others rest in their initial states.                                       *)
EXTENDS EventStream, BoardView, Terminal, PhoneQueue, TLC

CONSTANTS
    w1, w2, c1,
    MaxTogether   \* bound: what happens in one run: changes, moves and upsets of the
                  \* board; panes opened, keys typed and troubles of the terminal

VARIABLE part   \* the part that runs

parts == << vars, boardVars, termVars, phoneVars >>

MCInit ==
    /\ part \in {"events", "board", "terminal", "phone"}
    /\ Init /\ BoardInit /\ TermInit /\ PhoneInit
    /\ part # "phone" => openItems = {}

EventsPart ==
    /\ part = "events" /\ Next
    /\ UNCHANGED << part, boardVars, termVars, phoneVars >>

BoardPart ==
    /\ part = "board" /\ BoardNext
    /\ changes' + moves' + upsets' <= MaxTogether
    /\ UNCHANGED << part, vars, termVars, phoneVars >>

TerminalPart ==
    /\ part = "terminal" /\ TermNext
    /\ opened' + typed' + losses' + reattached' <= MaxTogether
    /\ UNCHANGED << part, vars, boardVars, phoneVars >>

PhonePart ==
    /\ part = "phone" /\ PhoneNext
    /\ UNCHANGED << part, vars, boardVars, termVars >>

MCNext == EventsPart \/ BoardPart \/ TerminalPart \/ PhonePart

MCSpec == MCInit /\ [][MCNext]_<< part, parts >>

\* With nothing under way, what the board, the queue and the phone show is what
\* the daemon has.
ViewsAgree == LanesAgree /\ QueueAgrees /\ QueueOfThisConnection

\* Each view comes to what the daemon has, under the fairness of its part: the
\* event stream to the events of its range, the board after a lost connection
\* and after a drag, a pane that waits for its attach or shows it, and the phone.
ViewsCatchUp ==
    /\ part = "events" /\ Fairness => CatchesUp
    /\ part = "board" /\ BoardFairness => Reloads /\ MovesSettle
    /\ part = "terminal" /\ TermFairness => AttachSettles /\ PaneCatchesUp
    /\ part = "phone" /\ PhoneFairness => PhoneCatchesUp

\* The types of the parts' variables.
DesktopTypesOK == TypeOK /\ BoardTypeOK /\ TermTypeOK /\ PhoneTypeOK
================================================================================
