--------------------------- MODULE SessionLifecycle ---------------------------
(***************************************************************************)
(* The life of an agent session in the DapperFlow daemon: the PTY child,   *)
(* the threads that watch it, the row that outlives the daemon, and every  *)
(* actor that writes that row.                                             *)
(*                                                                         *)
(* Source: crates/dflow-core/src/session.rs (spawn, reader, child watcher, *)
(* kill, shutdown), store/sessions.rs (the row), dflowd/src/server.rs      *)
(* (startup reconciliation, supervision loop, shutdown), dflowd/src/api.rs *)
(* and hooks.rs (agent reports and hook posts).                            *)
(*                                                                         *)
(* Four actors may end a session: the PTY reader at end of file, the       *)
(* direct-child watcher, a user kill, and the shutdown drain.  They race   *)
(* on one flag, finalized.  Independently of them the agent, its hooks and *)
(* the supervisor write the same row, each reading it in one step and      *)
(* writing it in a later one.                                              *)
(***************************************************************************)
EXTENDS Naturals

CONSTANTS
    Sessions,     \* session ids; a ULID is never used twice
    NoSession,    \* the supervisor holds no session
    MaxLives,     \* bound: how often the daemon may be started
    MaxSignals,   \* bound: agent requests and hook posts per session
    Faults        \* TRUE: store writes, thread creation and try_wait may fail

ASSUME LivesAssumption   == MaxLives \in Nat
ASSUME SignalsAssumption == MaxSignals \in Nat
ASSUME FaultsAssumption  == Faults \in BOOLEAN
ASSUME NoSessionAssumption == NoSession \notin Sessions

VARIABLES
    phase,      \* the daemon: "down", "serving" or "draining" (shutting down)
    life,       \* how often the daemon has been started
    spawn,      \* how far SessionManager::create got
    born,       \* the daemon life a session was spawned in
    tracked,    \* the session is in the SessionManager's map
    child,      \* the direct child process
    holder,     \* a descendant of the child holds the pseudo-console open
    guarded,    \* the KillGuard really got a job object for the tree
    alive,      \* Inner.alive
    finalized,  \* Session.finalized, the swap that elects who ends the session
    pc,         \* pc[s][a]: where the finalizing actor a is
    token,      \* the per-task token and hook token in their registries
    request,    \* an agent request the daemon has accepted and not yet served
    hook,       \* a hook post between its read of the row and its write
    supTodo,    \* the sessions the supervision loop's tick has still to visit
    supAt,      \* the supervision loop: "off", "row", "mark" or "clear"
    supOn,      \* the session the supervision loop is looking at
    state,      \* sessions.state, "norow" before the insert
    ended,      \* sessions.ended_at is stamped
    carded,     \* sessions.card_id is set
    item,       \* the Needs You item needs_input:{id}
    finals,     \* how many finalizing writes reached the row
    signals     \* counts requests and hook posts against MaxSignals

daemonVars == <<phase, life>>
spawnVars  == <<spawn, born, tracked, guarded>>
treeVars   == <<child, holder, alive>>
exitVars   == <<finalized, pc>>
supVars    == <<supTodo, supAt, supOn>>
signalVars == <<token, request, hook, supVars, signals>>
rowVars    == <<state, ended, carded, item, finals>>
vars == <<daemonVars, spawnVars, treeVars, exitVars, signalVars, rowVars>>

Actors   == {"reader", "watcher", "killer", "drain"}
Terminal == {"done", "interrupted"}
Live     == {"working", "idle", "needs_input", "awaiting_feedback", "blocked"}
Reports  == {"working", "blocked", "done", "poll", "link"}

\* The places an actor can be at.  "off": not started (or the daemon died).
Places == {"off", "run", "grace", "swap", "write", "tear", "end"}

Up == phase \in {"serving", "draining"}

TypeOK ==
    /\ phase \in {"down", "serving", "draining"}
    /\ life \in Nat
    /\ spawn \in [Sessions -> {"none", "pty", "row", "reader", "threads",
                               "registered", "bound", "failed", "gone"}]
    /\ born \in [Sessions -> Nat]
    /\ tracked \in [Sessions -> BOOLEAN]
    /\ child \in [Sessions -> {"absent", "running", "exited"}]
    /\ holder \in [Sessions -> BOOLEAN]
    /\ guarded \in [Sessions -> BOOLEAN]
    /\ alive \in [Sessions -> BOOLEAN]
    /\ finalized \in [Sessions -> BOOLEAN]
    /\ pc \in [Sessions -> [Actors -> Places]]
    /\ token \in [Sessions -> {"unbound", "live", "revoked"}]
    /\ request \in [Sessions -> Reports \union {"none", "parked"}]
    /\ hook \in [Sessions -> {"none", "ask", "idle", "clear"}]
    /\ supTodo \subseteq Sessions
    /\ supAt \in {"off", "row", "mark", "clear"}
    /\ supOn \in Sessions \union {NoSession}
    /\ state \in [Sessions -> Live \union Terminal \union {"norow"}]
    /\ ended \in [Sessions -> BOOLEAN]
    /\ carded \in [Sessions -> BOOLEAN]
    /\ item \in [Sessions -> {"none", "open", "resolved"}]
    /\ finals \in [Sessions -> Nat]
    /\ signals \in [Sessions -> Nat]

AllOff == [a \in Actors |-> "off"]

Init ==
    /\ phase = "down" /\ life = 0
    /\ spawn = [s \in Sessions |-> "none"]
    /\ born = [s \in Sessions |-> 0]
    /\ tracked = [s \in Sessions |-> FALSE]
    /\ guarded = [s \in Sessions |-> FALSE]
    /\ child = [s \in Sessions |-> "absent"]
    /\ holder = [s \in Sessions |-> FALSE]
    /\ alive = [s \in Sessions |-> FALSE]
    /\ finalized = [s \in Sessions |-> FALSE]
    /\ pc = [s \in Sessions |-> AllOff]
    /\ token = [s \in Sessions |-> "unbound"]
    /\ request = [s \in Sessions |-> "none"]
    /\ hook = [s \in Sessions |-> "none"]
    /\ supTodo = {} /\ supAt = "off" /\ supOn = NoSession
    /\ state = [s \in Sessions |-> "norow"]
    /\ ended = [s \in Sessions |-> FALSE]
    /\ carded = [s \in Sessions |-> FALSE]
    /\ item = [s \in Sessions |-> "none"]
    /\ finals = [s \in Sessions |-> 0]
    /\ signals = [s \in Sessions |-> 0]

-----------------------------------------------------------------------------
(* The process tree.  teardown_tree drops the job handle, which kills every *)
(* descendant when a job was attached, kills the direct child, and clears   *)
(* Inner.alive.                                                             *)

TeardownTree(s) ==
    /\ child' = [child EXCEPT ![s] = "exited"]
    /\ holder' = [holder EXCEPT ![s] = @ /\ ~guarded[s]]
    /\ alive' = [alive EXCEPT ![s] = FALSE]

Goto(s, a, place) == pc' = [pc EXCEPT ![s][a] = place]

\* Where an actor goes once it has finalized, or lost the swap.
After(a) == IF a = "drain" THEN "tear" ELSE "end"

\* shutdown_all_interrupted handles its drained sessions one at a time.
DrainBusy(s) ==
    \E t \in Sessions \ {s} : pc[t]["drain"] \in {"write", "tear"}

-----------------------------------------------------------------------------
(* Slips: the same steps with a mistake a change of the code could bring in. *)
(* No action uses them; each is put in place of the definition it is named   *)
(* after to see that the properties notice.                                  *)

\* The row's insert moved behind the threads that finalize it.
StartReaderBeforeInsert(s) ==
    /\ spawn[s] = "pty"
    /\ spawn' = [spawn EXCEPT ![s] = "reader"]
    /\ pc' = [pc EXCEPT ![s]["reader"] = "run"]
    /\ UNCHANGED <<born, tracked, guarded, finalized, daemonVars, treeVars,
                   signalVars, rowVars>>

\* The reader takes a read error for the end of file.
ReaderSeesError(s) ==
    /\ pc[s]["reader"] = "run"
    /\ alive' = [alive EXCEPT ![s] = FALSE]
    /\ Goto(s, "reader", "swap")
    /\ UNCHANGED <<child, holder, finalized, daemonVars, spawnVars, signalVars, rowVars>>

\* The watcher leaves an exit to the reader while the console is still held.
WatcherTrustsReader(s) ==
    /\ pc[s]["watcher"] = "run"
    /\ child[s] = "exited"
    /\ Goto(s, "watcher", IF holder[s] THEN "end" ELSE "grace")
    /\ UNCHANGED <<finalized, daemonVars, spawnVars, treeVars, signalVars, rowVars>>

\* session.kill writes the row first and kills the tree later, or never.
KillFinalizesFirst(s) ==
    /\ Up /\ tracked[s]
    /\ tracked' = [tracked EXCEPT ![s] = FALSE]
    /\ Goto(s, "killer", "swap")
    /\ UNCHANGED <<spawn, born, guarded, finalized, daemonVars, treeVars,
                   signalVars, rowVars>>

\* The flag is tested in one place and set in another: the test is lost.
FinalizeWithoutTest(s, a) ==
    /\ pc[s][a] = "swap"
    /\ a = "drain" => ~DrainBusy(s)
    /\ finalized' = [finalized EXCEPT ![s] = TRUE]
    /\ Goto(s, a, "write")
    /\ UNCHANGED <<daemonVars, spawnVars, treeVars, signalVars, rowVars>>

\* The finalizing write stores the exit instead of a session state.
FinalizeWritesExit(s, a) ==
    /\ pc[s][a] = "write"
    /\ Goto(s, a, After(a))
    /\ state' = [state EXCEPT ![s] = child[s]]
    /\ ended' = [ended EXCEPT ![s] = TRUE]
    /\ finals' = [finals EXCEPT ![s] = @ + 1]
    /\ UNCHANGED <<carded, item, finalized, daemonVars, spawnVars, treeVars, signalVars>>

\* Reconciliation knows the two states a session had before plan reviews.
StartReconcilesRunning ==
    /\ phase = "down" /\ life < MaxLives
    /\ phase' = "serving" /\ life' = life + 1
    /\ state' = [s \in Sessions |->
                    IF state[s] \in {"working", "idle"} THEN "interrupted" ELSE state[s]]
    /\ ended' = [s \in Sessions |-> ended[s] \/ state[s] \in {"working", "idle"}]
    /\ UNCHANGED <<carded, item, finals, spawnVars, treeVars, exitVars, signalVars>>

-----------------------------------------------------------------------------
(* Processes, as the operating system runs them.                             *)

ChildForks(s) ==
    /\ child[s] = "running" /\ ~holder[s]
    /\ holder' = [holder EXCEPT ![s] = TRUE]
    /\ UNCHANGED <<child, alive, daemonVars, spawnVars, exitVars, signalVars, rowVars>>

ChildExits(s) ==
    /\ child[s] = "running"
    /\ child' = [child EXCEPT ![s] = "exited"]
    /\ UNCHANGED <<holder, alive, daemonVars, spawnVars, exitVars, signalVars, rowVars>>

DescendantExits(s) ==
    /\ holder[s]
    /\ holder' = [holder EXCEPT ![s] = FALSE]
    /\ UNCHANGED <<child, alive, daemonVars, spawnVars, exitVars, signalVars, rowVars>>

Environment(s) == ChildForks(s) \/ ChildExits(s) \/ DescendantExits(s)

-----------------------------------------------------------------------------
(* SessionManager::create: the child first, then the row, then the reader   *)
(* and the watcher thread, then the map, then the tokens.  Any thread may   *)
(* create a session, the gate's pipeline threads during shutdown included.  *)

SpawnPty(s) ==
    /\ Up /\ spawn[s] = "none"
    /\ spawn' = [spawn EXCEPT ![s] = "pty"]
    /\ born' = [born EXCEPT ![s] = life]
    /\ \E g \in BOOLEAN : guarded' = [guarded EXCEPT ![s] = g]
    /\ child' = [child EXCEPT ![s] = "running"]
    /\ alive' = [alive EXCEPT ![s] = TRUE]
    /\ UNCHANGED <<tracked, holder, daemonVars, exitVars, signalVars, rowVars>>

InsertRow(s) ==
    /\ spawn[s] = "pty"
    /\ spawn' = [spawn EXCEPT ![s] = "row"]
    /\ state' = [state EXCEPT ![s] = "working"]
    /\ \E c \in BOOLEAN : carded' = [carded EXCEPT ![s] = c]
    /\ UNCHANGED <<ended, item, finals, born, tracked, guarded, daemonVars,
                   treeVars, exitVars, signalVars>>

\* The insert failed: the session is killed before anyone can see it.  Its
\* finalize finds no row to update.
InsertFails(s) ==
    /\ Faults /\ spawn[s] = "pty"
    /\ spawn' = [spawn EXCEPT ![s] = "failed"]
    /\ TeardownTree(s)
    /\ finalized' = [finalized EXCEPT ![s] = TRUE]
    /\ UNCHANGED <<born, tracked, guarded, pc, daemonVars, signalVars, rowVars>>

StartReader(s) ==
    /\ spawn[s] = "row"
    /\ spawn' = [spawn EXCEPT ![s] = "reader"]
    /\ pc' = [pc EXCEPT ![s]["reader"] = "run"]
    /\ UNCHANGED <<born, tracked, guarded, finalized, daemonVars, treeVars,
                   signalVars, rowVars>>

StartWatcher(s) ==
    /\ spawn[s] = "reader"
    /\ spawn' = [spawn EXCEPT ![s] = "threads"]
    /\ pc' = [pc EXCEPT ![s]["watcher"] = "run"]
    /\ UNCHANGED <<born, tracked, guarded, finalized, daemonVars, treeVars,
                   signalVars, rowVars>>

\* A thread could not be created.  Without a reader nobody holds the Session
\* any more: dropping it closes the job and the console, with its row still
\* "working".  With a reader the session runs on, in no map.
ThreadFails(s) ==
    /\ Faults /\ spawn[s] \in {"row", "reader"}
    /\ spawn' = [spawn EXCEPT ![s] = "failed"]
    /\ IF spawn[s] = "row" THEN TeardownTree(s) ELSE UNCHANGED treeVars
    /\ UNCHANGED <<born, tracked, guarded, daemonVars, exitVars, signalVars, rowVars>>

Register(s) ==
    /\ spawn[s] = "threads"
    /\ spawn' = [spawn EXCEPT ![s] = "registered"]
    /\ tracked' = [tracked EXCEPT ![s] = TRUE]
    /\ UNCHANGED <<born, guarded, daemonVars, treeVars, exitVars, signalVars, rowVars>>

BindTokens(s) ==
    /\ spawn[s] = "registered"
    /\ spawn' = [spawn EXCEPT ![s] = "bound"]
    /\ token' = [token EXCEPT ![s] = "live"]
    /\ UNCHANGED <<born, tracked, guarded, request, hook, supVars, signals,
                   daemonVars, treeVars, exitVars, rowVars>>

Create(s) ==
    \/ SpawnPty(s) \/ InsertRow(s) \/ InsertFails(s) \/ StartReader(s)
    \/ StartWatcher(s) \/ ThreadFails(s) \/ Register(s) \/ BindTokens(s)

-----------------------------------------------------------------------------
(* Ending a session.  Each of the four actors reaches "swap"; the winner of *)
(* the swap writes the row, a loser goes on without a write.                *)

\* pump_reader: read returns 0 once no process holds the console.
ReaderSeesEof(s) ==
    /\ pc[s]["reader"] = "run"
    /\ child[s] # "running" /\ ~holder[s]
    /\ alive' = [alive EXCEPT ![s] = FALSE]
    /\ Goto(s, "reader", "swap")
    /\ UNCHANGED <<child, holder, finalized, daemonVars, spawnVars, signalVars, rowVars>>

\* watch_child: try_wait reports the exit, then the watcher sleeps the grace.
WatcherSeesExit(s) ==
    /\ pc[s]["watcher"] = "run"
    /\ child[s] = "exited"
    /\ Goto(s, "watcher", "grace")
    /\ UNCHANGED <<finalized, daemonVars, spawnVars, treeVars, signalVars, rowVars>>

WatcherTearsDown(s) ==
    /\ pc[s]["watcher"] = "grace"
    /\ TeardownTree(s)
    /\ Goto(s, "watcher", "swap")
    /\ UNCHANGED <<finalized, daemonVars, spawnVars, signalVars, rowVars>>

\* try_wait said "running", and by the next test the session is not alive:
\* somebody else ended it.  Or try_wait failed, and the watcher gives up.
WatcherLeaves(s) ==
    /\ pc[s]["watcher"] = "run"
    /\ ~alive[s] \/ Faults
    /\ Goto(s, "watcher", "end")
    /\ UNCHANGED <<finalized, daemonVars, spawnVars, treeVars, signalVars, rowVars>>

\* session.kill, and dispatch.cancel for each session of its card: only the
\* caller that removes the session from the map goes on to kill it.
Kill(s) ==
    /\ Up /\ tracked[s]
    /\ tracked' = [tracked EXCEPT ![s] = FALSE]
    /\ Goto(s, "killer", "run")
    /\ UNCHANGED <<spawn, born, guarded, finalized, daemonVars, treeVars,
                   signalVars, rowVars>>

KillerTearsDown(s) ==
    /\ pc[s]["killer"] = "run"
    /\ TeardownTree(s)
    /\ Goto(s, "killer", "swap")
    /\ UNCHANGED <<finalized, daemonVars, spawnVars, signalVars, rowVars>>

FinalizeSwap(s, a) ==
    /\ pc[s][a] = "swap"
    /\ a = "drain" => ~DrainBusy(s)
    /\ finalized' = [finalized EXCEPT ![s] = TRUE]
    /\ Goto(s, a, IF finalized[s] THEN After(a) ELSE "write")
    /\ UNCHANGED <<daemonVars, spawnVars, treeVars, signalVars, rowVars>>

\* finalize_session_note: NotFound when the row does not exist.  It leaves the
\* session's Needs You item as it is.
FinalizeWrite(s, a) ==
    /\ pc[s][a] = "write"
    /\ Goto(s, a, After(a))
    /\ IF state[s] = "norow"
       THEN UNCHANGED <<state, ended, finals>>
       ELSE /\ state' = [state EXCEPT ![s] =
                            IF a = "drain" THEN "interrupted" ELSE "done"]
            /\ ended' = [ended EXCEPT ![s] = TRUE]
            /\ finals' = [finals EXCEPT ![s] = @ + 1]
    /\ UNCHANGED <<carded, item, finalized, daemonVars, spawnVars, treeVars, signalVars>>

\* The store refused the write; the error is logged and the row stays as it is.
FinalizeFails(s, a) ==
    /\ Faults /\ pc[s][a] = "write"
    /\ Goto(s, a, After(a))
    /\ UNCHANGED <<finalized, daemonVars, spawnVars, treeVars, signalVars, rowVars>>

DrainTearsDown(s) ==
    /\ pc[s]["drain"] = "tear"
    /\ TeardownTree(s)
    /\ Goto(s, "drain", "end")
    /\ UNCHANGED <<finalized, daemonVars, spawnVars, signalVars, rowVars>>

Finish(s) ==
    \/ ReaderSeesEof(s) \/ WatcherSeesExit(s) \/ WatcherTearsDown(s)
    \/ WatcherLeaves(s) \/ KillerTearsDown(s) \/ DrainTearsDown(s)
    \/ \E a \in Actors : FinalizeSwap(s, a) \/ FinalizeWrite(s, a) \/ FinalizeFails(s, a)

-----------------------------------------------------------------------------
(* The row's other writers.                                                 *)

\* mark_session_needs_input / agent_report_blocked: the state and, for a
\* session with a card, the (re)opened item, in one transaction.
Raise(s, st) ==
    /\ state' = [state EXCEPT ![s] = st]
    /\ item' = [item EXCEPT ![s] = IF carded[s] THEN "open" ELSE @]

\* clear_session_needs_input / agent_report_working: resolve the open item.
Resolve(s, st) ==
    /\ state' = [state EXCEPT ![s] = st]
    /\ item' = [item EXCEPT ![s] = IF carded[s] /\ @ = "open" THEN "resolved" ELSE @]

\* set_session_state: the state alone.
SetState(s, st) ==
    /\ state' = [state EXCEPT ![s] = st]
    /\ UNCHANGED item

\* A request of the agent CLI: the token is resolved at the handshake, and
\* the request may still be in the socket when the process is gone.
AgentSends(s) ==
    /\ Up /\ token[s] = "live" /\ request[s] = "none"
    /\ child[s] = "running" \/ holder[s]
    /\ signals[s] < MaxSignals
    /\ signals' = [signals EXCEPT ![s] = @ + 1]
    /\ \E k \in Reports : request' = [request EXCEPT ![s] = k]
    /\ UNCHANGED <<token, hook, supVars, daemonVars, spawnVars, treeVars,
                   exitVars, rowVars>>

Served(s, next) ==
    /\ request' = [request EXCEPT ![s] = next]
    /\ UNCHANGED <<finals, token, hook, supVars, signals, daemonVars,
                   spawnVars, treeVars, exitVars>>

AgentReportsWorking(s) ==
    /\ request[s] = "working" /\ Resolve(s, "working")
    /\ UNCHANGED <<ended, carded>> /\ Served(s, "none")

AgentReportsBlocked(s) ==
    /\ request[s] = "blocked" /\ Raise(s, "blocked")
    /\ UNCHANGED <<ended, carded>> /\ Served(s, "none")

AgentReportsDone(s) ==
    /\ request[s] = "done" /\ Resolve(s, "done")
    /\ ended' = [ended EXCEPT ![s] = TRUE]
    /\ UNCHANGED carded /\ Served(s, "none")

\* card.create from a cardless session: set_session_card fills an empty card.
AgentLinksCard(s) ==
    /\ request[s] = "link"
    /\ carded' = [carded EXCEPT ![s] = TRUE]
    /\ UNCHANGED <<state, ended, item>> /\ Served(s, "none")

\* artifact.feedback.poll parks the session; the poll stays in the daemon
\* until feedback arrives or its budget is used up, whatever the process does.
AgentParksPoll(s) ==
    /\ request[s] = "poll" /\ SetState(s, "awaiting_feedback")
    /\ UNCHANGED <<ended, carded>> /\ Served(s, "parked")

PollDelivers(s) ==
    /\ request[s] = "parked" /\ SetState(s, "working")
    /\ UNCHANGED <<ended, carded>> /\ Served(s, "none")

PollPends(s) ==
    /\ request[s] = "parked"
    /\ UNCHANGED <<state, ended, carded, item>> /\ Served(s, "none")

Agent(s) ==
    \/ AgentSends(s) \/ AgentReportsWorking(s) \/ AgentReportsBlocked(s)
    \/ AgentReportsDone(s) \/ AgentLinksCard(s) \/ AgentParksPoll(s)
    \/ PollDelivers(s) \/ PollPends(s)

\* apply_hook_event reads the row, ignores a terminal one, and decides:
\* "ask" (needs_input), "clear" (idle from needs_input) or "idle".
HookReadsRow(s) ==
    /\ Up /\ token[s] = "live" /\ hook[s] = "none"
    /\ state[s] \notin Terminal
    /\ signals[s] < MaxSignals
    /\ signals' = [signals EXCEPT ![s] = @ + 1]
    /\ \E k \in {"ask", IF state[s] = "needs_input" THEN "clear" ELSE "idle"} :
         /\ k = "idle" => state[s] # "idle"
         /\ hook' = [hook EXCEPT ![s] = k]
    /\ UNCHANGED <<token, request, supVars, daemonVars, spawnVars, treeVars,
                   exitVars, rowVars>>

HookWritesRow(s) ==
    /\ hook[s] # "none"
    /\ \/ hook[s] = "ask"   /\ Raise(s, "needs_input")
       \/ hook[s] = "clear" /\ Resolve(s, "idle")
       \/ hook[s] = "idle"  /\ SetState(s, "idle")
    /\ hook' = [hook EXCEPT ![s] = "none"]
    /\ UNCHANGED <<ended, carded, finals, token, request, supVars, signals,
                   daemonVars, spawnVars, treeVars, exitVars>>

Hook(s) == HookReadsRow(s) \/ HookWritesRow(s)

\* run_supervisor: a tick takes a snapshot of the map and visits each session
\* in it: test alive, read the row, classify the screen, write.  A session
\* found dead has its tokens pruned.  Shutdown stops further ticks, not one
\* that is under way.
SupervisorTicks ==
    /\ phase = "serving" /\ supAt = "off" /\ supTodo = {}
    /\ supTodo' = {s \in Sessions : tracked[s]}
    /\ supTodo' # {}
    /\ UNCHANGED <<supAt, supOn, token, request, hook, signals, daemonVars,
                   spawnVars, treeVars, exitVars, rowVars>>

SupervisorPrunes(s) ==
    /\ supAt = "off" /\ s \in supTodo /\ ~alive[s]
    /\ supTodo' = supTodo \ {s}
    /\ token' = [token EXCEPT ![s] = IF @ = "live" THEN "revoked" ELSE @]
    /\ UNCHANGED <<supAt, supOn, request, hook, signals, daemonVars, spawnVars,
                   treeVars, exitVars, rowVars>>

SupervisorPicks(s) ==
    /\ supAt = "off" /\ s \in supTodo /\ alive[s]
    /\ supTodo' = supTodo \ {s}
    /\ supAt' = "row" /\ supOn' = s
    /\ UNCHANGED <<token, request, hook, signals, daemonVars, spawnVars, treeVars,
                   exitVars, rowVars>>

\* Terminal and awaiting_feedback rows are skipped; otherwise the screen decides.
SupervisorReadsRow ==
    /\ supAt = "row"
    /\ supAt' \in IF state[supOn] \in Terminal \union {"awaiting_feedback"} THEN {"off"}
                  ELSE {"off", IF state[supOn] = "needs_input" THEN "clear" ELSE "mark"}
    /\ supOn' = IF supAt' = "off" THEN NoSession ELSE supOn
    /\ UNCHANGED <<supTodo, token, request, hook, signals, daemonVars, spawnVars,
                   treeVars, exitVars, rowVars>>

SupervisorWritesRow ==
    /\ \/ supAt = "mark"  /\ Raise(supOn, "needs_input")
       \/ supAt = "clear" /\ Resolve(supOn, "working")
    /\ supAt' = "off" /\ supOn' = NoSession
    /\ UNCHANGED <<supTodo, ended, carded, finals, token, request, hook, signals,
                   daemonVars, spawnVars, treeVars, exitVars>>

Supervisor ==
    \/ SupervisorTicks \/ SupervisorReadsRow \/ SupervisorWritesRow
    \/ \E s \in Sessions : SupervisorPrunes(s) \/ SupervisorPicks(s)

UserResolves(s) ==
    /\ Up /\ item[s] = "open"
    /\ item' = [item EXCEPT ![s] = "resolved"]
    /\ UNCHANGED <<state, ended, carded, finals, daemonVars, spawnVars, treeVars,
                   exitVars, signalVars>>

-----------------------------------------------------------------------------
(* The daemon.                                                              *)

\* server::run: open the store, mark every stale row interrupted, serve.
Start ==
    /\ phase = "down" /\ life < MaxLives
    /\ phase' = "serving" /\ life' = life + 1
    /\ state' = [s \in Sessions |->
                    IF state[s] \in Live THEN "interrupted" ELSE state[s]]
    /\ ended' = [s \in Sessions |-> ended[s] \/ state[s] \in Live]
    /\ UNCHANGED <<carded, item, finals, spawnVars, treeVars, exitVars, signalVars>>

\* daemon.shutdown, /shutdown or ctrl-c: empty the map, then end each session.
Shutdown ==
    /\ phase = "serving"
    /\ phase' = "draining"
    /\ tracked' = [s \in Sessions |-> FALSE]
    /\ pc' = [s \in Sessions |->
                 IF tracked[s] THEN [pc[s] EXCEPT !["drain"] = "swap"] ELSE pc[s]]
    /\ UNCHANGED <<life, spawn, born, guarded, finalized, treeVars, signalVars, rowVars>>

\* The process is gone, and with it every thread, registry and, through the
\* reaping job, every child.  Only the rows and items remain.
Die ==
    /\ phase' = "down"
    /\ spawn' = [s \in Sessions |-> IF spawn[s] = "none" THEN "none" ELSE "gone"]
    /\ tracked' = [s \in Sessions |-> FALSE]
    /\ child' = [s \in Sessions |-> IF child[s] = "absent" THEN "absent" ELSE "exited"]
    /\ holder' = [s \in Sessions |-> FALSE]
    /\ alive' = [s \in Sessions |-> FALSE]
    /\ finalized' = [s \in Sessions |-> FALSE]
    /\ pc' = [s \in Sessions |-> AllOff]
    /\ token' = [s \in Sessions |-> "unbound"]
    /\ request' = [s \in Sessions |-> "none"]
    /\ hook' = [s \in Sessions |-> "none"]
    /\ supTodo' = {} /\ supAt' = "off" /\ supOn' = NoSession
    /\ UNCHANGED <<life, born, guarded, signals, rowVars>>

Drained == \A s \in Sessions : pc[s]["drain"] \in {"off", "end"}

Exit == phase = "draining" /\ Drained /\ Die

Crash == Up /\ Die

Next ==
    \/ Start \/ Shutdown \/ Exit \/ Crash \/ Supervisor
    \/ \E s \in Sessions : \/ Environment(s) \/ Create(s) \/ Finish(s) \/ Kill(s)
                           \/ Agent(s) \/ Hook(s) \/ UserResolves(s)

Spec == Init /\ [][Next]_vars

\* The operating system schedules every thread that can run, and the tokio
\* runtime every task: an enabled step of the finalizers, the drain and the
\* supervision loop (which ticks for ever, and visits every session of its
\* snapshot) is taken in the end.  Nothing is assumed of processes, agents,
\* users or crashes.
Fairness ==
    /\ \A s \in Sessions : WF_vars(Finish(s))
    /\ WF_vars(Supervisor)
    /\ WF_vars(Exit)

FairSpec == Spec /\ Fairness

-----------------------------------------------------------------------------
(* Properties.                                                              *)

\* A session is ended at most once, whichever of the reader, the watcher, a
\* kill and the shutdown drain get there, in any order (finalize_exit and
\* shutdown_interrupted swap the flag before they write).
FinalizeOnce == \A s \in Sessions : finals[s] <= 1

\* While the daemon serves, a session whose ending reached the row has no
\* running agent: reader, watcher and kill all wait for, or bring about, the
\* child's death before they write "done".
DoneMeansDead ==
    phase = "serving" =>
        \A s \in Sessions : finals[s] = 1 => child[s] # "running"

\* No ghosts: past its insert no agent runs without a row, and nobody tries to
\* finalize a row that is not there, however fast the child exits (spawn_with
\* inserts the row before it starts the threads, and kills on a failed insert).
NoGhost ==
    /\ \A s \in Sessions : child[s] = "running" => spawn[s] = "pty" \/ state[s] # "norow"
    /\ \A s \in Sessions, a \in Actors : pc[s][a] = "write" => state[s] # "norow"

\* A serving daemon shows no session of an earlier life as live: after a crash
\* or a shutdown at any step, whatever the drain missed, reconciliation ended
\* the row, and no message of the old life can bring it back.
PastLivesTerminal ==
    phase = "serving" =>
        \A s \in Sessions :
            state[s] # "norow" /\ born[s] < life => state[s] \in Terminal /\ ended[s]

\* An agent that exits is noticed even while a descendant keeps the console
\* open and the reader never sees the end of file (the reason for watch_child).
ExitNoticed ==
    \A s \in Sessions :
        phase = "serving" /\ pc[s]["watcher"] = "run" /\ child[s] = "exited"
            ~> finals[s] = 1 \/ phase # "serving"

\* A graceful shutdown always comes to its end.
ShutdownCompletes == phase = "draining" ~> phase = "down"

\* The supervision loop takes the tokens of a session that ended by itself.
TokensPruned ==
    \A s \in Sessions :
        tracked[s] /\ ~alive[s] /\ token[s] = "live" ~> token[s] # "live" \/ ~tracked[s]
=============================================================================
