----------------------------- MODULE DaemonStart -----------------------------
(***************************************************************************)
(* One data directory and everybody who wants its daemon: the daemons that *)
(* are spawned (main.rs, runtime.rs, server.rs run), the desktop windows    *)
(* that attach to one or spawn it (src-tauri/src/daemon.rs), and            *)
(* `dflowd --status` and `--stop` (control.rs).  What they share is the    *)
(* lock, which the system takes from a process that dies, and runtime.json. *)
(*                                                                         *)
(* A process id and a port are never used a second time; both are the      *)
(* daemon's number here.  A minted token is named after its minter.        *)
(***************************************************************************)
EXTENDS Integers, FiniteSets

CONSTANTS
    Daemons,      \* processes, in the order they are spawned: 1, 2, ...
    Windows,      \* desktop windows, each of an app of its own
    MaxTools,     \* bound: runs of --status and --stop
    MaxDeaths,    \* bound: daemons that die of anything else
    MaxReloads    \* bound: windows that stop or restart the daemon, or are opened again

ASSUME DaemonAssumption ==
    /\ Daemons = 1 .. Cardinality(Daemons) /\ IsFiniteSet(Daemons) /\ IsFiniteSet(Windows)
    /\ {MaxTools, MaxDeaths, MaxReloads} \subseteq Nat

Nobody == 0
Prober == -1                      \* --status or --stop, for the moment of its probe
NoInfo == [pid |-> 0, token |-> 0]    \* no runtime file
Torn   == [pid |-> -1, token |-> 0]   \* truncated, and not written yet

VARIABLES
    lock,        \* who holds the lock file
    published,   \* runtime.json
    daemons,     \* every daemon's step and root token
    windows,     \* every window's step and what it was told
    tool,        \* the control command that runs
    budget,      \* tools, crashes and reloads so far
    lastToken,   \* the token clients hold of the last daemon, 0 if it took it along
    disturbed    \* since a window last spawned, a daemon was stopped, died, or met another's lock

startVars == << lock, published, daemons, windows, tool, budget, lastToken, disturbed >>

NoTool == [at |-> "none", kind |-> "status", info |-> NoInfo, before |-> {}, said |-> "nothing"]

DaemonInit ==
    /\ lock = Nobody /\ published = NoInfo
    /\ daemons = [d \in Daemons |-> [at |-> "unborn", token |-> 0]]
    /\ windows = [w \in Windows |-> [at |-> "closed", info |-> NoInfo]]
    /\ tool = NoTool
    /\ budget = [tools |-> 0, crashes |-> 0, reloads |-> 0]
    /\ lastToken = 0 /\ disturbed = FALSE

StepOf(d)  == daemons[d].at
Answering  == {d \in Daemons : StepOf(d) \in {"bound", "writing", "up", "serving"}}
Alive      == {d \in Daemons : StepOf(d) \notin {"unborn", "gone"}}
Holding    == {d \in Daemons : StepOf(d) \in {"locked", "bound", "writing", "up", "serving", "ending", "cleaned"}}
Info(d)    == [pid |-> d, token |-> daemons[d].token]
Goes(d, s) == daemons' = [daemons EXCEPT ![d].at = s]
Readable(i) == i \notin {NoInfo, Torn}

-----------------------------------------------------------------------------
(* A daemon, from its start to its exit.                                   *)

\* A slip: a runtime file that is there stands for a daemon that runs.
AcquireUnlessFile(d) ==
    /\ StepOf(d) = "start"
    /\ IF lock = Nobody /\ ~Readable(published)
       THEN /\ lock' = d
            /\ daemons' = [daemons EXCEPT ![d] = [at |-> "locked", token |-> d]]
       ELSE Goes(d, "gone") /\ UNCHANGED lock
    /\ UNCHANGED << published, windows, tool, budget, lastToken, disturbed >>

\* A slip: the lock of a daemon that has not published its pid is taken for a
\* dead one's.
AcquireByPid(d) ==
    /\ StepOf(d) = "start"
    /\ IF lock = Nobody \/ published.pid \notin Alive
       THEN /\ lock' = d
            /\ daemons' = [daemons EXCEPT ![d] =
                   [at |-> "locked", token |-> IF Readable(published) THEN published.token ELSE d]]
       ELSE Goes(d, "gone") /\ UNCHANGED lock
    /\ UNCHANGED << published, windows, tool, budget, lastToken, disturbed >>

\* Runtime::acquire: the lock, then the token of the file that is there.  Who
\* finds the lock taken exits at once.
Acquire(d) ==
    /\ StepOf(d) = "start"
    /\ IF lock = Nobody
       THEN /\ lock' = d
            /\ daemons' = [daemons EXCEPT ![d] =
                   [at |-> "locked", token |-> IF Readable(published) THEN published.token ELSE d]]
            /\ UNCHANGED disturbed
       ELSE /\ Goes(d, "gone") /\ UNCHANGED lock
            /\ disturbed' = (disturbed \/ lock = Prober \/ StepOf(lock) \in {"ending", "cleaned"})
    /\ UNCHANGED << published, windows, tool, budget, lastToken >>

\* The store is opened and reconciled, and the listener bound: connections
\* queue from here on.
Bind(d) ==
    /\ StepOf(d) = "locked" /\ Goes(d, "bound")
    /\ UNCHANGED << lock, published, windows, tool, budget, lastToken, disturbed >>

\* publish: the file is truncated, then written.
TruncateInfo(d) ==
    /\ StepOf(d) = "bound" /\ Goes(d, "writing")
    /\ published' = Torn
    /\ UNCHANGED << lock, windows, tool, budget, lastToken, disturbed >>

WriteInfo(d) ==
    /\ StepOf(d) = "writing" /\ Goes(d, "up")
    /\ published' = Info(d) /\ lastToken' = daemons[d].token
    /\ UNCHANGED << lock, windows, tool, budget, disturbed >>

\* The indexes are rebuilt, the loops spawned, and somebody waits for a
\* shutdown.
Listens(d) ==
    /\ StepOf(d) = "up" /\ Goes(d, "serving")
    /\ UNCHANGED << lock, published, windows, tool, budget, lastToken, disturbed >>

\* notify_waiters: it is lost on a daemon where nobody waits yet.
Notified(d) == IF StepOf(d) = "serving" THEN Goes(d, "ending") ELSE UNCHANGED daemons

\* Sessions are marked and their trees killed; cleanup removes the file, and
\* the root token with it.
Cleanup(d) ==
    /\ StepOf(d) = "ending" /\ Goes(d, "cleaned")
    /\ published' = NoInfo /\ lastToken' = 0
    /\ UNCHANGED << lock, windows, tool, budget, disturbed >>

ExitDaemon(d) ==
    /\ StepOf(d) = "cleaned" /\ Goes(d, "gone")
    /\ lock' = Nobody
    /\ UNCHANGED << published, windows, tool, budget, lastToken, disturbed >>

\* The process is gone, and its lock with it; what was in the file stays.
Dies(d) ==
    /\ Goes(d, "gone")
    /\ lock' = IF lock = d THEN Nobody ELSE lock
    /\ lastToken' = IF StepOf(d) = "writing" THEN 0 ELSE lastToken

CrashOf(d) ==
    /\ d \in Alive /\ budget.crashes < MaxDeaths
    /\ budget' = [budget EXCEPT !.crashes = @ + 1]
    /\ disturbed' = TRUE
    /\ Dies(d)
    /\ UNCHANGED << published, windows, tool >>

-----------------------------------------------------------------------------
(* A window: ensure_running.                                               *)

WindowAt(w, s) == windows[w].at = s
To(w, s, i) == windows' = [windows EXCEPT ![w] = [at |-> s, info |-> i]]
Unborn == {d \in Daemons : StepOf(d) = "unborn"}
NextDaemon == CHOOSE d \in Unborn : \A e \in Unborn : d <= e

\* The window opens, or is opened again; it reads the file.
OpenWindow(w) ==
    /\ WindowAt(w, "closed")
    /\ To(w, "read", published)
    /\ UNCHANGED << lock, published, daemons, tool, budget, lastToken, disturbed >>

\* read_and_probe, after the read: the pid is alive and the port answers.
AppReaches(i) == Readable(i) /\ i.pid \in Alive \cap Answering

\* The one that answers is taken; otherwise one is spawned.
EnsureRunning(w) ==
    /\ WindowAt(w, "read")
    /\ IF AppReaches(windows[w].info)
       THEN To(w, "attached", windows[w].info) /\ UNCHANGED << daemons, disturbed >>
       ELSE /\ Unborn # {}
            /\ Goes(NextDaemon, "start")
            /\ To(w, "waiting", NoInfo)
            /\ disturbed' = FALSE
    /\ UNCHANGED << lock, published, tool, budget, lastToken >>

\* Every 150 ms the file is read and probed again.
Reread(w) ==
    /\ WindowAt(w, "waiting") /\ Readable(published)
    /\ To(w, "probing", published)
    /\ UNCHANGED << lock, published, daemons, tool, budget, lastToken, disturbed >>

Reprobe(w) ==
    /\ WindowAt(w, "probing")
    /\ IF AppReaches(windows[w].info)
       THEN To(w, "attached", windows[w].info)
       ELSE To(w, "waiting", NoInfo)
    /\ UNCHANGED << lock, published, daemons, tool, budget, lastToken, disturbed >>

\* "dflowd did not become ready in time".
GivesUp(w) ==
    /\ WindowAt(w, "waiting")
    /\ To(w, "failed", NoInfo)
    /\ UNCHANGED << lock, published, daemons, tool, budget, lastToken, disturbed >>

\* stopDaemon and restartDaemon: daemon.shutdown on the window's connection;
\* the page is loaded again, at once or when the human does.
StopFromWindow(w) ==
    /\ WindowAt(w, "attached") /\ budget.reloads < MaxReloads
    /\ budget' = [budget EXCEPT !.reloads = @ + 1]
    /\ To(w, "closed", NoInfo)
    /\ IF windows[w].info.pid \in {d \in Answering : daemons[d].token = windows[w].info.token}
       THEN Notified(windows[w].info.pid) /\ disturbed' = TRUE
       ELSE UNCHANGED << daemons, disturbed >>
    /\ UNCHANGED << lock, published, tool, lastToken >>

\* The window is closed, or has failed, and is opened again.
CloseWindow(w) ==
    /\ windows[w].at \in {"attached", "failed"} /\ budget.reloads < MaxReloads
    /\ budget' = [budget EXCEPT !.reloads = @ + 1]
    /\ To(w, "closed", NoInfo)
    /\ UNCHANGED << lock, published, daemons, tool, lastToken, disturbed >>

-----------------------------------------------------------------------------
(* dflowd --status and --stop.                                             *)

ToolAt(s) == tool.at = s

RunTool(kind) ==
    /\ ToolAt("none") /\ budget.tools < MaxTools
    /\ budget' = [budget EXCEPT !.tools = @ + 1]
    /\ tool' = [NoTool EXCEPT !.at = "probe", !.kind = kind, !.before = Holding]
    /\ UNCHANGED << lock, published, daemons, windows, lastToken, disturbed >>

\* daemon_running: whoever gets the lock knows that nobody has it - and has it
\* until it lets go.
ProbeLock ==
    /\ tool.at \in {"probe", "wait"}
    /\ lock = Nobody
    /\ lock' = Prober
    /\ tool' = [tool EXCEPT !.at = "holds", !.said = IF ToolAt("probe") THEN "not running" ELSE "stopped"]
    /\ UNCHANGED << published, daemons, windows, budget, lastToken, disturbed >>

LetGo ==
    /\ ToolAt("holds")
    /\ lock' = Nobody /\ tool' = [tool EXCEPT !.at = "none"]
    /\ UNCHANGED << published, daemons, windows, budget, lastToken, disturbed >>

\* Somebody has it: --status reports, --stop reads whom to ask.
FindRunning ==
    /\ ToolAt("probe") /\ lock # Nobody
    /\ tool' = IF tool.kind = "stop" THEN [tool EXCEPT !.at = "ask"]
               ELSE [tool EXCEPT !.at = "none", !.said = "running"]
    /\ UNCHANGED << lock, published, daemons, windows, budget, lastToken, disturbed >>

ReadInfo ==
    /\ ToolAt("ask")
    /\ tool' = [tool EXCEPT !.at = "post", !.info = IF Readable(published) THEN published ELSE NoInfo]
    /\ UNCHANGED << lock, published, daemons, windows, budget, lastToken, disturbed >>

\* POST /shutdown with the token of the file.
PostShutdown ==
    /\ ToolAt("post")
    /\ tool' = [tool EXCEPT !.at = "wait"]
    /\ IF tool.info.pid \in {d \in Answering : daemons[d].token = tool.info.token}
       THEN Notified(tool.info.pid) /\ disturbed' = TRUE
       ELSE UNCHANGED << daemons, disturbed >>
    /\ UNCHANGED << lock, published, windows, budget, lastToken >>

\* The lock is still held after six seconds: the pid is killed, and three more
\* seconds waited, after which it has failed.
StopTimesOut ==
    /\ ToolAt("wait") /\ lock # Nobody
    /\ IF tool.info = NoInfo
       THEN /\ tool' = [tool EXCEPT !.at = "none", !.said = "failed"]
            /\ UNCHANGED << lock, daemons, lastToken, disturbed >>
       ELSE /\ tool' = [tool EXCEPT !.info = NoInfo]
            /\ IF tool.info.pid \in Alive
               THEN Dies(tool.info.pid) /\ disturbed' = TRUE
               ELSE UNCHANGED << lock, daemons, lastToken, disturbed >>
    /\ UNCHANGED << published, windows, budget >>

DaemonSteps(d) == \/ Acquire(d) \/ Bind(d) \/ TruncateInfo(d) \/ WriteInfo(d) \/ Listens(d)
                  \/ Cleanup(d) \/ ExitDaemon(d)
WindowSteps(w) == OpenWindow(w) \/ EnsureRunning(w) \/ Reread(w) \/ Reprobe(w) \/ GivesUp(w)
ToolSteps      == ProbeLock \/ LetGo \/ FindRunning \/ ReadInfo \/ PostShutdown \/ StopTimesOut

DaemonNext ==
    \/ \E d \in Daemons : DaemonSteps(d) \/ CrashOf(d)
    \/ \E w \in Windows : WindowSteps(w) \/ StopFromWindow(w) \/ CloseWindow(w)
    \/ ToolSteps \/ \E kind \in {"status", "stop"} : RunTool(kind)

\* Processes go on.  A window that waits reads the file again before it gives up.
DaemonFairness ==
    /\ \A d \in Daemons : WF_startVars(DaemonSteps(d))
    /\ \A w \in Windows : WF_startVars(Reprobe(w)) /\ SF_startVars(Reread(w))
    /\ WF_startVars(ToolSteps)

DaemonSpec == DaemonInit /\ [][DaemonNext]_startVars /\ DaemonFairness

-----------------------------------------------------------------------------
(* Properties.                                                             *)

\* The types of the variables.
DaemonTypeOK ==
    /\ lock \in {Nobody, Prober} \cup Daemons
    /\ \A d \in Holding : daemons[d].token # 0
    /\ daemons \in [Daemons -> [at : {"unborn", "start", "locked", "bound", "writing", "up", "serving",
                                      "ending", "cleaned", "gone"}, token : {0} \cup Daemons]]
    /\ {published, tool.info} \cup {windows[w].info : w \in Windows}
           \subseteq {NoInfo, Torn} \cup [pid : Daemons, token : Daemons]
    /\ \A w \in Windows : windows[w].at \in {"closed", "read", "waiting", "probing", "attached", "failed"}
    /\ tool.at \in {"none", "probe", "holds", "ask", "post", "wait"} /\ tool.kind \in {"status", "stop"}
    /\ budget.tools <= MaxTools /\ budget.crashes <= MaxDeaths /\ budget.reloads <= MaxReloads

\* "A lock file held for the process lifetime enforces a single instance": of
\* two daemons that start at a time one is left, through crashes, stops and
\* the probes that take the lock themselves; and while it serves, runtime.json
\* names it and holds its token, whatever another one cleaned up.
OneServes ==
    /\ Cardinality(Holding) <= 1
    /\ \A d \in Daemons : StepOf(d) \in {"up", "serving"} => published = Info(d)

\* "confirm the daemon is genuinely live": what a window is told to connect to
\* answers, and takes the token, when it is told - whichever daemon wrote the
\* file it read, and whatever became of it since.
ToldTheLiving ==
    [][\A w \in Windows : windows'[w].at = "attached" /\ ~WindowAt(w, "attached") =>
          LET i == windows'[w].info IN i.pid \in Answering /\ daemons[i.pid].token = i.token]_startVars

\* "Root bearer token (persisted across runs)": the next daemon takes the token
\* of one that died, so a client that holds it is let in again - unless the
\* last one removed its file, as a clean exit does, or died writing it.
TokenOutlives == \A d \in Daemons : StepOf(d) \in {"bound", "serving"} => lastToken \in {0, daemons[d].token}

\* When --stop says that nothing runs any more, the daemon it was to stop has
\* let go of everything: the next start is not refused on its account.
StoppedIsStopped ==
    tool.said = "stopped" => \A d \in tool.before : StepOf(d) = "gone"

\* "A crashed daemon never blocks the next start": a window that had to spawn
\* one finds it serving, whatever a dead one left, as long as nobody stops or
\* kills it and it meets neither a probe nor a daemon on its way out.
StartIsNotBlocked ==
    \A w \in Windows : WindowAt(w, "waiting") ~> (\E d \in Daemons : StepOf(d) = "serving") \/ disturbed
===============================================================================
