------------------------------ MODULE Provision ------------------------------
(***************************************************************************)
(* What a leased worktree is given and what is taken back: the files of    *)
(* the env vault (env/mod.rs), the local services (service.rs), and the    *)
(* return with its drift guard (api.rs).  One worktree and the dispatches, *)
(* cancels and vault edits around it, on connections of their own, with a  *)
(* daemon that may crash.  Which worktree a card gets, and what becomes of *)
(* its commits, is WorktreePool's.                                         *)
(*                                                                         *)
(* The targets are paths git ignores, as env files are: a release's clean  *)
(* leaves them where they are.                                             *)
(***************************************************************************)
EXTENDS Integers, FiniteSets

CONSTANTS
    EnvKeys,      \* keys of file entries, in the vault's order: 1, 2, ...
    Targets,      \* paths in the worktree
    Services,     \* per_worktree services, in order: 1, 2, ...
    Required,     \* those that are required
    MaxVaultEdits, \* bound: entries set or deleted, and files the agent changes
    MaxTroubles    \* bound: crashes, and files that cannot be shredded

ASSUME ProvisionAssumption ==
    /\ EnvKeys = 1 .. Cardinality(EnvKeys) /\ Services = 1 .. Cardinality(Services)
    /\ IsFiniteSet(EnvKeys \cup Services) /\ IsFiniteSet(Targets)
    /\ Required \subseteq Services /\ "none" \notin Targets
    /\ {MaxVaultEdits, MaxTroubles} \subseteq Nat

NoEntry == [target |-> "none", value |-> 0]
NotThere  == 0
Edited  == -1    \* what the agent writes; a vault's value is its number

VARIABLES
    vault,      \* file entries of the project
    vaultEdits, \* how often it was edited
    disk,       \* the worktree's env files
    leased,     \* the worktree's lease
    services,   \* ServiceManager.running of the worktree
    agent,      \* the card's session runs in the worktree
    dispatch,   \* where dispatch.start is, and what it holds
    cancel,     \* where dispatch.cancel is, and the paths it has to shred
    driftTold,  \* targets an env_drift item was raised for under this lease
    parked,     \* the card has a service_failed item
    troubles,
    stray,      \* targets whose entry left them while their file lay there
    changed,    \* targets whose vault value is not the one that was written
    crossed     \* a dispatch and a cancel of the card overlapped

provVars == << vault, vaultEdits, disk, leased, services, agent, dispatch, cancel, driftTold, parked,
               troubles, stray, changed, crossed >>
envVars  == << vault, vaultEdits, disk, stray, changed >>
jobVars  == << leased, services, agent, parked, crossed >>

NoDispatch == [at |-> "idle", left |-> {}, snapshot |-> << >>, up |-> {}, failed |-> {}]
NoCancel   == [at |-> "idle", left |-> {}]

ProvInit ==
    /\ vault = [k \in EnvKeys |-> NoEntry] /\ vaultEdits = 0
    /\ disk = [t \in Targets |-> NotThere]
    /\ leased = FALSE /\ services = {} /\ agent = FALSE
    /\ dispatch = NoDispatch /\ cancel = NoCancel
    /\ driftTold = {} /\ parked = FALSE /\ troubles = 0 /\ stray = {} /\ changed = {} /\ crossed = FALSE

-----------------------------------------------------------------------------
(* The vault.                                                              *)

TargetsOf(v) == {v[k].target : k \in EnvKeys} \ {"none"}

\* What an edit makes of the files that lie in the worktree.
Lay(v) ==
    /\ vault' = v /\ vaultEdits' = vaultEdits + 1
    /\ stray' = stray \cup {t \in Targets : disk[t] # NotThere /\ t \in TargetsOf(vault) \ TargetsOf(v)}
    /\ changed' = changed \cup {t \in Targets : disk[t] # NotThere /\
                      \E k \in EnvKeys : v[k] # vault[k] /\ t \in {v[k].target, vault[k].target}}

\* env.set of a file entry: a new value, at this target.
SetEntry(k, t) ==
    /\ vaultEdits < MaxVaultEdits
    /\ Lay([vault EXCEPT ![k] = [target |-> t, value |-> vaultEdits + 1]])
    /\ UNCHANGED << disk, jobVars, dispatch, cancel, driftTold, troubles >>

\* env.delete.
DeleteEntry(k) ==
    /\ vaultEdits < MaxVaultEdits /\ vault[k] # NoEntry
    /\ Lay([vault EXCEPT ![k] = NoEntry])
    /\ UNCHANGED << disk, jobVars, dispatch, cancel, driftTold, troubles >>

-----------------------------------------------------------------------------
(* dispatch.start, from the lease to the session.                          *)

InDispatch(step) == dispatch.at = step

\* The lease; then the vault is read once (materialize).
Lease ==
    /\ InDispatch("idle") /\ ~leased
    /\ leased' = TRUE /\ crossed' = FALSE /\ driftTold' = {}
    /\ dispatch' = [NoDispatch EXCEPT !.at = "files"]
    /\ UNCHANGED << envVars, services, agent, cancel, parked, troubles >>

ReadVault ==
    /\ InDispatch("files") /\ dispatch.snapshot = << >>
    /\ dispatch' = [dispatch EXCEPT !.snapshot = << vault >>,
                                    !.left = {k \in EnvKeys : vault[k] # NoEntry}]
    /\ UNCHANGED << envVars, jobVars, cancel, driftTold, troubles >>

Least(S) == CHOOSE x \in S : \A y \in S : x <= y

\* One file entry is written, whatever was there.
WriteEnvFile ==
    /\ InDispatch("files") /\ dispatch.left # {}
    /\ LET k == Least(dispatch.left)
           e == dispatch.snapshot[1][k]
       IN  /\ disk' = [disk EXCEPT ![e.target] = e.value]
           /\ stray' = IF e.target \in TargetsOf(vault) THEN stray \ {e.target} ELSE stray \cup {e.target}
           /\ changed' = IF \E j \in EnvKeys : vault[j].target = e.target /\ vault[j] # e
                         THEN changed \cup {e.target} ELSE changed \ {e.target}
           /\ dispatch' = [dispatch EXCEPT !.left = @ \ {k}]
    /\ UNCHANGED << vault, vaultEdits, jobVars, cancel, driftTold, troubles >>

FilesWritten ==
    /\ InDispatch("files") /\ dispatch.snapshot # << >> /\ dispatch.left = {}
    /\ dispatch' = [dispatch EXCEPT !.at = "services", !.left = Services]
    /\ UNCHANGED << envVars, jobVars, cancel, driftTold, troubles >>

\* start_worktree: one service after the other is spawned and found alive, or
\* not.
StartService ==
    /\ InDispatch("services") /\ dispatch.left # {}
    /\ LET s == Least(dispatch.left)
       IN  \/ dispatch' = [dispatch EXCEPT !.left = @ \ {s}, !.up = @ \cup {s}]
           \/ dispatch' = [dispatch EXCEPT !.left = @ \ {s}, !.failed = @ \cup {s}]
    /\ UNCHANGED << envVars, jobVars, cancel, driftTold, troubles >>

\* Those that run are kept under the worktree.  A required one that failed
\* stops them all and parks the card.
ServicesStarted ==
    /\ InDispatch("services") /\ dispatch.left = {}
    /\ IF dispatch.failed \cap Required # {}
       THEN /\ services' = {} /\ parked' = TRUE
            /\ dispatch' = NoDispatch
       ELSE /\ services' = services \cup dispatch.up
            /\ dispatch' = [dispatch EXCEPT !.at = "launch"]
            /\ UNCHANGED parked
    /\ UNCHANGED << envVars, leased, agent, crossed, cancel, driftTold, troubles >>

\* The session is created; or it is not, and the lease stays with the card.
Launch ==
    /\ InDispatch("launch")
    /\ dispatch' = NoDispatch
    /\ \/ agent' = TRUE
       \/ UNCHANGED agent
    /\ UNCHANGED << envVars, leased, services, parked, crossed, cancel, driftTold, troubles >>

-----------------------------------------------------------------------------
(* The agent.                                                              *)

AgentEdits(t) ==
    /\ agent /\ vaultEdits < MaxVaultEdits /\ disk[t] \notin {Edited}
    /\ vaultEdits' = vaultEdits + 1
    /\ \/ disk' = [disk EXCEPT ![t] = Edited] /\ t \in TargetsOf(vault)
       \/ disk' = [disk EXCEPT ![t] = NotThere] /\ disk[t] # NotThere
    /\ UNCHANGED << vault, stray, changed, jobVars, dispatch, cancel, driftTold, troubles >>

AgentEnds ==
    /\ agent /\ agent' = FALSE
    /\ UNCHANGED << envVars, leased, services, parked, crossed, dispatch, cancel, driftTold, troubles >>

-----------------------------------------------------------------------------
(* dispatch.cancel, one call at a time.                                    *)

InCancel(step) == cancel.at = step

\* Live sessions are killed; then the held worktrees are read.
KillSessions ==
    /\ InCancel("idle")
    /\ agent' = FALSE
    /\ crossed' = (crossed \/ dispatch.at # "idle")
    /\ cancel' = [NoCancel EXCEPT !.at = "held"]
    /\ UNCHANGED << envVars, leased, services, parked, dispatch, driftTold, troubles >>

FindHeld ==
    /\ InCancel("held")
    /\ cancel' = IF leased THEN [cancel EXCEPT !.at = "services"] ELSE NoCancel
    /\ crossed' = (crossed \/ dispatch.at # "idle" \/ agent)
    /\ UNCHANGED << envVars, leased, services, agent, parked, dispatch, driftTold, troubles >>

\* stop_worktree.
StopServices ==
    /\ InCancel("services")
    /\ services' = {}
    /\ cancel' = [cancel EXCEPT !.at = "drift"]
    /\ UNCHANGED << envVars, leased, agent, parked, crossed, dispatch, driftTold, troubles >>

\* detect_drift: the files that are not what the vault says.
Drifted ==
    {vault[k].target : k \in {k \in EnvKeys : /\ vault[k] # NoEntry
                                              /\ disk[vault[k].target] \notin {NotThere, vault[k].value}}}

\* A slip: what is to be shredded is looked up before the drift guard has run.
RaiseDriftLate ==
    /\ InCancel("drift")
    /\ cancel' = [cancel EXCEPT !.at = "shred", !.left = TargetsOf(vault)]
    /\ disk' = [t \in Targets |-> IF t \in TargetsOf(vault) THEN NotThere ELSE disk[t]]
    /\ driftTold' = driftTold \cup {t \in Drifted : disk'[t] # NotThere}
    /\ UNCHANGED << vault, vaultEdits, stray, changed, jobVars, dispatch, troubles >>

\* raise_env_drift; then cleanup looks up what to shred.
RaiseDrift ==
    /\ InCancel("drift")
    /\ driftTold' = driftTold \cup Drifted
    /\ cancel' = [cancel EXCEPT !.at = "paths"]
    /\ UNCHANGED << envVars, jobVars, dispatch, troubles >>

\* materialized_file_paths: from the vault as it is now, not from what was written.
FindPaths ==
    /\ InCancel("paths")
    /\ cancel' = [cancel EXCEPT !.at = "shred", !.left = TargetsOf(vault)]
    /\ UNCHANGED << envVars, jobVars, dispatch, driftTold, troubles >>

\* shred_file, for one path after the other.
Shred ==
    /\ InCancel("shred") /\ cancel.left # {}
    /\ \E t \in cancel.left :
         /\ disk' = [disk EXCEPT ![t] = NotThere]
         /\ cancel' = [cancel EXCEPT !.left = @ \ {t}]
         /\ stray' = stray \ {t} /\ changed' = changed \ {t}
    /\ UNCHANGED << vault, vaultEdits, jobVars, dispatch, driftTold, troubles >>

\* A file cannot be removed: it and the rest stay, and the return goes on.
ShredFails ==
    /\ InCancel("shred") /\ troubles < MaxTroubles
    /\ \E t \in cancel.left : disk[t] # NotThere
    /\ troubles' = troubles + 1
    /\ stray' = stray \cup {t \in cancel.left : disk[t] # NotThere}
    /\ cancel' = [cancel EXCEPT !.left = {}]
    /\ UNCHANGED << vault, vaultEdits, disk, changed, jobVars, dispatch, driftTold >>

\* release: the worktree re-enters the pool (or is held, if its work is not
\* landed, and leased again when that is settled).
Release ==
    /\ InCancel("shred") /\ cancel.left = {}
    /\ leased' = FALSE
    /\ cancel' = NoCancel
    /\ UNCHANGED << envVars, services, agent, parked, crossed, dispatch, driftTold, troubles >>

-----------------------------------------------------------------------------
(* The service_failed item is resolved; the daemon dies and comes back.    *)

Settle ==
    /\ parked /\ parked' = FALSE
    /\ UNCHANGED << envVars, leased, services, agent, crossed, dispatch, cancel, driftTold, troubles >>

\* Sessions and services die with the daemon's job; requests are forgotten.
CrashDaemon ==
    /\ troubles < MaxTroubles /\ troubles' = troubles + 1
    /\ services' = {} /\ agent' = FALSE
    /\ dispatch' = NoDispatch /\ cancel' = NoCancel
    /\ UNCHANGED << envVars, leased, parked, crossed, driftTold >>

Dispatching == Lease \/ ReadVault \/ WriteEnvFile \/ FilesWritten \/ StartService \/ ServicesStarted \/ Launch
Cancelling  == KillSessions \/ FindHeld \/ StopServices \/ RaiseDrift \/ FindPaths \/ Shred \/ Release

ProvNext ==
    \/ \E k \in EnvKeys : DeleteEntry(k) \/ \E t \in Targets : SetEntry(k, t)
    \/ Dispatching \/ Cancelling \/ ShredFails
    \/ AgentEnds \/ \E t \in Targets : AgentEdits(t)
    \/ Settle \/ CrashDaemon

ProvSpec == ProvInit /\ [][ProvNext]_provVars

-----------------------------------------------------------------------------
(* Properties.                                                             *)

\* The types of the variables.
ProvTypeOK ==
    /\ vault \in [EnvKeys -> {NoEntry} \cup [target : Targets, value : 1 .. MaxVaultEdits]]
    /\ vaultEdits \in 0 .. MaxVaultEdits /\ disk \in [Targets -> {Edited} \cup 0 .. MaxVaultEdits]
    /\ {leased, agent, parked, crossed} \subseteq BOOLEAN /\ services \subseteq Services
    /\ dispatch.at \in {"idle", "files", "services", "launch"}
    /\ dispatch.up \cup dispatch.failed \subseteq Services /\ dispatch.up \cap dispatch.failed = {}
    /\ cancel.at \in {"idle", "held", "services", "drift", "paths", "shred"}
    /\ driftTold \cup stray \cup changed \cup cancel.left \subseteq Targets

\* "shreds materialized secret files before the worktree re-enters the pool, so
\* a secret never rides a warm-cached checkout": a worktree in the pool has no
\* materialised file, whatever the agent made of it, whatever crashed and
\* however often it was leased - but for files whose entry was deleted or
\* retargeted while they lay there, which the return no longer finds, files it
\* failed to shred, and a dispatch that a cancel overlapped.
NothingRides == ~leased => crossed \/ \A t \in Targets : disk[t] # NotThere => t \in stray

\* "teardown diffs it against the vault and raises a Needs You item": a file the
\* agent edited is not shredded before the human was told, unless the vault was
\* edited under it.
DriftIsTold ==
    [][\A t \in Targets : disk[t] = Edited /\ disk'[t] = NotThere /\ ~agent =>
          t \in driftTold \/ t \in stray \cup changed \/ crossed]_provVars

\* Nothing runs in a worktree of the pool: neither its services nor its agent
\* outlive the lease, unless a cancel overlapped the dispatch.
NothingRuns == ~leased => crossed \/ (services = {} /\ ~agent)

\* "A required service that fails its process-alive health check parks the card
\* and aborts the dispatch before the agent launches": an agent is launched
\* after every required service was found alive.
NoAgentWithoutServices ==
    [][~agent /\ agent' => Required \cap dispatch.failed = {} /\ Required \subseteq dispatch.up]_provVars

\* What a lease is given it gives back: nothing rides and nothing runs on in the
\* pool, an agent's edit is told first, and no agent starts without its services.
ProvisionsKept == []NothingRides /\ []NothingRuns /\ DriftIsTold /\ NoAgentWithoutServices
===============================================================================
