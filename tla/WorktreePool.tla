----------------------------- MODULE WorktreePool -----------------------------
(***************************************************************************)
(* One project's pool of git worktrees: dispatch.start leases a slot for a *)
(* card and launches an agent in it, dispatch.cancel kills the card's      *)
(* agents and returns its slots, session.resume launches an agent again    *)
(* where an earlier one ran.  A request is a handler that makes several    *)
(* store calls, each under the store's lock, and git commands in between;  *)
(* handlers interleave.  Rows and directories survive the daemon, handlers *)
(* and agents do not.                                                      *)
(*                                                                         *)
(* Source: crates/dflow-core/src/worktree.rs, store/worktrees.rs,          *)
(* crates/dflowd/src/api.rs (dispatch_start, dispatch_cancel,              *)
(* session_resume).                                                        *)
(***************************************************************************)
EXTENDS Naturals, FiniteSets

CONSTANTS
    Cards,
    Handlers,       \* the daemon's request handlers
    Strategies,     \* the recipes' worktree strategies: where a lease starts
    Resumable,      \* cards whose harness reported a session id to resume
    MaxSlots,       \* bound: slots of the pool
    MaxDispatches,  \* bound: dispatches
    MaxCrashes,     \* bound: deaths of the daemon
    NoCard

ASSUME PoolAssumption ==
    /\ NoCard \notin Cards /\ Resumable \subseteq Cards
    /\ Strategies \subseteq {"find", "number"}
    /\ {MaxSlots, MaxDispatches, MaxCrashes} \subseteq Nat

VARIABLES
    row,         \* worktrees.lease_state of a slot, "none" before its row is inserted
    holder,      \* worktrees.leased_by_card
    dir,         \* slots whose directory exists
    edits,       \* cards with uncommitted changes in a slot
    commits,     \* cards with commits on a slot's HEAD that have not landed
    agents,      \* cards with an agent running in a slot
    sessions,    \* the session rows: a card and the slot its agent ran in
    asked,       \* slots whose worktree_dirty item was raised in Needs You
    lost,        \* cards with work that a return discarded
    call,        \* the handlers
    dispatches,  \* counts dispatches against MaxDispatches
    crashes      \* counts crashes against MaxCrashes

rowVars   == <<row, holder>>
treeVars  == <<dir, edits, commits, lost>>
agentVars == <<agents, sessions>>
vars == <<rowVars, treeVars, agentVars, asked, call, dispatches, crashes>>

Slots == 0 .. MaxSlots - 1

Idle == [pc |-> "idle"]

CallStates ==
    {Idle}
    \union [pc : {"find", "number", "kill", "list"}, card : Cards]
    \union [pc : {"claim", "retire", "add", "insert", "spawn"}, card : Cards, slot : Slots]
    \union [pc : {"return"}, card : Cards, todo : SUBSET Slots]
    \union [pc : {"park", "ask", "reset", "free"}, card : Cards, todo : SUBSET Slots,
            slot : Slots, by : Cards \union {NoCard}]

TypeOK ==
    /\ row \in [Slots -> {"none", "available", "leased", "dirty", "retired"}]
    /\ holder \in [Slots -> Cards \union {NoCard}]
    /\ dir \subseteq Slots /\ asked \subseteq Slots /\ lost \subseteq Cards
    /\ edits \in [Slots -> SUBSET Cards]
    /\ commits \in [Slots -> SUBSET Cards]
    /\ agents \in [Slots -> SUBSET Cards]
    /\ sessions \subseteq Cards \X Slots
    /\ call \in [Handlers -> CallStates]
    /\ dispatches \in 0 .. MaxDispatches /\ crashes \in 0 .. MaxCrashes

Init ==
    /\ row = [s \in Slots |-> "none"] /\ holder = [s \in Slots |-> NoCard]
    /\ dir = {} /\ asked = {} /\ lost = {} /\ sessions = {}
    /\ edits = [s \in Slots |-> {}] /\ commits = [s \in Slots |-> {}]
    /\ agents = [s \in Slots |-> {}]
    /\ call = [h \in Handlers |-> Idle]
    /\ dispatches = 0 /\ crashes = 0

Available == {s \in Slots : row[s] = "available"}
Lowest(S) == CHOOSE s \in S : \A t \in S : s <= t
Rows      == {s \in Slots : row[s] # "none"}

\* A slip for NextSlot: the number of rows in use.
CountsSlots == Cardinality({s \in Slots : row[s] \notin {"none", "retired"}})

\* next_worktree_slot: max(slot) + 1, retired rows included.
NextSlot == IF Rows = {} THEN 0 ELSE 1 + CHOOSE s \in Rows : \A t \in Rows : t <= s

Unlanded(s) == edits[s] # {} \/ commits[s] # {}

Goto(h, place) == call' = [call EXCEPT ![h].pc = place]
Finish(h)      == call' = [call EXCEPT ![h] = Idle]

-----------------------------------------------------------------------------
(* Slips, put in place of the definition they are named after.              *)

\* find_available_worktree forgets the lease state of parked rows.
FindsParked(h) ==
    /\ call[h].pc = "find"
    /\ LET S == {s \in Slots : row[s] \in {"available", "dirty"}} IN
       call' = [call EXCEPT ![h] =
          IF S = {} THEN [pc |-> "number", card |-> call[h].card]
          ELSE [pc |-> IF Lowest(S) \in dir THEN "claim" ELSE "retire",
                card |-> call[h].card, slot |-> Lowest(S)]]
    /\ UNCHANGED <<rowVars, treeVars, agentVars, asked, dispatches, crashes>>

\* A cancel returns the slots and leaves the agents.
KillsNobody(h) ==
    /\ call[h].pc = "kill"
    /\ Goto(h, "list")
    /\ UNCHANGED <<rowVars, treeVars, agentVars, asked, dispatches, crashes>>

\* The inspection asks git for commits, or for changes, and not for both.
Inspects(h, found(_)) ==
    /\ call[h].pc = "return" /\ call[h].todo # {}
    /\ LET s == Lowest(call[h].todo) IN
       call' = [call EXCEPT ![h] =
          [pc |-> IF found(s) \/ s \notin dir THEN "park" ELSE "reset",
           card |-> call[h].card, todo |-> call[h].todo \ {s}, slot |-> s, by |-> holder[s]]]
    /\ UNCHANGED <<rowVars, treeVars, agentVars, asked, dispatches, crashes>>
InspectsCommits(h) == LET found(s) == commits[s] # {} IN Inspects(h, found)

\* The handler keeps the slot it is done with.
KeepsSlot(h) ==
    /\ call[h].pc = "free"
    /\ row' = [row EXCEPT ![call[h].slot] = "available"]
    /\ holder' = [holder EXCEPT ![call[h].slot] = NoCard]
    /\ Goto(h, "return")
    /\ UNCHANGED <<treeVars, agentVars, asked, dispatches, crashes>>

-----------------------------------------------------------------------------
(* dispatch.start: the lease.                                               *)

\* The pooled strategy looks for a warm slot ("find"), the fresh one makes a new
\* one ("number").
Dispatch(h, c) ==
    /\ call[h].pc = "idle" /\ dispatches < MaxDispatches
    /\ dispatches' = dispatches + 1
    /\ \E strategy \in Strategies : call' = [call EXCEPT ![h] = [pc |-> strategy, card |-> c]]
    /\ UNCHANGED <<rowVars, treeVars, agentVars, asked, crashes>>

\* find_available_worktree, and the test that its directory is still there.
LeaseFinds(h) ==
    /\ call[h].pc = "find"
    /\ call' = [call EXCEPT ![h] =
          IF Available = {} THEN [pc |-> "number", card |-> call[h].card]
          ELSE [pc |-> IF Lowest(Available) \in dir THEN "claim" ELSE "retire",
                card |-> call[h].card, slot |-> Lowest(Available)]]
    /\ UNCHANGED <<rowVars, treeVars, agentVars, asked, dispatches, crashes>>

LeaseClaims(h) ==
    /\ call[h].pc = "claim"
    /\ row' = [row EXCEPT ![call[h].slot] = "leased"]
    /\ holder' = [holder EXCEPT ![call[h].slot] = call[h].card]
    /\ Goto(h, "spawn")
    /\ UNCHANGED <<treeVars, agentVars, asked, dispatches, crashes>>

LeaseRetires(h) ==
    /\ call[h].pc = "retire"
    /\ row' = [row EXCEPT ![call[h].slot] = "retired"]
    /\ holder' = [holder EXCEPT ![call[h].slot] = NoCard]
    /\ call' = [call EXCEPT ![h] = [pc |-> "number", card |-> call[h].card]]
    /\ UNCHANGED <<treeVars, agentVars, asked, dispatches, crashes>>

\* A new slot takes the next number ...
LeaseNumbers(h) ==
    /\ call[h].pc = "number" /\ NextSlot < MaxSlots
    /\ call' = [call EXCEPT ![h] = [pc |-> "add", card |-> call[h].card, slot |-> NextSlot]]
    /\ UNCHANGED <<rowVars, treeVars, agentVars, asked, dispatches, crashes>>

\* ... `git worktree add` makes its directory, or fails if there is one ...
GitAdds(h) ==
    /\ call[h].pc = "add"
    /\ IF call[h].slot \in dir
       THEN Finish(h) /\ UNCHANGED dir
       ELSE Goto(h, "insert") /\ dir' = dir \union {call[h].slot}
    /\ UNCHANGED <<rowVars, edits, commits, lost, agentVars, asked, dispatches, crashes>>

\* ... and its row is inserted.
LeaseInserts(h) ==
    /\ call[h].pc = "insert"
    /\ row' = [row EXCEPT ![call[h].slot] = "leased"]
    /\ holder' = [holder EXCEPT ![call[h].slot] = call[h].card]
    /\ Goto(h, "spawn")
    /\ UNCHANGED <<treeVars, agentVars, asked, dispatches, crashes>>

Launch(c, s) ==
    /\ agents' = [agents EXCEPT ![s] = @ \union {c}]
    /\ sessions' = sessions \union {<<c, s>>}

Spawn(h) ==
    /\ call[h].pc = "spawn"
    /\ Launch(call[h].card, call[h].slot)
    /\ Finish(h)
    /\ UNCHANGED <<rowVars, treeVars, asked, dispatches, crashes>>

\* The vault, a required service or the harness fails: the lease stays.
SpawnFails(h) ==
    /\ call[h].pc = "spawn"
    /\ Finish(h)
    /\ UNCHANGED <<rowVars, treeVars, agentVars, asked, dispatches, crashes>>

-----------------------------------------------------------------------------
(* dispatch.cancel: the return.                                             *)

Cancel(h, c) ==
    /\ call[h].pc = "idle"
    /\ call' = [call EXCEPT ![h] = [pc |-> "kill", card |-> c]]
    /\ UNCHANGED <<rowVars, treeVars, agentVars, asked, dispatches, crashes>>

\* The card's live sessions first, wherever they run ...
CancelKills(h) ==
    /\ call[h].pc = "kill"
    /\ agents' = [s \in Slots |-> agents[s] \ {call[h].card}]
    /\ Goto(h, "list")
    /\ UNCHANGED <<rowVars, treeVars, sessions, asked, dispatches, crashes>>

\* ... then every slot the card holds under a lease.
CancelLists(h) ==
    /\ call[h].pc = "list"
    /\ call' = [call EXCEPT ![h] =
          [pc |-> "return", card |-> call[h].card,
           todo |-> {s \in Slots : row[s] = "leased" /\ holder[s] = call[h].card}]]
    /\ UNCHANGED <<rowVars, treeVars, agentVars, asked, dispatches, crashes>>

Return(h, todo) == [pc |-> "return", card |-> call[h].card, todo |-> todo]

CancelDone(h) ==
    /\ call[h].pc = "return" /\ call[h].todo = {}
    /\ Finish(h)
    /\ UNCHANGED <<rowVars, treeVars, agentVars, asked, dispatches, crashes>>

\* release: reads the row, and asks git for work that has not landed.  A slot
\* git cannot look into counts as one with work.
ReleaseInspects(h) ==
    /\ call[h].pc = "return" /\ call[h].todo # {}
    /\ LET s == Lowest(call[h].todo) IN
       call' = [call EXCEPT ![h] =
          [pc |-> IF Unlanded(s) \/ s \notin dir THEN "park" ELSE "reset",
           card |-> call[h].card, todo |-> call[h].todo \ {s}, slot |-> s, by |-> holder[s]]]
    /\ UNCHANGED <<rowVars, treeVars, agentVars, asked, dispatches, crashes>>

ReleaseParks(h) ==
    /\ call[h].pc = "park"
    /\ row' = [row EXCEPT ![call[h].slot] = "dirty"]
    /\ holder' = [holder EXCEPT ![call[h].slot] = call[h].by]
    /\ IF call[h].by # NoCard THEN Goto(h, "ask")
       ELSE call' = [call EXCEPT ![h] = Return(h, call[h].todo)]
    /\ UNCHANGED <<treeVars, agentVars, asked, dispatches, crashes>>

ReleaseAsks(h) ==
    /\ call[h].pc = "ask"
    /\ asked' = asked \union {call[h].slot}
    /\ call' = [call EXCEPT ![h] = Return(h, call[h].todo)]
    /\ UNCHANGED <<rowVars, treeVars, agentVars, dispatches, crashes>>

\* `git reset --hard` and `git clean -fd` discard what is not committed; a git
\* command that fails leaves this slot and the rest of the list under lease.
ReleaseResets(h) ==
    /\ call[h].pc = "reset"
    /\ \/ /\ edits' = [edits EXCEPT ![call[h].slot] = {}]
          /\ lost' = lost \union edits[call[h].slot]
          /\ Goto(h, "free")
       \/ Finish(h) /\ UNCHANGED <<edits, lost>>
    /\ UNCHANGED <<rowVars, dir, commits, agentVars, asked, dispatches, crashes>>

ReleaseFrees(h) ==
    /\ call[h].pc = "free"
    /\ row' = [row EXCEPT ![call[h].slot] = "available"]
    /\ holder' = [holder EXCEPT ![call[h].slot] = NoCard]
    /\ call' = [call EXCEPT ![h] = Return(h, call[h].todo)]
    /\ UNCHANGED <<treeVars, agentVars, asked, dispatches, crashes>>

Leasing(h) ==
    \/ LeaseFinds(h) \/ LeaseClaims(h) \/ LeaseRetires(h)
    \/ LeaseNumbers(h) \/ GitAdds(h) \/ LeaseInserts(h) \/ Spawn(h) \/ SpawnFails(h)

Returning(h) ==
    \/ CancelKills(h) \/ CancelLists(h) \/ CancelDone(h)
    \/ ReleaseInspects(h) \/ ReleaseParks(h) \/ ReleaseAsks(h)
    \/ ReleaseResets(h) \/ ReleaseFrees(h)

-----------------------------------------------------------------------------
(* Agents, the human and the daemon's end.                                  *)

AgentEdits(s, c) ==
    /\ c \in agents[s] /\ s \in dir
    /\ edits' = [edits EXCEPT ![s] = @ \union {c}]
    /\ UNCHANGED <<rowVars, dir, commits, lost, agentVars, asked, call, dispatches, crashes>>

\* A commit takes everything in the checkout.
AgentCommits(s) ==
    /\ agents[s] # {} /\ s \in dir
    /\ commits' = [commits EXCEPT ![s] = @ \union edits[s]]
    /\ edits' = [edits EXCEPT ![s] = {}]
    /\ UNCHANGED <<rowVars, dir, lost, agentVars, asked, call, dispatches, crashes>>

\* HEAD reaches a remote or the default branch.
Lands(s) ==
    /\ commits[s] # {}
    /\ commits' = [commits EXCEPT ![s] = {}]
    /\ UNCHANGED <<rowVars, dir, edits, lost, agentVars, asked, call, dispatches, crashes>>

AgentExits(s, c) ==
    /\ c \in agents[s]
    /\ agents' = [agents EXCEPT ![s] = @ \ {c}]
    /\ UNCHANGED <<rowVars, treeVars, sessions, asked, call, dispatches, crashes>>

\* session.resume goes back to the slot on the session's row.
Resume(c, s) ==
    /\ c \in Resumable /\ <<c, s>> \in sessions /\ s \in dir
    /\ Launch(c, s)
    /\ UNCHANGED <<rowVars, treeVars, asked, call, dispatches, crashes>>

\* "manual cleanup?": somebody removes the directory of a slot nobody uses.
DirectoryGoes(s) ==
    /\ row[s] = "available" /\ s \in dir /\ ~ Unlanded(s)
    /\ dir' = dir \ {s}
    /\ UNCHANGED <<rowVars, edits, commits, lost, agentVars, asked, call, dispatches, crashes>>

\* The daemon dies, and every agent with it.
Crash ==
    /\ crashes < MaxCrashes
    /\ crashes' = crashes + 1
    /\ call' = [h \in Handlers |-> Idle]
    /\ agents' = [s \in Slots |-> {}]
    /\ UNCHANGED <<rowVars, treeVars, sessions, asked, dispatches>>

Next ==
    \/ Crash
    \/ \E h \in Handlers :
         \/ Leasing(h) \/ Returning(h)
         \/ \E c \in Cards : Dispatch(h, c) \/ Cancel(h, c)
    \/ \E s \in Slots :
         \/ AgentCommits(s) \/ Lands(s) \/ DirectoryGoes(s)
         \/ \E c \in Cards : AgentEdits(s, c) \/ AgentExits(s, c) \/ Resume(c, s)

Spec == Init /\ [][Next]_vars

-----------------------------------------------------------------------------
(* Properties.                                                              *)

\* "Only the worktree lease stays exclusive: one card owns a given checkout at
\* a time": no two cards' agents run in one checkout.
OneOwner == \A s \in Slots : \A c, d \in agents[s] : c = d

\* "so work is never silently discarded"
NothingDiscarded == lost = {}

\* A checkout with unlanded work is under lease or parked, and for the card
\* whose work it is: nobody is given it, and its return can still be refused.
WorkIsHeld ==
    \A s \in Slots : \A c \in edits[s] \union commits[s] :
        row[s] \in {"leased", "dirty"} /\ holder[s] = c

\* "an `interrupted` session holds its lease until resumed or explicitly
\* discarded": an agent runs only where its card holds the lease.
AgentsHoldLease ==
    \A s \in Slots : \A c \in agents[s] : row[s] = "leased" /\ holder[s] = c

\* "Dirty or ambiguous worktrees park as `dirty` with a Needs You item", or with
\* a handler on its way to raise it; a daemon that dies there leaves a parked
\* slot nobody is asked about, and nothing raises the item later.
ParkedIsAsked ==
    crashes = 0 => \A s \in Slots : row[s] = "dirty" =>
        s \in asked \/ \E h \in Handlers : call[h].pc = "ask" /\ call[h].slot = s

\* "pick a clean pooled worktree or create one": when no request is under way,
\* the directory the next new slot needs does not exist, so it can be created.
\* A daemon that dies between making a directory and inserting its row leaves one
\* in the way of every later new slot.
CanCreate == crashes = 0 /\ (\A h \in Handlers : call[h] = Idle) => NextSlot \notin dir

\* With one request at a time the pool keeps what it promises.
Promise == INSTANCE Leases WITH
    owner  <- [s \in Slots |-> IF row[s] \in {"leased", "dirty"} THEN holder[s] ELSE NoCard],
    parked <- {s \in Slots : row[s] = "dirty"},
    work   <- {s \in Slots : Unlanded(s)}
KeepsPromise == Promise!Spec
=============================================================================
