------------------------------ MODULE GateEngine ------------------------------
(***************************************************************************)
(* The verification gate: gate.run opens a run and a thread takes it       *)
(* through checks, adversarial review, autofix and verdict in a worktree   *)
(* of the pool; finding.add, gate.resolve_finding, gate.ship, gate.merge   *)
(* and dispatch.cancel are requests that come in between.                  *)
(*                                                                         *)
(* Source: crates/dflowd/src/gate.rs, crates/dflow-core/src/store/gate.rs. *)
(*                                                                         *)
(* A commit is a number; 0 is the default branch.  The pool is here as far *)
(* as the gate meets it: a lease is one step (WorktreePool takes it apart),*)
(* and so are a dispatch and a cancel.                                     *)
(***************************************************************************)
EXTENDS Naturals, Sequences

CONSTANTS
    Cards,
    MaxSlots,     \* worktrees of the pool, numbered
    Strictness,   \* what recipes ask for: part of {"none", "checks_only", "full"}
    MaxRuns,      \* bound: gate runs, numbered in the order of their ids
    MaxCommits,   \* bound: commits that authors, fixers and reviewers make
    MaxFindings,  \* bound: findings the agents of one run file
    MaxShips,     \* bound: gate.ship and gate.merge requests
    MaxFaults,    \* bound: dispatch.cancel requests and crashes, together
    NoCard

ASSUME StrictnessAssumption == Strictness \subseteq {"none", "checks_only", "full"}
ASSUME BoundAssumption ==
    {MaxSlots, MaxRuns, MaxCommits, MaxFindings, MaxShips, MaxFaults} \subseteq Nat
ASSUME NoCardAssumption == NoCard \notin Cards

VARIABLES
    run,       \* the gate's runs, each a row, its pipeline thread and its agent
    row,       \* a slot's lease state
    holder,    \* the card a slot's row names
    recent,    \* slots by the time their row was last written, latest last
    tree,      \* the commit a slot's HEAD is at
    edits,     \* whose uncommitted work is in a slot
    author,    \* the slot a card's author works in
    made,      \* how many commits there are
    landed,    \* commits the default branch contains
    shipped,   \* what was merged or pushed: pairs of run and commit
    meddled,   \* commits a reviewer left behind
    lost,      \* authors whose uncommitted work the gate discarded
    asked,     \* runs with an open gate_finding item
    early,     \* runs a human resolved findings of before the pipeline asked
    crossed,   \* runs whose item was raised when a request was about to close it
    human,     \* the gate.resolve_finding under way
    shipper,   \* the gate.ship or gate.merge under way
    returned,  \* runs whose slot a ship returned, or began to
    stale,     \* such a run was shipped again
    counts     \* ships, cancels and crashes so far

slotVars  == <<row, holder, recent>>
treeVars  == <<tree, edits, made>>
shipVars  == <<landed, shipped, shipper, returned, stale>>
humanVars == <<asked, early, crossed, human>>
vars == <<run, slotVars, treeVars, author, shipVars, humanVars, meddled, lost, counts>>

Runs    == 1 .. MaxRuns
Commits == 0 .. MaxCommits
Slots   == 1 .. MaxSlots
NoSlot  == 0

Kinds    == {"mechanical", "intent"}
Findings == [kind : Kinds, open : BOOLEAN, fixed : BOOLEAN]

NoRow == [status |-> "none", card |-> NoCard, strict |-> "full", at |-> "off", slot |-> NoSlot,
          head |-> 0, base |-> 0, green |-> {}, findings |-> <<>>, fixing |-> {},
          noticed |-> 0, agent |-> "off", mail |-> "none", pr |-> FALSE]

Working  == {"checks", "review", "reviewing", "autofix", "fixing", "recheck", "mark", "verdict"}
Places   == Working \union {"off", "lease", "checkout", "pass", "fail", "escalate", "error",
                            "raise", "complain", "reset", "free", "done", "dead"}
Handlers == {"idle", "ci", "reset", "free", "park"}

RunStates ==
    [status : {"none", "running", "passed", "failed", "escalated"},
     card : Cards \union {NoCard}, strict : {"none", "checks_only", "full"}, at : Places,
     slot : Slots \union {NoSlot}, head : Commits, base : Commits, green : SUBSET Commits,
     findings : Seq(Findings), fixing : SUBSET Nat, noticed : Nat,
     agent : {"off", "reviewer", "fixer"}, mail : Kinds \union {"none"}, pr : BOOLEAN]

TypeOK ==
    /\ run \in [Runs -> RunStates]
    /\ \A r \in Runs :
         /\ run[r].fixing \subseteq DOMAIN run[r].findings
         /\ run[r].noticed <= Len(run[r].findings)
         /\ run[r].at \in Working => run[r].slot \in Slots
    /\ row \in [Slots -> {"available", "leased", "dirty"}]
    /\ holder \in [Slots -> Cards \union {NoCard}]
    /\ tree \in [Slots -> Commits] /\ edits \in [Slots -> Cards \union {NoCard}]
    /\ author \in [Cards -> Slots \union {NoSlot}] /\ made \in Commits
    /\ shipper \in [at : Handlers, run : Runs \union {0}]
    /\ human \in [at : {"idle", "count", "clear"}, run : Runs \union {0}]
    /\ counts \in [ships : Nat, cancels : Nat, crashes : Nat]

Init ==
    /\ run = [r \in Runs |-> NoRow]
    /\ row = [s \in Slots |-> "available"] /\ holder = [s \in Slots |-> NoCard]
    /\ recent = [s \in Slots |-> s]
    /\ tree = [s \in Slots |-> 0] /\ edits = [s \in Slots |-> NoCard] /\ made = 0
    /\ author = [c \in Cards |-> NoSlot]
    /\ landed = {0} /\ shipped = {} /\ meddled = {} /\ lost = {}
    /\ asked = {} /\ early = {} /\ crossed = {} /\ human = [at |-> "idle", run |-> 0]
    /\ shipper = [at |-> "idle", run |-> 0] /\ returned = {} /\ stale = FALSE
    /\ counts = [ships |-> 0, cancels |-> 0, crashes |-> 0]

Go(r, place) == run' = [run EXCEPT ![r].at = place]

\* set_worktree_lease, which stamps the row's updated_at.
SetLease(s, state, c) ==
    /\ row' = [row EXCEPT ![s] = state] /\ holder' = [holder EXCEPT ![s] = c]
    /\ recent' = Append(SelectSeq(recent, LAMBDA t : t # s), s)

OpenOf(r)  == {i \in 1 .. Len(run[r].findings) : run[r].findings[i].open}
Latest(c)  == {r \in Runs : run[r].card = c /\ \A q \in Runs : run[q].card = c => q <= r}
Free       == {s \in Slots : row[s] = "available"}
Lowest(S)  == CHOOSE s \in S : \A t \in S : s <= t

-----------------------------------------------------------------------------
(* Slips, put in place of the definition they are named after.              *)

\* Only a reviewer that ends by itself ends the review.
ReviewWaits(r) ==
    /\ run[r].at = "reviewing" /\ run[r].agent = "off"
    /\ Go(r, "autofix")
    /\ UNCHANGED <<slotVars, treeVars, author, shipVars, humanVars, meddled, lost, counts>>

\* The fixer's change is taken on trust.
FixSkipsRecheck(r) ==
    /\ run[r].at = "fixing"
    /\ run' = [run EXCEPT ![r].agent = "off",
          ![r].head = tree[run[r].slot],
          ![r].at = IF tree[run[r].slot] = run[r].base THEN "verdict" ELSE "mark"]
    /\ UNCHANGED <<slotVars, treeVars, author, shipVars, humanVars, meddled, lost, counts>>

\* A passed run returns its worktree too.
PassReturns(r) ==
    /\ run[r].at \in {"pass", "fail", "escalate", "error"}
    /\ run' = [run EXCEPT
          ![r].status = CASE run[r].at = "pass" -> "passed"
                          [] run[r].at = "escalate" -> "escalated"
                          [] OTHER -> "failed",
          ![r].at = CASE run[r].at = "error" -> "complain"
                      [] run[r].slot = NoSlot -> "done"
                      [] OTHER -> "raise"]
    /\ UNCHANGED <<slotVars, treeVars, author, shipVars, humanVars, meddled, lost, counts>>

-----------------------------------------------------------------------------
(* gate.run and the pipeline.                                               *)

\* The card's slot whose row was written last: meant to be the author's.
AuthoringHead(c) ==
    LET held == {i \in 1 .. Len(recent) : holder[recent[i]] = c}
    IN  {tree[s] : s \in {t \in Slots :
            \E i \in held : recent[i] = t /\ \A k \in held : k <= i}}

\* A recipe that asks for nothing is judged like any other.
NoneIsJudged(c) ==
    \E r \in Runs, strict \in Strictness, head \in AuthoringHead(c) :
        /\ run[r].status = "none" /\ \A q \in 1 .. r - 1 : run[q].status # "none"
        /\ run' = [run EXCEPT ![r] =
              [NoRow EXCEPT !.status = "running", !.card = c, !.strict = strict, !.head = head,
                            !.at = IF strict = "none" THEN "verdict" ELSE "lease"]]
        /\ UNCHANGED <<slotVars, treeVars, author, shipVars, humanVars, meddled, lost, counts>>

\* gate.run { card_id }, as the desktop sends it: without a head_sha.
GateRun(c) ==
    \E r \in Runs, strict \in Strictness, head \in AuthoringHead(c) :
        /\ run[r].status = "none" /\ \A q \in 1 .. r - 1 : run[q].status # "none"
        /\ run' = [run EXCEPT ![r] =
              [NoRow EXCEPT !.status = "running", !.card = c, !.strict = strict, !.head = head,
                            !.at = IF strict = "none" THEN "pass" ELSE "lease"]]
        /\ UNCHANGED <<slotVars, treeVars, author, shipVars, humanVars, meddled, lost, counts>>

Lease(r) ==
    /\ run[r].at = "lease" /\ Free # {}
    /\ SetLease(Lowest(Free), "leased", run[r].card)
    /\ run' = [run EXCEPT ![r].slot = Lowest(Free), ![r].at = "checkout"]
    /\ UNCHANGED <<treeVars, author, shipVars, humanVars, meddled, lost, counts>>

\* checkout_head: --force, reset --hard, clean -fd, then the env.
Checkout(r) ==
    /\ run[r].at = "checkout"
    /\ tree' = [tree EXCEPT ![run[r].slot] = run[r].head]
    /\ edits' = [edits EXCEPT ![run[r].slot] = NoCard]
    /\ lost' = lost \union ({edits[run[r].slot]} \ {NoCard})
    /\ Go(r, "checks")
    /\ UNCHANGED <<slotVars, made, author, shipVars, humanVars, meddled, counts>>

\* run_checks: a failed check is a blocker and intent finding of the run.
RunChecks(r, green, red) ==
    /\ \/ run' = [run EXCEPT ![r].green = @ \union {tree[run[r].slot]}, ![r].at = green]
       \/ run' = [run EXCEPT ![r].at = red,
              ![r].findings = Append(@, [kind |-> "intent", open |-> TRUE, fixed |-> FALSE])]
    /\ UNCHANGED <<slotVars, treeVars, author, shipVars, humanVars, meddled, lost, counts>>

Checks(r) ==
    /\ run[r].at = "checks"
    /\ RunChecks(r, IF run[r].strict = "checks_only" THEN "pass" ELSE "review", "fail")

\* spawn_gate_session: an agent runs in the gate's worktree, and has its brief.
Launched(x, role, place) == [x EXCEPT !.agent = role, !.at = place]

\* The reviewer starts, or its harness is the author's own.
Review(r) ==
    /\ run[r].at = "review"
    /\ \/ run' = [run EXCEPT ![r] = Launched(@, "reviewer", "reviewing")]
       \/ Go(r, "fail")
    /\ UNCHANGED <<slotVars, treeVars, author, shipVars, humanVars, meddled, lost, counts>>

\* It is over when the session is, or is killed at the deadline; a review that
\* was cut short counts like one that was not.
ReviewEnds(r) ==
    /\ run[r].at = "reviewing"
    /\ run' = [run EXCEPT ![r].agent = "off", ![r].at = "autofix"]
    /\ UNCHANGED <<slotVars, treeVars, author, shipVars, humanVars, meddled, lost, counts>>

Mechanical(r) == {i \in OpenOf(r) : run[r].findings[i].kind = "mechanical"}

Autofix(r) ==
    /\ run[r].at = "autofix"
    /\ IF Mechanical(r) = {} THEN Go(r, "verdict")
       ELSE run' = [run EXCEPT ![r] = Launched(
                [run[r] EXCEPT !.fixing = Mechanical(r), !.base = tree[run[r].slot]],
                "fixer", "fixing")]
    /\ UNCHANGED <<slotVars, treeVars, author, shipVars, humanVars, meddled, lost, counts>>

\* attribute_fixer_change: the fixer's change is the commit HEAD has moved to.
\* (Changes the fixer left uncommitted the gate commits for it.)
FixerChanged(r) == tree[run[r].slot] # run[r].base

\* Without a change nothing is claimed; with one the run has a new head.
FixEnds(r) ==
    /\ run[r].at = "fixing"
    /\ IF FixerChanged(r)
       THEN run' = [run EXCEPT ![r].agent = "off", ![r].at = "recheck",
                               ![r].head = tree[run[r].slot]]
       ELSE run' = [run EXCEPT ![r].agent = "off", ![r].at = "verdict"]
    /\ UNCHANGED <<slotVars, treeVars, author, shipVars, humanVars, meddled, lost, counts>>

Recheck(r) == run[r].at = "recheck" /\ RunChecks(r, "mark", "verdict")

\* Every finding the fixer was given, as far as it is still open.
Mark(r) ==
    /\ run[r].at = "mark"
    /\ run' = [run EXCEPT ![r].at = "verdict",
          ![r].findings = [i \in DOMAIN @ |->
              IF i \in run[r].fixing /\ @[i].open
              THEN [@[i] EXCEPT !.open = FALSE, !.fixed = TRUE] ELSE @[i]]]
    /\ UNCHANGED <<slotVars, treeVars, author, shipVars, humanVars, meddled, lost, counts>>

\* The findings are read here and the verdict is written in the next step.
Verdict(r) ==
    /\ run[r].at = "verdict"
    /\ run' = [run EXCEPT ![r].noticed = Len(run[r].findings),
                          ![r].at = IF OpenOf(r) = {} THEN "pass" ELSE "escalate"]
    /\ UNCHANGED <<slotVars, treeVars, author, shipVars, humanVars, meddled, lost, counts>>

\* Any of the steps that lease, check out, launch or ask git may fail.
Fails(r) ==
    /\ run[r].at \in {"lease", "checkout", "review", "autofix", "fixing"}
    /\ run' = [run EXCEPT ![r].at = "error", ![r].agent = "off"]
    /\ UNCHANGED <<slotVars, treeVars, author, shipVars, humanVars, meddled, lost, counts>>

\* finish_gate_run; a passed run keeps its worktree for the ship, and so does
\* one that ended in an error.
Conclude(r) ==
    /\ run[r].at \in {"pass", "fail", "escalate", "error"}
    /\ run' = [run EXCEPT
          ![r].status = CASE run[r].at = "pass" -> "passed"
                          [] run[r].at = "escalate" -> "escalated"
                          [] OTHER -> "failed",
          ![r].at = CASE run[r].at = "pass" -> "done"
                      [] run[r].at = "error" -> "complain"
                      [] OTHER -> "raise"]
    /\ UNCHANGED <<slotVars, treeVars, author, shipVars, humanVars, meddled, lost, counts>>

Raise(r) ==
    /\ run[r].at \in {"raise", "complain"}
    /\ asked' = asked \union {r}
    /\ crossed' = IF human.at = "clear" /\ human.run = r THEN crossed \union {r} ELSE crossed
    /\ Go(r, IF run[r].at = "raise" THEN "reset" ELSE "done")
    /\ UNCHANGED <<slotVars, treeVars, author, shipVars, early, human, meddled, lost, counts>>

\* checkout --force, reset --hard and clean -fd, whatever the slot is by now ...
Wipe(s) ==
    /\ tree' = [tree EXCEPT ![s] = 0] /\ edits' = [edits EXCEPT ![s] = NoCard]
    /\ lost' = lost \union ({edits[s]} \ {NoCard})

Resets(r) ==
    /\ run[r].at = "reset"
    /\ Wipe(run[r].slot)
    /\ Go(r, "free")
    /\ UNCHANGED <<slotVars, made, author, shipVars, humanVars, meddled, counts>>

\* ... and the row becomes available, whoever holds it.
Frees(r) ==
    /\ run[r].at = "free"
    /\ SetLease(run[r].slot, "available", NoCard)
    /\ Go(r, "done")
    /\ UNCHANGED <<treeVars, author, shipVars, humanVars, meddled, lost, counts>>

Pipeline(r) ==
    \/ Lease(r) \/ Checkout(r) \/ Checks(r) \/ Review(r) \/ ReviewEnds(r) \/ Autofix(r)
    \/ FixEnds(r) \/ Recheck(r) \/ Mark(r) \/ Verdict(r) \/ Fails(r) \/ Conclude(r)
    \/ Raise(r) \/ Resets(r) \/ Frees(r)

-----------------------------------------------------------------------------
(* The agents of a run.                                                     *)

AgentCommits(r) ==
    /\ run[r].agent # "off" /\ made < MaxCommits
    /\ made' = made + 1
    /\ tree' = [tree EXCEPT ![run[r].slot] = made + 1]
    /\ meddled' = IF run[r].agent = "reviewer" THEN meddled \union {made + 1} ELSE meddled
    /\ UNCHANGED <<run, slotVars, edits, author, shipVars, humanVars, lost, counts>>

\* The agent's own `dflow finding add` ...
AgentFiles(r) ==
    /\ run[r].agent # "off" /\ run[r].mail = "none"
    /\ Len(run[r].findings) < MaxFindings
    /\ \E k \in Kinds : run' = [run EXCEPT ![r].mail = k]
    /\ UNCHANGED <<slotVars, treeVars, author, shipVars, humanVars, meddled, lost, counts>>

\* ... reaches the daemon, which asks neither whether the session still lives
\* nor whether the run is over, or is refused with the token gone.
FindingAdd(r) ==
    /\ run[r].mail # "none"
    /\ \/ run' = [run EXCEPT ![r].mail = "none",
              ![r].findings = Append(@, [kind |-> run[r].mail, open |-> TRUE, fixed |-> FALSE])]
       \/ run[r].agent = "off" /\ run' = [run EXCEPT ![r].mail = "none"]
    /\ UNCHANGED <<slotVars, treeVars, author, shipVars, humanVars, meddled, lost, counts>>

-----------------------------------------------------------------------------
(* The human.                                                               *)

\* gate.resolve_finding: resolve, unless it is resolved, count what is open,
\* close the item.
ResolveFinding(r, i) ==
    /\ human.at = "idle"
    /\ run' = [run EXCEPT ![r].findings[i].open = FALSE]
    /\ early' = IF i \in OpenOf(r) /\ run[r].at \notin {"done", "reset", "free"}
                THEN early \union {r} ELSE early
    /\ human' = [at |-> "count", run |-> r]
    /\ UNCHANGED <<slotVars, treeVars, author, shipVars, asked, crossed, meddled, lost, counts>>

CountOpen ==
    /\ human.at = "count"
    /\ human' = [human EXCEPT !.at = IF OpenOf(human.run) = {} THEN "clear" ELSE "idle"]
    /\ UNCHANGED <<run, slotVars, treeVars, author, shipVars, asked, early, crossed, meddled, lost,
                   counts>>

ClearItem ==
    /\ human.at = "clear"
    /\ asked' = asked \ {human.run}
    /\ human' = [human EXCEPT !.at = "idle"]
    /\ UNCHANGED <<run, slotVars, treeVars, author, shipVars, early, crossed, meddled, lost, counts>>

\* gate.ship of the card's latest run, which has to be passed: fast-forward the
\* default branch to the run's head, or push what its worktree is at.  A ship
\* that git, gh or the recipe refuses changes nothing.
Ships(r) ==
    /\ shipper.at = "idle" /\ counts.ships < MaxShips /\ run[r].slot # NoSlot
    /\ counts' = [counts EXCEPT !.ships = @ + 1]
    /\ stale' = (stale \/ r \in returned)

ShipLocally(c) ==
    \E r \in Latest(c) :
        /\ Ships(r) /\ run[r].status = "passed"
        /\ landed' = landed \union {run[r].head} /\ shipped' = shipped \union {<<r, run[r].head>>}
        /\ shipper' = [at |-> "reset", run |-> r] /\ returned' = returned \union {r}
        /\ UNCHANGED <<run, slotVars, treeVars, author, humanVars, meddled, lost>>

\* The push may be all that happens, if gh then fails to open the PR.
ShipAsPr(c) ==
    \E r \in Latest(c) :
        /\ Ships(r) /\ run[r].status = "passed"
        /\ shipped' = shipped \union {<<r, tree[run[r].slot]>>}
        /\ \/ run' = [run EXCEPT ![r].pr = TRUE]
           \/ UNCHANGED run
        /\ UNCHANGED <<slotVars, treeVars, author, landed, shipper, returned, humanVars,
                       meddled, lost>>

\* gate.merge waits for the checks of the PR ...
Merge(c) ==
    \E r \in Latest(c) :
        /\ Ships(r) /\ run[r].pr
        /\ shipper' = [at |-> "ci", run |-> r]
        /\ UNCHANGED <<run, slotVars, treeVars, author, landed, shipped, returned, humanVars,
                       meddled, lost>>

\* ... and gives up when one fails or gh refuses; a check that is still pending at
\* the deadline, or that gh cannot tell, is none.  (The item of a failed check is
\* not the run's.)
MergeRefused ==
    /\ shipper.at = "ci"
    /\ shipper' = [shipper EXCEPT !.at = "idle"]
    /\ UNCHANGED <<run, slotVars, treeVars, author, landed, shipped, returned, stale, humanVars,
                   meddled, lost, counts>>

\* gh merges; prove_landed proves that it did, or cannot.
Merges ==
    /\ shipper.at = "ci"
    /\ returned' = returned \union {shipper.run}
    /\ \/ /\ landed' = landed \union {n \in Commits : <<shipper.run, n>> \in shipped}
          /\ shipper' = [shipper EXCEPT !.at = "reset"]
       \/ shipper' = [shipper EXCEPT !.at = "park"] /\ UNCHANGED landed
    /\ UNCHANGED <<run, slotVars, treeVars, author, shipped, stale, humanVars, meddled, lost, counts>>

ShipResets ==
    /\ shipper.at = "reset"
    /\ Wipe(run[shipper.run].slot)
    /\ shipper' = [shipper EXCEPT !.at = "free"]
    /\ UNCHANGED <<run, slotVars, made, author, landed, shipped, returned, stale, humanVars,
                   meddled, counts>>

ShipFrees ==
    /\ shipper.at = "free"
    /\ SetLease(run[shipper.run].slot, "available", NoCard)
    /\ shipper' = [shipper EXCEPT !.at = "idle"]
    /\ UNCHANGED <<run, treeVars, author, landed, shipped, returned, stale, humanVars, meddled,
                   lost, counts>>

ShipParks ==
    /\ shipper.at = "park"
    /\ SetLease(run[shipper.run].slot, "dirty", run[shipper.run].card)
    /\ shipper' = [shipper EXCEPT !.at = "idle"]
    /\ UNCHANGED <<run, treeVars, author, landed, shipped, returned, stale, humanVars, meddled,
                   lost, counts>>

-----------------------------------------------------------------------------
(* The rest of the daemon, as far as it shares the pool.                    *)

Dispatch(c) ==
    /\ author[c] = NoSlot /\ Free # {}
    /\ SetLease(Lowest(Free), "leased", c)
    /\ author' = [author EXCEPT ![c] = Lowest(Free)]
    /\ UNCHANGED <<run, treeVars, shipVars, humanVars, meddled, lost, counts>>

AuthorEdits(c) ==
    /\ author[c] # NoSlot
    /\ edits' = [edits EXCEPT ![author[c]] = c]
    /\ UNCHANGED <<run, slotVars, tree, made, author, shipVars, humanVars, meddled, lost, counts>>

AuthorCommits(c) ==
    /\ author[c] # NoSlot /\ made < MaxCommits
    /\ made' = made + 1
    /\ tree' = [tree EXCEPT ![author[c]] = made + 1]
    /\ edits' = [edits EXCEPT ![author[c]] = NoCard]
    /\ UNCHANGED <<run, slotVars, author, shipVars, humanVars, meddled, lost, counts>>

\* dispatch.cancel: the card's sessions die, gate sessions too, and every slot
\* leased to the card is returned, the gate's too, or parked with its work.
Cancel(c) ==
    LET mine == {s \in Slots : row[s] = "leased" /\ holder[s] = c}
        kept == {s \in mine : edits[s] # NoCard \/ tree[s] \notin landed}
    IN  /\ counts.cancels + counts.crashes < MaxFaults /\ mine # {}
        /\ counts' = [counts EXCEPT !.cancels = @ + 1]
        /\ author' = [author EXCEPT ![c] = NoSlot]
        /\ run' = [r \in Runs |-> IF run[r].card = c THEN [run[r] EXCEPT !.agent = "off"]
                                                     ELSE run[r]]
        /\ row' = [s \in Slots |-> IF s \in kept THEN "dirty"
                                   ELSE IF s \in mine THEN "available" ELSE row[s]]
        /\ holder' = [s \in Slots |-> IF s \in mine \ kept THEN NoCard ELSE holder[s]]
        /\ recent' = SelectSeq(recent, LAMBDA s : s \notin mine)
                         \o SelectSeq(recent, LAMBDA s : s \in mine)
        /\ tree' = [s \in Slots |-> IF s \in mine \ kept THEN 0 ELSE tree[s]]
        /\ UNCHANGED <<edits, made, shipVars, humanVars, meddled, lost>>

\* The daemon dies with its threads and agents; nothing looks after the runs.
Crash ==
    /\ counts.cancels + counts.crashes < MaxFaults
    /\ counts' = [counts EXCEPT !.crashes = @ + 1]
    /\ run' = [r \in Runs |-> [run[r] EXCEPT !.agent = "off", !.mail = "none",
                  !.at = IF @ \in {"off", "done"} THEN @ ELSE "dead"]]
    /\ author' = [c \in Cards |-> NoSlot]
    /\ human' = [at |-> "idle", run |-> 0] /\ shipper' = [at |-> "idle", run |-> 0]
    /\ UNCHANGED <<slotVars, treeVars, landed, shipped, returned, stale, asked, early, crossed,
                   meddled, lost>>

Next ==
    \/ Crash
    \/ \E r \in Runs :
         \/ Pipeline(r) \/ AgentCommits(r) \/ AgentFiles(r) \/ FindingAdd(r)
         \/ \E i \in 1 .. Len(run[r].findings) : ResolveFinding(r, i)
    \/ CountOpen \/ ClearItem \/ MergeRefused \/ Merges \/ ShipResets \/ ShipFrees \/ ShipParks
    \/ \E c \in Cards :
         \/ GateRun(c) \/ ShipLocally(c) \/ ShipAsPr(c) \/ Merge(c)
         \/ Dispatch(c) \/ AuthorEdits(c) \/ AuthorCommits(c) \/ Cancel(c)

Spec == Init /\ [][Next]_vars

\* A pipeline thread runs; it waits for agents no longer than the timeout.
Fairness == \A r \in Runs : WF_vars(Pipeline(r))

FairSpec == Spec /\ Fairness

-----------------------------------------------------------------------------
(* Properties.                                                              *)

\* A cancel under a running pipeline, and a ship of a run whose worktree an
\* earlier ship has returned, act on a worktree the run does not hold any more.
Undisturbed == counts.cancels = 0 /\ ~stale

\* "only when every check is green and every finding resolved": a passed run's
\* head is a commit whose checks were green in this run, the fixer's included,
\* and what the verdict saw of findings is resolved.  (A human who resolves the
\* finding of a failed re-check before the verdict lets the fixer's commit pass.)
PassedIsEarned ==
    \A r \in Runs :
        run[r].status = "passed" /\ run[r].strict # "none" /\ Undisturbed =>
            /\ run[r].head \in run[r].green \/ r \in early
            /\ \A i \in 1 .. run[r].noticed : ~run[r].findings[i].open

\* "branches earn their way out through the gate": what is merged or pushed for
\* a run was checked by that run, unless the reviewer left a commit behind or a
\* human resolved findings of the run while it was under way.
ShippedIsChecked ==
    Undisturbed =>
        \A p \in shipped : p[2] \in run[p[1]].green \union meddled \/ p[1] \in early

\* "a finding is marked `autofixed` only when the autofix earns the claim": the
\* fixer moved the head, and the checks are green on the head the run now has.
AutofixIsEarned ==
    \A r \in Runs : \A i \in 1 .. Len(run[r].findings) :
        run[r].findings[i].fixed /\ Undisturbed =>
            run[r].head # run[r].base /\ run[r].head \in run[r].green

\* "never the authoring worktree": from the checkout to the verdict a run has a
\* worktree to itself.
GateIsApart ==
    Undisturbed =>
        \A r \in Runs : run[r].at \in Working =>
            /\ row[run[r].slot] = "leased" /\ holder[run[r].slot] = run[r].card
            /\ \A c \in Cards : author[c] # run[r].slot
            /\ \A q \in Runs \ {r} : run[q].at \in Working => run[q].slot # run[r].slot

\* "nothing is ever auto-deleted": returning gate worktrees by force discards
\* no author's work.
NothingDiscarded == Undisturbed => lost = {}

\* "findings touching intent become Needs You items": a run that did not pass
\* has its item as long as a finding it noticed, or every finding it has, is
\* open.  (A request that counted no open finding before the last one was filed
\* closes the item the pipeline raised meanwhile.)
HumanIsAsked ==
    \A r \in Runs :
        /\ run[r].at = "done" /\ run[r].status \in {"escalated", "failed"} /\ r \notin crossed
        /\ \/ \E i \in 1 .. run[r].noticed : run[r].findings[i].open
           \/ \A i \in 1 .. Len(run[r].findings) : run[r].findings[i].open
        => r \in asked

\* What the gate says is so: of a verdict, of a finding it fixed or left to the
\* human, and of what it ships.
VerdictsAreEarned == PassedIsEarned /\ ShippedIsChecked /\ AutofixIsEarned /\ HumanIsAsked

\* Gate worktrees are the gate's own, and come and go at nobody's cost.
WorktreesAreKept == GateIsApart /\ NothingDiscarded

\* A run comes to a verdict, however long its agents take, unless the daemon
\* dies under it.
RunConcludes ==
    \A r \in Runs : run[r].status = "running" ~> run[r].status # "running" \/ run[r].at = "dead"

\* "The commit under test: an explicit head_sha, else the card's authoring
\* worktree HEAD."
GatesAuthorsWork ==
    [][\A r \in Runs :
          run[r].status = "none" /\ run'[r].status = "running" =>
              \A c \in Cards : run'[r].card = c /\ author[c] # NoSlot =>
                  run'[r].head = tree[author[c]]]_vars
==============================================================================
