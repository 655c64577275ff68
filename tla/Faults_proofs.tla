------------------------------ MODULE Faults_proofs ------------------------------
(******************************************************************************)
(* Proofs about the two components that MC_Faults lets fail, for every        *)
(* value of their constants.                                                  *)
(*                                                                            *)
(* The life of a session.  None of the properties is inductive.  IInv         *)
(* strengthens them by what the code relies on without saying so: a session   *)
(* is past its insert before any thread can end it; an actor on its way to    *)
(* the row found, or made, the child dead; and once the daemon that spawned   *)
(* a session is gone, nothing is left in the next one that could still        *)
(* write its row.                                                             *)
(*                                                                            *)
(* The review of plans.  Neither property is inductive.  BatchInv says where  *)
(* a batch may be between a submission's steps: its number is its own until   *)
(* it is stored, and what is queued or answered was stored.  ApprovalInv      *)
(* follows an approval from the row of the plan through the poll that read    *)
(* it to the answer that tells the agent.                                     *)
(******************************************************************************)
EXTENDS SessionLifecycle, ArtifactReview, TLAPS

-----------------------------------------------------------------------------
(* The life of a session.                                                    *)

\* Where spawning stands while no row exists.
Rowless == {"none", "pty", "failed", "gone"}

\* Nothing in the running daemon can act for s.
Quiet(s) ==
    /\ \A a \in Actors : pc[s][a] = "off"
    /\ ~tracked[s] /\ token[s] # "live"
    /\ request[s] = "none" /\ hook[s] = "none"
    /\ s \notin supTodo /\ supOn # s
    /\ child[s] # "running"

\* A session that was not spawned, or spawned by a daemon that is gone, is quiet.
QuietInv ==
    \A s \in Sessions :
        /\ spawn[s] \in {"none", "gone"} => Quiet(s)
        /\ phase = "down" \/ born[s] < life => spawn[s] \in {"none", "gone"}
        /\ tracked[s] => spawn[s] \in {"registered", "bound"}

\* The row exists before anything can finalize it.
RowInv ==
    \A s \in Sessions :
        /\ state[s] = "norow" =>
              /\ spawn[s] \in Rowless
              /\ child[s] = "running" => spawn[s] = "pty"
              /\ \A a \in Actors : pc[s][a] = "off"
        /\ spawn[s] = "none" => state[s] = "norow" /\ finals[s] = 0

\* The winner of the swap is alone, and the flag outlasts its write.
SwapInv ==
    \A s \in Sessions :
        /\ finals[s] <= 1
        /\ \A a \in Actors : pc[s][a] = "write" => finalized[s] /\ finals[s] = 0
        /\ \A a, b \in Actors : pc[s][a] = "write" /\ pc[s][b] = "write" => a = b
        /\ finals[s] = 1 /\ ~finalized[s] => spawn[s] = "gone"

\* Only the drain ends a session whose child may still run.
DeadInv ==
    \A s \in Sessions :
        /\ \A a \in Actors \ {"drain"} :
              pc[s][a] \in {"swap", "write"} => child[s] # "running"
        /\ pc[s]["drain"] # "off" => phase = "draining"
        /\ finals[s] = 1 => child[s] # "running" \/ phase = "draining"

\* An ended row carries its time of death, and reconciliation left no row of
\* an earlier life that has not ended.
EndedInv ==
    \A s \in Sessions :
        /\ state[s] \in Terminal => ended[s]
        /\ phase # "down" /\ spawn[s] = "gone" => state[s] \in Terminal \union {"norow"}

IInv == TypeOK /\ QuietInv /\ RowInv /\ SwapInv /\ DeadInv /\ EndedInv

-----------------------------------------------------------------------------

\* The three ways the agent, its hooks and the supervision loop write a row.
LEMMA RowWriteTypes ==
    ASSUME TypeOK, NEW s, NEW st \in Live \union Terminal,
           Raise(s, st) \/ Resolve(s, st) \/ SetState(s, st)
    PROVE  /\ state' \in [Sessions -> Live \union Terminal \union {"norow"}]
           /\ item' \in [Sessions -> {"none", "open", "resolved"}]
<1>1. state' = [state EXCEPT ![s] = st]
  BY DEF Raise, Resolve, SetState
<1>2. state \in [Sessions -> Live \union Terminal \union {"norow"}]
  BY DEF TypeOK
<1>3. \/ UNCHANGED item
      \/ \E i \in {"none", "open", "resolved"} : item' = [item EXCEPT ![s] = i]
  <2>1. item \in [Sessions -> {"none", "open", "resolved"}]
    BY DEF TypeOK
  <2> QED
    BY <2>1 DEF Raise, Resolve, SetState
<1>4. item \in [Sessions -> {"none", "open", "resolved"}]
  BY DEF TypeOK
<1> QED
  BY <1>1, <1>2, <1>3, <1>4

\* Every step keeps the types.
LEMMA TypeStep == TypeOK /\ [Next]_vars => TypeOK'
<1> SUFFICES ASSUME TypeOK, [Next]_vars PROVE TypeOK'
  OBVIOUS
<1> USE DEF TypeOK, Actors, Places, Terminal, Live, Reports, AllOff,
            daemonVars, spawnVars, treeVars, exitVars, signalVars, supVars, rowVars
<1>1. ASSUME NEW s \in Sessions, Environment(s)
      PROVE  TypeOK'
  <2>1. CASE ChildForks(s)
    BY <2>1 DEF ChildForks
  <2>2. CASE ChildExits(s)
    BY <2>2 DEF ChildExits
  <2>3. CASE DescendantExits(s)
    BY <2>3 DEF DescendantExits
  <2> QED
    BY <1>1, <2>1, <2>2, <2>3 DEF Environment
<1>2. ASSUME NEW s \in Sessions, Create(s)
      PROVE  TypeOK'
  <2>1. CASE SpawnPty(s)
    BY <2>1 DEF SpawnPty
  <2>2. CASE InsertRow(s)
    BY <2>2 DEF InsertRow
  <2>3. CASE InsertFails(s)
    BY <2>3 DEF InsertFails, TeardownTree
  <2>4. CASE StartReader(s)
    BY <2>4 DEF StartReader
  <2>5. CASE StartWatcher(s)
    BY <2>5 DEF StartWatcher
  <2>6. CASE ThreadFails(s)
    <3>1. CASE spawn[s] = "row"
      <4>1. /\ spawn' = [spawn EXCEPT ![s] = "failed"]
            /\ child' = [child EXCEPT ![s] = "exited"]
            /\ holder' = [holder EXCEPT ![s] = @ /\ ~guarded[s]]
            /\ alive' = [alive EXCEPT ![s] = FALSE]
        BY <3>1, <2>6 DEF ThreadFails, TeardownTree
      <4>2. /\ UNCHANGED <<born, tracked, guarded, daemonVars>>
            /\ UNCHANGED <<exitVars, signalVars, rowVars>>
        BY <2>6 DEF ThreadFails
      <4> QED
        BY <4>1, <4>2
    <3>2. CASE spawn[s] # "row"
      BY <3>2, <2>6 DEF ThreadFails, TeardownTree
    <3> QED
      BY <3>1, <3>2
  <2>7. CASE Register(s)
    BY <2>7 DEF Register
  <2>8. CASE BindTokens(s)
    BY <2>8 DEF BindTokens
  <2> QED
    BY <1>2, <2>1, <2>2, <2>3, <2>4, <2>5, <2>6, <2>7, <2>8 DEF Create
<1>3. ASSUME NEW s \in Sessions, Finish(s)
      PROVE  TypeOK'
  <2>1. CASE ReaderSeesEof(s)
    BY <2>1 DEF ReaderSeesEof, Goto
  <2>2. CASE WatcherSeesExit(s)
    BY <2>2 DEF WatcherSeesExit, Goto
  <2>3. CASE WatcherTearsDown(s)
    BY <2>3 DEF WatcherTearsDown, TeardownTree, Goto
  <2>4. CASE WatcherLeaves(s)
    BY <2>4 DEF WatcherLeaves, Goto
  <2>5. CASE KillerTearsDown(s)
    BY <2>5 DEF KillerTearsDown, TeardownTree, Goto
  <2>6. CASE DrainTearsDown(s)
    BY <2>6 DEF DrainTearsDown, TeardownTree, Goto
  <2>7. ASSUME NEW a \in Actors, FinalizeSwap(s, a) PROVE TypeOK'
    BY <2>7 DEF FinalizeSwap, Goto, After
  <2>8. ASSUME NEW a \in Actors, FinalizeWrite(s, a) PROVE TypeOK'
    <3>1. pc' \in [Sessions -> [Actors -> Places]]
      BY <2>8 DEF FinalizeWrite, Goto, After
    <3>2. \/ UNCHANGED <<state, ended, finals>>
          \/ /\ \E st \in Terminal : state' = [state EXCEPT ![s] = st]
             /\ ended' = [ended EXCEPT ![s] = TRUE]
             /\ finals' = [finals EXCEPT ![s] = @ + 1]
      BY <2>8 DEF FinalizeWrite
    <3>3. state' \in [Sessions -> Live \union Terminal \union {"norow"}]
      BY <3>2
    <3>4. ended' \in [Sessions -> BOOLEAN]
      BY <3>2
    <3>5. finals' \in [Sessions -> Nat]
      BY <3>2
    <3>6. UNCHANGED <<carded, item, finalized, daemonVars, spawnVars, treeVars, signalVars>>
      BY <2>8 DEF FinalizeWrite
    <3> QED
      BY <3>1, <3>3, <3>4, <3>5, <3>6
  <2>9. ASSUME NEW a \in Actors, FinalizeFails(s, a) PROVE TypeOK'
    BY <2>9 DEF FinalizeFails, Goto, After
  <2> QED
    BY <1>3, <2>1, <2>2, <2>3, <2>4, <2>5, <2>6, <2>7, <2>8, <2>9 DEF Finish
<1>4. ASSUME NEW s \in Sessions, Kill(s)
      PROVE  TypeOK'
  BY <1>4 DEF Kill, Goto
<1>5. ASSUME NEW s \in Sessions, Agent(s)
      PROVE  TypeOK'
  <2>1. CASE AgentSends(s)
    BY <2>1 DEF AgentSends
  <2>2. CASE AgentReportsWorking(s)
    BY <2>2 DEF AgentReportsWorking, Resolve, Served
  <2>3. CASE AgentReportsBlocked(s)
    BY <2>3 DEF AgentReportsBlocked, Raise, Served
  <2>4. CASE AgentReportsDone(s)
    BY <2>4 DEF AgentReportsDone, Resolve, Served
  <2>5. CASE AgentLinksCard(s)
    BY <2>5 DEF AgentLinksCard, Served
  <2>6. CASE AgentParksPoll(s)
    BY <2>6 DEF AgentParksPoll, SetState, Served
  <2>7. CASE PollDelivers(s)
    BY <2>7 DEF PollDelivers, SetState, Served
  <2>8. CASE PollPends(s)
    BY <2>8 DEF PollPends, Served
  <2> QED
    BY <1>5, <2>1, <2>2, <2>3, <2>4, <2>5, <2>6, <2>7, <2>8 DEF Agent
<1>6. ASSUME NEW s \in Sessions, Hook(s)
      PROVE  TypeOK'
  <2>1. CASE HookReadsRow(s)
    BY <2>1 DEF HookReadsRow
  <2>2. CASE HookWritesRow(s)
    <3>1. \E st \in Live : Raise(s, st) \/ Resolve(s, st) \/ SetState(s, st)
      BY <2>2 DEF HookWritesRow
    <3>2. /\ state' \in [Sessions -> Live \union Terminal \union {"norow"}]
          /\ item' \in [Sessions -> {"none", "open", "resolved"}]
      BY <3>1, RowWriteTypes
    <3> QED
      BY <2>2, <3>2 DEF HookWritesRow
  <2> QED
    BY <1>6, <2>1, <2>2 DEF Hook
<1>7. ASSUME NEW s \in Sessions, UserResolves(s)
      PROVE  TypeOK'
  BY <1>7 DEF UserResolves
<1>8. ASSUME Supervisor
      PROVE  TypeOK'
  <2>1. CASE SupervisorTicks
    BY <2>1 DEF SupervisorTicks
  <2>2. ASSUME NEW s \in Sessions, SupervisorPrunes(s) PROVE TypeOK'
    BY <2>2 DEF SupervisorPrunes
  <2>3. ASSUME NEW s \in Sessions, SupervisorPicks(s) PROVE TypeOK'
    BY <2>3 DEF SupervisorPicks
  <2>4. CASE SupervisorReadsRow
    BY <2>4 DEF SupervisorReadsRow
  <2>5. CASE SupervisorWritesRow
    <3>1. \E st \in Live : Raise(supOn, st) \/ Resolve(supOn, st)
      BY <2>5 DEF SupervisorWritesRow
    <3>2. /\ state' \in [Sessions -> Live \union Terminal \union {"norow"}]
          /\ item' \in [Sessions -> {"none", "open", "resolved"}]
      BY <3>1, RowWriteTypes
    <3> QED
      BY <2>5, <3>2 DEF SupervisorWritesRow
  <2> QED
    BY <1>8, <2>1, <2>2, <2>3, <2>4, <2>5 DEF Supervisor
<1>9. ASSUME Start
      PROVE  TypeOK'
  BY <1>9 DEF Start
<1>10. ASSUME Shutdown
      PROVE  TypeOK'
  BY <1>10 DEF Shutdown
<1>11. ASSUME Exit
      PROVE  TypeOK'
  BY <1>11 DEF Exit, Die
<1>12. ASSUME Crash
      PROVE  TypeOK'
  BY <1>12 DEF Crash, Die
<1>13. CASE UNCHANGED vars
  BY <1>13 DEF vars
<1> HIDE DEF TypeOK, Actors
<1> QED
  BY <1>1, <1>2, <1>3, <1>4, <1>5, <1>6, <1>7, <1>8, <1>9, <1>10, <1>11,
     <1>12, <1>13
  DEF Next

\* The state of the model stays within its types (TypeOK), whatever the threads,
\* the agents, the user and the daemon's crashes do.
THEOREM TypeCorrect == Spec => []TypeOK
<1>1. Init => TypeOK
  BY DEF Init, TypeOK, AllOff, Actors, Places, Terminal, Live, Reports
<1>2. QED
  BY <1>1, TypeStep, PTL DEF Spec

-----------------------------------------------------------------------------
(* The strengthened invariant, part by part.                                 *)

\* A session nobody has spawned, or whose daemon is gone, stays quiet.
LEMMA QuietStep ==
    TypeOK /\ QuietInv /\ [Next]_vars => QuietInv'
<1> SUFFICES ASSUME TypeOK, QuietInv, [Next]_vars PROVE QuietInv'
  OBVIOUS
<1> USE DEF TypeOK, Actors, Places, Terminal, Live, Reports, AllOff,
            Quiet, QuietInv, Up,
            daemonVars, spawnVars, treeVars, exitVars, signalVars, supVars, rowVars
<1>1. ASSUME NEW s \in Sessions, Environment(s)
      PROVE  QuietInv'
  <2>1. CASE ChildForks(s)
    BY <2>1 DEF ChildForks
  <2>2. CASE ChildExits(s)
    BY <2>2 DEF ChildExits
  <2>3. CASE DescendantExits(s)
    BY <2>3 DEF DescendantExits
  <2> QED
    BY <1>1, <2>1, <2>2, <2>3 DEF Environment
<1>2. ASSUME NEW s \in Sessions, Create(s)
      PROVE  QuietInv'
  <2>1. CASE SpawnPty(s)
    BY <2>1 DEF SpawnPty
  <2>2. CASE InsertRow(s)
    BY <2>2 DEF InsertRow
  <2>3. CASE InsertFails(s)
    BY <2>3 DEF InsertFails, TeardownTree
  <2>4. CASE StartReader(s)
    BY <2>4 DEF StartReader
  <2>5. CASE StartWatcher(s)
    BY <2>5 DEF StartWatcher
  <2>6. CASE ThreadFails(s)
    BY <2>6 DEF ThreadFails, TeardownTree
  <2>7. CASE Register(s)
    BY <2>7 DEF Register
  <2>8. CASE BindTokens(s)
    BY <2>8 DEF BindTokens
  <2> QED
    BY <1>2, <2>1, <2>2, <2>3, <2>4, <2>5, <2>6, <2>7, <2>8 DEF Create
<1>3. ASSUME NEW s \in Sessions, Finish(s)
      PROVE  QuietInv'
  <2>1. CASE ReaderSeesEof(s)
    BY <2>1 DEF ReaderSeesEof, Goto
  <2>2. CASE WatcherSeesExit(s)
    BY <2>2 DEF WatcherSeesExit, Goto
  <2>3. CASE WatcherTearsDown(s)
    BY <2>3 DEF WatcherTearsDown, TeardownTree, Goto
  <2>4. CASE WatcherLeaves(s)
    BY <2>4 DEF WatcherLeaves, Goto
  <2>5. CASE KillerTearsDown(s)
    BY <2>5 DEF KillerTearsDown, TeardownTree, Goto
  <2>6. CASE DrainTearsDown(s)
    BY <2>6 DEF DrainTearsDown, TeardownTree, Goto
  <2>7. ASSUME NEW a \in Actors, FinalizeSwap(s, a) PROVE QuietInv'
    BY <2>7 DEF FinalizeSwap, Goto, After
  <2>8. ASSUME NEW a \in Actors, FinalizeWrite(s, a) PROVE QuietInv'
    BY <2>8 DEF FinalizeWrite, Goto, After
  <2>9. ASSUME NEW a \in Actors, FinalizeFails(s, a) PROVE QuietInv'
    BY <2>9 DEF FinalizeFails, Goto, After
  <2> QED
    BY <1>3, <2>1, <2>2, <2>3, <2>4, <2>5, <2>6, <2>7, <2>8, <2>9 DEF Finish
<1>4. ASSUME NEW s \in Sessions, Kill(s)
      PROVE  QuietInv'
  BY <1>4 DEF Kill, Goto
<1>5. ASSUME NEW s \in Sessions, Agent(s)
      PROVE  QuietInv'
  <2>1. CASE AgentSends(s)
    BY <2>1 DEF AgentSends
  <2>2. CASE AgentReportsWorking(s)
    BY <2>2 DEF AgentReportsWorking, Resolve, Served
  <2>3. CASE AgentReportsBlocked(s)
    BY <2>3 DEF AgentReportsBlocked, Raise, Served
  <2>4. CASE AgentReportsDone(s)
    BY <2>4 DEF AgentReportsDone, Resolve, Served
  <2>5. CASE AgentLinksCard(s)
    BY <2>5 DEF AgentLinksCard, Served
  <2>6. CASE AgentParksPoll(s)
    BY <2>6 DEF AgentParksPoll, SetState, Served
  <2>7. CASE PollDelivers(s)
    BY <2>7 DEF PollDelivers, SetState, Served
  <2>8. CASE PollPends(s)
    BY <2>8 DEF PollPends, Served
  <2> QED
    BY <1>5, <2>1, <2>2, <2>3, <2>4, <2>5, <2>6, <2>7, <2>8 DEF Agent
<1>6. ASSUME NEW s \in Sessions, Hook(s)
      PROVE  QuietInv'
  <2>1. CASE HookReadsRow(s)
    BY <2>1 DEF HookReadsRow
  <2>2. CASE HookWritesRow(s)
    BY <2>2 DEF HookWritesRow, Raise, Resolve, SetState
  <2> QED
    BY <1>6, <2>1, <2>2 DEF Hook
<1>7. ASSUME NEW s \in Sessions, UserResolves(s)
      PROVE  QuietInv'
  BY <1>7 DEF UserResolves
<1>8. ASSUME Supervisor
      PROVE  QuietInv'
  <2>1. CASE SupervisorTicks
    BY <2>1 DEF SupervisorTicks
  <2>2. ASSUME NEW s \in Sessions, SupervisorPrunes(s) PROVE QuietInv'
    BY <2>2 DEF SupervisorPrunes
  <2>3. ASSUME NEW s \in Sessions, SupervisorPicks(s) PROVE QuietInv'
    BY <2>3 DEF SupervisorPicks
  <2>4. CASE SupervisorReadsRow
    BY <2>4, NoSessionAssumption DEF SupervisorReadsRow
  <2>5. CASE SupervisorWritesRow
    BY <2>5, NoSessionAssumption DEF SupervisorWritesRow, Raise, Resolve
  <2> QED
    BY <1>8, <2>1, <2>2, <2>3, <2>4, <2>5 DEF Supervisor
<1>9. ASSUME Start
      PROVE  QuietInv'
  BY <1>9 DEF Start
<1>10. ASSUME Shutdown
      PROVE  QuietInv'
  BY <1>10 DEF Shutdown
<1>11. ASSUME Exit
      PROVE  QuietInv'
  BY <1>11, NoSessionAssumption DEF Exit, Die
<1>12. ASSUME Crash
      PROVE  QuietInv'
  BY <1>12, NoSessionAssumption DEF Crash, Die
<1>13. CASE UNCHANGED vars
  BY <1>13 DEF vars
<1> HIDE DEF QuietInv, Actors
<1> QED
  BY <1>1, <1>2, <1>3, <1>4, <1>5, <1>6, <1>7, <1>8, <1>9, <1>10, <1>11,
     <1>12, <1>13
  DEF Next

\* No step finalizes, or runs, a session whose row is not there.
LEMMA RowStep ==
    TypeOK /\ QuietInv /\ RowInv /\ [Next]_vars => RowInv'
<1> SUFFICES ASSUME TypeOK, QuietInv, RowInv, [Next]_vars PROVE RowInv'
  OBVIOUS
<1> USE DEF TypeOK, Actors, Places, Terminal, Live, Reports, AllOff,
            Quiet, QuietInv, RowInv, Rowless,
            daemonVars, spawnVars, treeVars, exitVars, signalVars, supVars, rowVars
<1>1. ASSUME NEW s \in Sessions, Environment(s)
      PROVE  RowInv'
  <2>1. CASE ChildForks(s)
    BY <2>1 DEF ChildForks
  <2>2. CASE ChildExits(s)
    BY <2>2 DEF ChildExits
  <2>3. CASE DescendantExits(s)
    BY <2>3 DEF DescendantExits
  <2> QED
    BY <1>1, <2>1, <2>2, <2>3 DEF Environment
<1>2. ASSUME NEW s \in Sessions, Create(s)
      PROVE  RowInv'
  <2>1. CASE SpawnPty(s)
    BY <2>1 DEF SpawnPty
  <2>2. CASE InsertRow(s)
    BY <2>2 DEF InsertRow
  <2>3. CASE InsertFails(s)
    BY <2>3 DEF InsertFails, TeardownTree
  <2>4. CASE StartReader(s)
    BY <2>4 DEF StartReader
  <2>5. CASE StartWatcher(s)
    BY <2>5 DEF StartWatcher
  <2>6. CASE ThreadFails(s)
    BY <2>6 DEF ThreadFails, TeardownTree
  <2>7. CASE Register(s)
    BY <2>7 DEF Register
  <2>8. CASE BindTokens(s)
    BY <2>8 DEF BindTokens
  <2> QED
    BY <1>2, <2>1, <2>2, <2>3, <2>4, <2>5, <2>6, <2>7, <2>8 DEF Create
<1>3. ASSUME NEW s \in Sessions, Finish(s)
      PROVE  RowInv'
  <2>1. CASE ReaderSeesEof(s)
    BY <2>1 DEF ReaderSeesEof, Goto
  <2>2. CASE WatcherSeesExit(s)
    BY <2>2 DEF WatcherSeesExit, Goto
  <2>3. CASE WatcherTearsDown(s)
    BY <2>3 DEF WatcherTearsDown, TeardownTree, Goto
  <2>4. CASE WatcherLeaves(s)
    BY <2>4 DEF WatcherLeaves, Goto
  <2>5. CASE KillerTearsDown(s)
    BY <2>5 DEF KillerTearsDown, TeardownTree, Goto
  <2>6. CASE DrainTearsDown(s)
    BY <2>6 DEF DrainTearsDown, TeardownTree, Goto
  <2>7. ASSUME NEW a \in Actors, FinalizeSwap(s, a) PROVE RowInv'
    BY <2>7 DEF FinalizeSwap, Goto, After
  <2>8. ASSUME NEW a \in Actors, FinalizeWrite(s, a) PROVE RowInv'
    BY <2>8 DEF FinalizeWrite, Goto, After
  <2>9. ASSUME NEW a \in Actors, FinalizeFails(s, a) PROVE RowInv'
    BY <2>9 DEF FinalizeFails, Goto, After
  <2> QED
    BY <1>3, <2>1, <2>2, <2>3, <2>4, <2>5, <2>6, <2>7, <2>8, <2>9 DEF Finish
<1>4. ASSUME NEW s \in Sessions, Kill(s)
      PROVE  RowInv'
  BY <1>4 DEF Kill, Goto
<1>5. ASSUME NEW s \in Sessions, Agent(s)
      PROVE  RowInv'
  <2>1. CASE AgentSends(s)
    BY <2>1 DEF AgentSends
  <2>2. CASE AgentReportsWorking(s)
    BY <2>2 DEF AgentReportsWorking, Resolve, Served
  <2>3. CASE AgentReportsBlocked(s)
    BY <2>3 DEF AgentReportsBlocked, Raise, Served
  <2>4. CASE AgentReportsDone(s)
    BY <2>4 DEF AgentReportsDone, Resolve, Served
  <2>5. CASE AgentLinksCard(s)
    BY <2>5 DEF AgentLinksCard, Served
  <2>6. CASE AgentParksPoll(s)
    BY <2>6 DEF AgentParksPoll, SetState, Served
  <2>7. CASE PollDelivers(s)
    BY <2>7 DEF PollDelivers, SetState, Served
  <2>8. CASE PollPends(s)
    BY <2>8 DEF PollPends, Served
  <2> QED
    BY <1>5, <2>1, <2>2, <2>3, <2>4, <2>5, <2>6, <2>7, <2>8 DEF Agent
<1>6. ASSUME NEW s \in Sessions, Hook(s)
      PROVE  RowInv'
  <2>1. CASE HookReadsRow(s)
    BY <2>1 DEF HookReadsRow
  <2>2. CASE HookWritesRow(s)
    BY <2>2 DEF HookWritesRow, Raise, Resolve, SetState
  <2> QED
    BY <1>6, <2>1, <2>2 DEF Hook
<1>7. ASSUME NEW s \in Sessions, UserResolves(s)
      PROVE  RowInv'
  BY <1>7 DEF UserResolves
<1>8. ASSUME Supervisor
      PROVE  RowInv'
  <2>1. CASE SupervisorTicks
    BY <2>1 DEF SupervisorTicks
  <2>2. ASSUME NEW s \in Sessions, SupervisorPrunes(s) PROVE RowInv'
    BY <2>2 DEF SupervisorPrunes
  <2>3. ASSUME NEW s \in Sessions, SupervisorPicks(s) PROVE RowInv'
    BY <2>3 DEF SupervisorPicks
  <2>4. CASE SupervisorReadsRow
    BY <2>4 DEF SupervisorReadsRow
  <2>5. CASE SupervisorWritesRow
    BY <2>5 DEF SupervisorWritesRow, Raise, Resolve
  <2> QED
    BY <1>8, <2>1, <2>2, <2>3, <2>4, <2>5 DEF Supervisor
<1>9. ASSUME Start
      PROVE  RowInv'
  BY <1>9 DEF Start
<1>10. ASSUME Shutdown
      PROVE  RowInv'
  <2>1. \A s \in Sessions : tracked[s] => state[s] # "norow"
    OBVIOUS
  <2> QED
    BY <1>10, <2>1 DEF Shutdown
<1>11. ASSUME Exit
      PROVE  RowInv'
  BY <1>11 DEF Exit, Die
<1>12. ASSUME Crash
      PROVE  RowInv'
  BY <1>12 DEF Crash, Die
<1>13. CASE UNCHANGED vars
  BY <1>13 DEF vars
<1> HIDE DEF RowInv, Actors
<1> QED
  BY <1>1, <1>2, <1>3, <1>4, <1>5, <1>6, <1>7, <1>8, <1>9, <1>10, <1>11,
     <1>12, <1>13
  DEF Next

\* The swap elects one actor, which finds no finalizing write before its own.
LEMMA SwapStep ==
    TypeOK /\ QuietInv /\ RowInv /\ SwapInv /\ [Next]_vars => SwapInv'
<1> SUFFICES ASSUME TypeOK, QuietInv, RowInv, SwapInv, [Next]_vars PROVE SwapInv'
  OBVIOUS
<1> USE DEF TypeOK, Actors, Places, Terminal, Live, Reports, AllOff,
            Quiet, QuietInv, RowInv, SwapInv,
            daemonVars, spawnVars, treeVars, exitVars, signalVars, supVars, rowVars
<1>1. ASSUME NEW s \in Sessions, Environment(s)
      PROVE  SwapInv'
  <2>1. CASE ChildForks(s)
    BY <2>1 DEF ChildForks
  <2>2. CASE ChildExits(s)
    BY <2>2 DEF ChildExits
  <2>3. CASE DescendantExits(s)
    BY <2>3 DEF DescendantExits
  <2> QED
    BY <1>1, <2>1, <2>2, <2>3 DEF Environment
<1>2. ASSUME NEW s \in Sessions, Create(s)
      PROVE  SwapInv'
  <2>1. CASE SpawnPty(s)
    BY <2>1 DEF SpawnPty
  <2>2. CASE InsertRow(s)
    BY <2>2 DEF InsertRow
  <2>3. CASE InsertFails(s)
    BY <2>3 DEF InsertFails, TeardownTree
  <2>4. CASE StartReader(s)
    BY <2>4 DEF StartReader
  <2>5. CASE StartWatcher(s)
    BY <2>5 DEF StartWatcher
  <2>6. CASE ThreadFails(s)
    BY <2>6 DEF ThreadFails, TeardownTree
  <2>7. CASE Register(s)
    BY <2>7 DEF Register
  <2>8. CASE BindTokens(s)
    BY <2>8 DEF BindTokens
  <2> QED
    BY <1>2, <2>1, <2>2, <2>3, <2>4, <2>5, <2>6, <2>7, <2>8 DEF Create
<1>3. ASSUME NEW s \in Sessions, Finish(s)
      PROVE  SwapInv'
  <2>1. CASE ReaderSeesEof(s)
    BY <2>1 DEF ReaderSeesEof, Goto
  <2>2. CASE WatcherSeesExit(s)
    BY <2>2 DEF WatcherSeesExit, Goto
  <2>3. CASE WatcherTearsDown(s)
    BY <2>3 DEF WatcherTearsDown, TeardownTree, Goto
  <2>4. CASE WatcherLeaves(s)
    BY <2>4 DEF WatcherLeaves, Goto
  <2>5. CASE KillerTearsDown(s)
    BY <2>5 DEF KillerTearsDown, TeardownTree, Goto
  <2>6. CASE DrainTearsDown(s)
    BY <2>6 DEF DrainTearsDown, TeardownTree, Goto
  <2>7. ASSUME NEW a \in Actors, FinalizeSwap(s, a) PROVE SwapInv'
    <3>1. CASE finalized[s]
      BY <2>7, <3>1 DEF FinalizeSwap, Goto, After
    <3>2. CASE ~finalized[s]
      <4>1. finals[s] = 0
        <5>1. finals[s] \in Nat /\ finals[s] <= 1
          OBVIOUS
        <5>2. finals[s] # 1
          BY <2>7, <3>2 DEF FinalizeSwap
        <5> QED
          BY ONLY <5>1, <5>2
      <4>2. \A b \in Actors : pc[s][b] # "write"
        BY <3>2
      <4>3. \A b \in Actors : pc'[s][b] = "write" => b = a
        BY <2>7, <4>2 DEF FinalizeSwap, Goto, After
      <4>4. \A t \in Sessions \ {s} : pc'[t] = pc[t] /\ finalized'[t] = finalized[t]
        BY <2>7 DEF FinalizeSwap, Goto
      <4>5. finalized'[s] /\ UNCHANGED <<finals, spawn>>
        BY <2>7 DEF FinalizeSwap
      <4> QED
        <5> SUFFICES ASSUME NEW t \in Sessions
                     PROVE  /\ finals[t] <= 1
                            /\ \A b \in Actors : pc'[t][b] = "write" =>
                                                  finalized'[t] /\ finals[t] = 0
                            /\ \A b, c \in Actors :
                                  pc'[t][b] = "write" /\ pc'[t][c] = "write" => b = c
                            /\ finals[t] = 1 /\ ~finalized'[t] => spawn[t] = "gone"
          BY <4>5
        <5>1. CASE t = s
          BY <4>1, <4>3, <4>5, <5>1
        <5>2. CASE t # s
          BY <4>4, <5>2
        <5> QED
          BY <5>1, <5>2
    <3> QED
      BY <3>1, <3>2
  <2>8. ASSUME NEW a \in Actors, FinalizeWrite(s, a) PROVE SwapInv'
    BY <2>8 DEF FinalizeWrite, Goto, After
  <2>9. ASSUME NEW a \in Actors, FinalizeFails(s, a) PROVE SwapInv'
    BY <2>9 DEF FinalizeFails, Goto, After
  <2> QED
    BY ONLY <1>3, <2>1, <2>2, <2>3, <2>4, <2>5, <2>6, <2>7, <2>8, <2>9 DEF Finish
<1>4. ASSUME NEW s \in Sessions, Kill(s)
      PROVE  SwapInv'
  BY <1>4 DEF Kill, Goto
<1>5. ASSUME NEW s \in Sessions, Agent(s)
      PROVE  SwapInv'
  <2>1. CASE AgentSends(s)
    BY <2>1 DEF AgentSends
  <2>2. CASE AgentReportsWorking(s)
    BY <2>2 DEF AgentReportsWorking, Resolve, Served
  <2>3. CASE AgentReportsBlocked(s)
    BY <2>3 DEF AgentReportsBlocked, Raise, Served
  <2>4. CASE AgentReportsDone(s)
    BY <2>4 DEF AgentReportsDone, Resolve, Served
  <2>5. CASE AgentLinksCard(s)
    BY <2>5 DEF AgentLinksCard, Served
  <2>6. CASE AgentParksPoll(s)
    BY <2>6 DEF AgentParksPoll, SetState, Served
  <2>7. CASE PollDelivers(s)
    BY <2>7 DEF PollDelivers, SetState, Served
  <2>8. CASE PollPends(s)
    BY <2>8 DEF PollPends, Served
  <2> QED
    BY <1>5, <2>1, <2>2, <2>3, <2>4, <2>5, <2>6, <2>7, <2>8 DEF Agent
<1>6. ASSUME NEW s \in Sessions, Hook(s)
      PROVE  SwapInv'
  <2>1. CASE HookReadsRow(s)
    BY <2>1 DEF HookReadsRow
  <2>2. CASE HookWritesRow(s)
    BY <2>2 DEF HookWritesRow, Raise, Resolve, SetState
  <2> QED
    BY <1>6, <2>1, <2>2 DEF Hook
<1>7. ASSUME NEW s \in Sessions, UserResolves(s)
      PROVE  SwapInv'
  BY <1>7 DEF UserResolves
<1>8. ASSUME Supervisor
      PROVE  SwapInv'
  <2>1. CASE SupervisorTicks
    BY <2>1 DEF SupervisorTicks
  <2>2. ASSUME NEW s \in Sessions, SupervisorPrunes(s) PROVE SwapInv'
    BY <2>2 DEF SupervisorPrunes
  <2>3. ASSUME NEW s \in Sessions, SupervisorPicks(s) PROVE SwapInv'
    BY <2>3 DEF SupervisorPicks
  <2>4. CASE SupervisorReadsRow
    BY <2>4 DEF SupervisorReadsRow
  <2>5. CASE SupervisorWritesRow
    BY <2>5 DEF SupervisorWritesRow, Raise, Resolve
  <2> QED
    BY <1>8, <2>1, <2>2, <2>3, <2>4, <2>5 DEF Supervisor
<1>9. ASSUME Start
      PROVE  SwapInv'
  BY <1>9 DEF Start
<1>10. ASSUME Shutdown
      PROVE  SwapInv'
  BY <1>10 DEF Shutdown
<1>11. ASSUME Exit
      PROVE  SwapInv'
  BY <1>11 DEF Exit, Die
<1>12. ASSUME Crash
      PROVE  SwapInv'
  BY <1>12 DEF Crash, Die
<1>13. CASE UNCHANGED vars
  BY <1>13 DEF vars
<1> HIDE DEF SwapInv, Actors
<1> QED
  BY <1>1, <1>2, <1>3, <1>4, <1>5, <1>6, <1>7, <1>8, <1>9, <1>10, <1>11,
     <1>12, <1>13
  DEF Next

\* Reader, watcher and killer come to the swap over the child's death.
LEMMA DeadStep ==
    TypeOK /\ QuietInv /\ RowInv /\ SwapInv /\ DeadInv /\ [Next]_vars => DeadInv'
<1> SUFFICES ASSUME TypeOK, QuietInv, RowInv, SwapInv, DeadInv, [Next]_vars PROVE DeadInv'
  OBVIOUS
<1> USE DEF TypeOK, Actors, Places, Terminal, Live, Reports, AllOff,
            Quiet, QuietInv, RowInv, SwapInv, DeadInv, Up,
            daemonVars, spawnVars, treeVars, exitVars, signalVars, supVars, rowVars
<1>1. ASSUME NEW s \in Sessions, Environment(s)
      PROVE  DeadInv'
  <2>1. CASE ChildForks(s)
    BY <2>1 DEF ChildForks
  <2>2. CASE ChildExits(s)
    BY <2>2 DEF ChildExits
  <2>3. CASE DescendantExits(s)
    BY <2>3 DEF DescendantExits
  <2> QED
    BY <1>1, <2>1, <2>2, <2>3 DEF Environment
<1>2. ASSUME NEW s \in Sessions, Create(s)
      PROVE  DeadInv'
  <2>1. CASE SpawnPty(s)
    BY <2>1 DEF SpawnPty
  <2>2. CASE InsertRow(s)
    BY <2>2 DEF InsertRow
  <2>3. CASE InsertFails(s)
    BY <2>3 DEF InsertFails, TeardownTree
  <2>4. CASE StartReader(s)
    BY <2>4 DEF StartReader
  <2>5. CASE StartWatcher(s)
    BY <2>5 DEF StartWatcher
  <2>6. CASE ThreadFails(s)
    BY <2>6 DEF ThreadFails, TeardownTree
  <2>7. CASE Register(s)
    BY <2>7 DEF Register
  <2>8. CASE BindTokens(s)
    BY <2>8 DEF BindTokens
  <2> QED
    BY <1>2, <2>1, <2>2, <2>3, <2>4, <2>5, <2>6, <2>7, <2>8 DEF Create
<1>3. ASSUME NEW s \in Sessions, Finish(s)
      PROVE  DeadInv'
  <2>1. CASE ReaderSeesEof(s)
    BY <2>1 DEF ReaderSeesEof, Goto
  <2>2. CASE WatcherSeesExit(s)
    BY <2>2 DEF WatcherSeesExit, Goto
  <2>3. CASE WatcherTearsDown(s)
    BY <2>3 DEF WatcherTearsDown, TeardownTree, Goto
  <2>4. CASE WatcherLeaves(s)
    BY <2>4 DEF WatcherLeaves, Goto
  <2>5. CASE KillerTearsDown(s)
    BY <2>5 DEF KillerTearsDown, TeardownTree, Goto
  <2>6. CASE DrainTearsDown(s)
    BY <2>6 DEF DrainTearsDown, TeardownTree, Goto
  <2>7. ASSUME NEW a \in Actors, FinalizeSwap(s, a) PROVE DeadInv'
    BY <2>7 DEF FinalizeSwap, Goto, After
  <2>8. ASSUME NEW a \in Actors, FinalizeWrite(s, a) PROVE DeadInv'
    BY <2>8 DEF FinalizeWrite, Goto, After
  <2>9. ASSUME NEW a \in Actors, FinalizeFails(s, a) PROVE DeadInv'
    BY <2>9 DEF FinalizeFails, Goto, After
  <2> QED
    BY <1>3, <2>1, <2>2, <2>3, <2>4, <2>5, <2>6, <2>7, <2>8, <2>9 DEF Finish
<1>4. ASSUME NEW s \in Sessions, Kill(s)
      PROVE  DeadInv'
  BY <1>4 DEF Kill, Goto
<1>5. ASSUME NEW s \in Sessions, Agent(s)
      PROVE  DeadInv'
  <2>1. CASE AgentSends(s)
    BY <2>1 DEF AgentSends
  <2>2. CASE AgentReportsWorking(s)
    BY <2>2 DEF AgentReportsWorking, Resolve, Served
  <2>3. CASE AgentReportsBlocked(s)
    BY <2>3 DEF AgentReportsBlocked, Raise, Served
  <2>4. CASE AgentReportsDone(s)
    BY <2>4 DEF AgentReportsDone, Resolve, Served
  <2>5. CASE AgentLinksCard(s)
    BY <2>5 DEF AgentLinksCard, Served
  <2>6. CASE AgentParksPoll(s)
    BY <2>6 DEF AgentParksPoll, SetState, Served
  <2>7. CASE PollDelivers(s)
    BY <2>7 DEF PollDelivers, SetState, Served
  <2>8. CASE PollPends(s)
    BY <2>8 DEF PollPends, Served
  <2> QED
    BY <1>5, <2>1, <2>2, <2>3, <2>4, <2>5, <2>6, <2>7, <2>8 DEF Agent
<1>6. ASSUME NEW s \in Sessions, Hook(s)
      PROVE  DeadInv'
  <2>1. CASE HookReadsRow(s)
    BY <2>1 DEF HookReadsRow
  <2>2. CASE HookWritesRow(s)
    BY <2>2 DEF HookWritesRow, Raise, Resolve, SetState
  <2> QED
    BY <1>6, <2>1, <2>2 DEF Hook
<1>7. ASSUME NEW s \in Sessions, UserResolves(s)
      PROVE  DeadInv'
  BY <1>7 DEF UserResolves
<1>8. ASSUME Supervisor
      PROVE  DeadInv'
  <2>1. CASE SupervisorTicks
    BY <2>1 DEF SupervisorTicks
  <2>2. ASSUME NEW s \in Sessions, SupervisorPrunes(s) PROVE DeadInv'
    BY <2>2 DEF SupervisorPrunes
  <2>3. ASSUME NEW s \in Sessions, SupervisorPicks(s) PROVE DeadInv'
    BY <2>3 DEF SupervisorPicks
  <2>4. CASE SupervisorReadsRow
    BY <2>4 DEF SupervisorReadsRow
  <2>5. CASE SupervisorWritesRow
    BY <2>5 DEF SupervisorWritesRow, Raise, Resolve
  <2> QED
    BY <1>8, <2>1, <2>2, <2>3, <2>4, <2>5 DEF Supervisor
<1>9. ASSUME Start
      PROVE  DeadInv'
  BY <1>9 DEF Start
<1>10. ASSUME Shutdown
      PROVE  DeadInv'
  BY <1>10 DEF Shutdown
<1>11. ASSUME Exit
      PROVE  DeadInv'
  BY <1>11 DEF Exit, Die
<1>12. ASSUME Crash
      PROVE  DeadInv'
  BY <1>12 DEF Crash, Die
<1>13. CASE UNCHANGED vars
  BY <1>13 DEF vars
<1> HIDE DEF DeadInv, Actors
<1> QED
  BY <1>1, <1>2, <1>3, <1>4, <1>5, <1>6, <1>7, <1>8, <1>9, <1>10, <1>11,
     <1>12, <1>13
  DEF Next

\* Rows of earlier lives stay as reconciliation left them.
LEMMA EndedStep ==
    TypeOK /\ QuietInv /\ RowInv /\ EndedInv /\ [Next]_vars => EndedInv'
<1> SUFFICES ASSUME TypeOK, QuietInv, RowInv, EndedInv, [Next]_vars PROVE EndedInv'
  OBVIOUS
<1> USE DEF TypeOK, Actors, Places, Terminal, Live, Reports, AllOff,
            Quiet, QuietInv, EndedInv, Up,
            daemonVars, spawnVars, treeVars, exitVars, signalVars, supVars, rowVars
<1>1. ASSUME NEW s \in Sessions, Environment(s)
      PROVE  EndedInv'
  <2>1. CASE ChildForks(s)
    BY <2>1 DEF ChildForks
  <2>2. CASE ChildExits(s)
    BY <2>2 DEF ChildExits
  <2>3. CASE DescendantExits(s)
    BY <2>3 DEF DescendantExits
  <2> QED
    BY <1>1, <2>1, <2>2, <2>3 DEF Environment
<1>2. ASSUME NEW s \in Sessions, Create(s)
      PROVE  EndedInv'
  <2>1. CASE SpawnPty(s)
    BY <2>1 DEF SpawnPty
  <2>2. CASE InsertRow(s)
    BY <2>2 DEF InsertRow
  <2>3. CASE InsertFails(s)
    BY <2>3 DEF InsertFails, TeardownTree
  <2>4. CASE StartReader(s)
    BY <2>4 DEF StartReader
  <2>5. CASE StartWatcher(s)
    BY <2>5 DEF StartWatcher
  <2>6. CASE ThreadFails(s)
    BY <2>6 DEF ThreadFails, TeardownTree
  <2>7. CASE Register(s)
    BY <2>7 DEF Register
  <2>8. CASE BindTokens(s)
    BY <2>8 DEF BindTokens
  <2> QED
    BY <1>2, <2>1, <2>2, <2>3, <2>4, <2>5, <2>6, <2>7, <2>8 DEF Create
<1>3. ASSUME NEW s \in Sessions, Finish(s)
      PROVE  EndedInv'
  <2>1. CASE ReaderSeesEof(s)
    BY <2>1 DEF ReaderSeesEof, Goto
  <2>2. CASE WatcherSeesExit(s)
    BY <2>2 DEF WatcherSeesExit, Goto
  <2>3. CASE WatcherTearsDown(s)
    BY <2>3 DEF WatcherTearsDown, TeardownTree, Goto
  <2>4. CASE WatcherLeaves(s)
    BY <2>4 DEF WatcherLeaves, Goto
  <2>5. CASE KillerTearsDown(s)
    BY <2>5 DEF KillerTearsDown, TeardownTree, Goto
  <2>6. CASE DrainTearsDown(s)
    BY <2>6 DEF DrainTearsDown, TeardownTree, Goto
  <2>7. ASSUME NEW a \in Actors, FinalizeSwap(s, a) PROVE EndedInv'
    BY <2>7 DEF FinalizeSwap, Goto, After
  <2>8. ASSUME NEW a \in Actors, FinalizeWrite(s, a) PROVE EndedInv'
    BY <2>8 DEF FinalizeWrite, Goto, After
  <2>9. ASSUME NEW a \in Actors, FinalizeFails(s, a) PROVE EndedInv'
    BY <2>9 DEF FinalizeFails, Goto, After
  <2> QED
    BY <1>3, <2>1, <2>2, <2>3, <2>4, <2>5, <2>6, <2>7, <2>8, <2>9 DEF Finish
<1>4. ASSUME NEW s \in Sessions, Kill(s)
      PROVE  EndedInv'
  BY <1>4 DEF Kill, Goto
<1>5. ASSUME NEW s \in Sessions, Agent(s)
      PROVE  EndedInv'
  <2>1. CASE AgentSends(s)
    BY <2>1 DEF AgentSends
  <2>2. CASE AgentReportsWorking(s)
    BY <2>2 DEF AgentReportsWorking, Resolve, Served
  <2>3. CASE AgentReportsBlocked(s)
    BY <2>3 DEF AgentReportsBlocked, Raise, Served
  <2>4. CASE AgentReportsDone(s)
    BY <2>4 DEF AgentReportsDone, Resolve, Served
  <2>5. CASE AgentLinksCard(s)
    BY <2>5 DEF AgentLinksCard, Served
  <2>6. CASE AgentParksPoll(s)
    BY <2>6 DEF AgentParksPoll, SetState, Served
  <2>7. CASE PollDelivers(s)
    BY <2>7 DEF PollDelivers, SetState, Served
  <2>8. CASE PollPends(s)
    BY <2>8 DEF PollPends, Served
  <2> QED
    BY <1>5, <2>1, <2>2, <2>3, <2>4, <2>5, <2>6, <2>7, <2>8 DEF Agent
<1>6. ASSUME NEW s \in Sessions, Hook(s)
      PROVE  EndedInv'
  <2>1. CASE HookReadsRow(s)
    BY <2>1 DEF HookReadsRow
  <2>2. CASE HookWritesRow(s)
    BY <2>2 DEF HookWritesRow, Raise, Resolve, SetState
  <2> QED
    BY <1>6, <2>1, <2>2 DEF Hook
<1>7. ASSUME NEW s \in Sessions, UserResolves(s)
      PROVE  EndedInv'
  BY <1>7 DEF UserResolves
<1>8. ASSUME Supervisor
      PROVE  EndedInv'
  <2>1. CASE SupervisorTicks
    BY <2>1 DEF SupervisorTicks
  <2>2. ASSUME NEW s \in Sessions, SupervisorPrunes(s) PROVE EndedInv'
    BY <2>2 DEF SupervisorPrunes
  <2>3. ASSUME NEW s \in Sessions, SupervisorPicks(s) PROVE EndedInv'
    BY <2>3 DEF SupervisorPicks
  <2>4. CASE SupervisorReadsRow
    BY <2>4 DEF SupervisorReadsRow
  <2>5. CASE SupervisorWritesRow
    BY <2>5 DEF SupervisorWritesRow, Raise, Resolve
  <2> QED
    BY <1>8, <2>1, <2>2, <2>3, <2>4, <2>5 DEF Supervisor
<1>9. ASSUME Start
      PROVE  EndedInv'
  BY <1>9 DEF Start
<1>10. ASSUME Shutdown
      PROVE  EndedInv'
  BY <1>10 DEF Shutdown
<1>11. ASSUME Exit
      PROVE  EndedInv'
  BY <1>11 DEF Exit, Die
<1>12. ASSUME Crash
      PROVE  EndedInv'
  BY <1>12 DEF Crash, Die
<1>13. CASE UNCHANGED vars
  BY <1>13 DEF vars
<1> HIDE DEF EndedInv, Actors
<1> QED
  BY <1>1, <1>2, <1>3, <1>4, <1>5, <1>6, <1>7, <1>8, <1>9, <1>10, <1>11,
     <1>12, <1>13
  DEF Next

\* IInv holds in every reachable state.
LEMMA Invariant == Spec => []IInv
<1>1. Init => IInv
  <2>1. Init => TypeOK
    BY DEF Init, TypeOK, AllOff, Actors, Places, Terminal, Live, Reports
  <2>2. ASSUME Init PROVE QuietInv
    <3> SUFFICES ASSUME NEW s \in Sessions
                 PROVE  Quiet(s) /\ spawn[s] = "none" /\ ~tracked[s]
      BY DEF QuietInv
    <3>1. \A a \in Actors : pc[s][a] = "off"
      BY <2>2 DEF Init, AllOff
    <3> QED
      BY <2>2, <3>1, NoSessionAssumption DEF Init, Quiet
  <2>3. ASSUME Init, NEW s \in Sessions
        PROVE  /\ \A a \in Actors : pc[s][a] = "off"
               /\ spawn[s] = "none" /\ state[s] = "norow"
               /\ child[s] = "absent" /\ finals[s] = 0
    BY <2>3 DEF Init, AllOff
  <2>4. ASSUME Init PROVE RowInv
    BY <2>3, <2>4 DEF RowInv, Rowless
  <2>5. ASSUME Init PROVE SwapInv
    <3> SUFFICES ASSUME NEW s \in Sessions
                 PROVE  /\ finals[s] <= 1 /\ finals[s] # 1
                        /\ \A a \in Actors : pc[s][a] # "write"
      BY DEF SwapInv
    <3>1. finals[s] = 0
      BY <2>3, <2>5
    <3>2. \A a \in Actors : pc[s][a] = "off"
      BY <2>3, <2>5
    <3> QED
      BY <3>1, <3>2
  <2>6. ASSUME Init PROVE DeadInv
    BY <2>3, <2>6 DEF DeadInv, Actors
  <2>7. ASSUME Init PROVE EndedInv
    BY <2>3, <2>7 DEF EndedInv, Terminal
  <2> QED
    BY <2>1, <2>2, <2>4, <2>5, <2>6, <2>7 DEF IInv
<1>2. IInv /\ [Next]_vars => IInv'
  BY TypeStep, QuietStep, RowStep, SwapStep, DeadStep, EndedStep DEF IInv
<1> QED
  BY <1>1, <1>2, PTL DEF Spec

-----------------------------------------------------------------------------

\* However the reader, the watcher, kills and the shutdown drain interleave,
\* the finalizing write reaches a session's row at most once (finalize_exit,
\* shutdown_interrupted: the swap on Session.finalized).
THEOREM FinalizedAtMostOnce == Spec => []FinalizeOnce
<1>1. IInv => FinalizeOnce
  BY DEF IInv, SwapInv, FinalizeOnce
<1> QED
  BY <1>1, Invariant, PTL

\* While the daemon serves, a session whose ending reached its row has no
\* running agent, whoever ended it.
THEOREM DoneSessionsAreDead == Spec => []DoneMeansDead
<1>1. IInv => DoneMeansDead
  BY DEF IInv, DeadInv, DoneMeansDead
<1> QED
  BY <1>1, Invariant, PTL

\* No agent runs past its spawn without a row, and nothing tries to finalize a
\* row that is not there, with failing inserts and failing threads.
THEOREM NoGhostSessions == Spec => []NoGhost
<1>1. IInv => NoGhost
  BY DEF IInv, RowInv, NoGhost
<1> QED
  BY <1>1, Invariant, PTL

\* After any number of crashes and restarts, at any step, a serving daemon shows
\* every session of its earlier lives as ended, and nothing revives it.
THEOREM PastLivesAreOver == Spec => []PastLivesTerminal
<1>1. IInv => PastLivesTerminal
  BY DEF IInv, QuietInv, RowInv, EndedInv, PastLivesTerminal
<1> QED
  BY <1>1, Invariant, PTL

-----------------------------------------------------------------------------
(* The review of plans.                                                      *)

\* A batch is stored once, under a number no other submission has.
NumbersInv ==
    /\ \A id \in stored : id <= batches
    /\ \A b \in queued : b.id \in stored
    /\ \A b, c \in queued : b.id = c.id => b = c
    /\ Answered \subseteq stored
    /\ \A u \in Humans : human[u].pc = "queue" =>
          /\ human[u].id <= batches
          /\ human[u].id \notin stored
          /\ \A w \in Humans \ {u} : human[w].pc = "queue" => human[w].id # human[u].id

\* An approval that a row, a poll or an answer tells of was given.
ApprovalInv ==
    /\ \A p \in Plans : status[p] = "approved" => p \in approvals
    /\ \A h \in Calls :
          /\ call[h].pc = "take" /\ call[h].seen = "approved" => call[h].plan \in approvals
          /\ call[h].pc \in {"wake", "reply"} /\ call[h].approved => call[h].plan \in approvals
    /\ told \subseteq approvals

BatchInv == NumbersInv /\ FeedbackKept

ReviewInv == ReviewTypeOK /\ BatchInv /\ ApprovalInv

-----------------------------------------------------------------------------
(* Types.                                                                   *)

\* What a handler holds at each of its steps.
LEMMA CallForms ==
    ASSUME ReviewTypeOK, NEW h \in Calls
    PROVE  /\ call[h].pc \in {"idle", "write", "ask", "park", "read", "take", "wake", "reply"}
           /\ call[h].pc # "idle" => call[h].plan \in Plans
           /\ call[h].pc \in {"write", "ask"} =>
                 /\ call[h] \in [pc : {"write", "ask"}, plan : Plans, seen : 0 .. MaxRounds - 1]
                 /\ call[h].seen \in 0 .. MaxRounds - 1
           /\ call[h].pc = "take" => call[h].seen \in Statuses
           /\ call[h].pc \in {"wake", "reply"} =>
                 /\ call[h] \in [pc : {"wake", "reply"}, plan : Plans, items : SUBSET Batches,
                                next : {"open", "poll", "stop"}, approved : BOOLEAN]
                 /\ call[h].items \in SUBSET Batches
                 /\ call[h].next \in {"open", "poll", "stop"}
                 /\ call[h].approved \in BOOLEAN
<1>1. call[h] \in CallStates
  BY DEF ReviewTypeOK
<1>2. CASE call[h] = NoRequest
  BY <1>2 DEF NoRequest
<1>3. CASE call[h] \in [pc : {"write", "ask"}, plan : Plans, seen : 0 .. MaxRounds - 1]
  BY <1>3
<1>4. CASE call[h] \in [pc : {"park", "read"}, plan : Plans]
  BY <1>4
<1>5. CASE call[h] \in [pc : {"take"}, plan : Plans, seen : Statuses]
  BY <1>5
<1>6. CASE call[h] \in [pc : {"wake", "reply"}, plan : Plans, items : SUBSET Batches,
                        next : {"open", "poll", "stop"}, approved : BOOLEAN]
  BY <1>6
<1> QED
  BY <1>1, <1>2, <1>3, <1>4, <1>5, <1>6 DEF CallStates

\* What a submission holds at each of its steps.
LEMMA HumanForms ==
    ASSUME ReviewTypeOK, NEW u \in Humans
    PROVE  /\ human[u].pc \in {"idle", "queue", "resolve", "conclude"}
           /\ human[u].pc # "idle" =>
                 /\ human[u].plan \in Plans /\ human[u].round \in 1 .. MaxRounds
                 /\ human[u].act \in Acts /\ human[u].id \in Batches
<1>1. human[u] \in HumanStates
  BY DEF ReviewTypeOK
<1>2. CASE human[u] = NoRequest
  BY <1>2 DEF NoRequest
<1>3. CASE human[u] \in [pc : {"queue", "resolve", "conclude"}, plan : Plans, round : 1 .. MaxRounds,
                         act : Acts, id : Batches]
  BY <1>3
<1> QED
  BY <1>1, <1>2, <1>3 DEF HumanStates

\* A request that goes on to its next step keeps what it holds.
LEMMA StepsOn ==
    /\ \A x \in [pc : {"write", "ask"}, plan : Plans, seen : 0 .. MaxRounds - 1] :
          [x EXCEPT !.pc = "ask"] \in CallStates
    /\ \A x \in [pc : {"wake", "reply"}, plan : Plans, items : SUBSET Batches,
                 next : {"open", "poll", "stop"}, approved : BOOLEAN] :
          [x EXCEPT !.pc = "reply"] \in CallStates
    /\ \A x \in [pc : {"queue", "resolve", "conclude"}, plan : Plans, round : 1 .. MaxRounds,
                 act : Acts, id : Batches], at \in {"resolve", "conclude"} :
          [x EXCEPT !.pc = at] \in HumanStates
BY DEF CallStates, HumanStates

\* What a poll answers with a batch is an answer.
LEMMA DeliveryForm ==
    ASSUME ReviewTypeOK, NEW h \in Calls, call[h].pc = "take", NEW items \in SUBSET Batches
    PROVE  /\ Delivery(h, items) = [pc |-> "wake", plan |-> call[h].plan, items |-> items,
                                    next |-> IF Ended(call[h].seen) THEN "stop" ELSE "open",
                                    approved |-> call[h].seen = "approved"]
           /\ Delivery(h, items) \in CallStates
<1>1. Delivery(h, items) = [pc |-> "wake", plan |-> call[h].plan, items |-> items,
                            next |-> IF Ended(call[h].seen) THEN "stop" ELSE "open",
                            approved |-> call[h].seen = "approved"]
  BY DEF Delivery, Answer
<1>2. call[h].plan \in Plans /\ (call[h].seen = "approved") \in BOOLEAN
  BY CallForms
<1> QED
  BY <1>1, <1>2 DEF CallStates

\* The type invariant holds initially ...
LEMMA TypeInit == ReviewInit => ReviewTypeOK
BY ReviewAssumption DEF ReviewInit, ReviewTypeOK, Batch, Statuses, CallStates, HumanStates, NoRequest

\* ... and every step keeps it.
LEMMA TypeNext == ReviewTypeOK /\ [ReviewNext]_reviewVars => ReviewTypeOK'
<1> SUFFICES ASSUME ReviewTypeOK, [ReviewNext]_reviewVars PROVE ReviewTypeOK'
  OBVIOUS
<1> USE ReviewAssumption DEF planVars, agentVars, countVars, noteVars
<1>1. CASE Killed
  BY <1>1 DEF Killed, ReviewTypeOK
<1>2. CASE ReviewCrash
  <2>1. \A h \in Calls : InReply(h) \subseteq Batches
    BY CallForms DEF InReply
  <2>2. UNION {InReply(h) : h \in Calls} \subseteq Batches
    BY <2>1
  <2> QED
    BY <1>2, <2>2 DEF ReviewCrash, ReviewTypeOK, CallStates, HumanStates
<1>3. ASSUME NEW h \in Calls, NEW p \in Plans, Open(h, p) PROVE ReviewTypeOK'
  <2>1. [pc |-> "write", plan |-> p, seen |-> round[p]] \in CallStates
    <3>1. round[p] \in 0 .. MaxRounds - 1
      BY <1>3 DEF Open, ReviewTypeOK
    <3> QED
      BY <3>1 DEF CallStates
  <2> QED
    BY <1>3, <2>1 DEF Open, ReviewTypeOK
<1>4. ASSUME NEW h \in Calls, Poll(h) PROVE ReviewTypeOK'
  <2>1. ActivePlan \subseteq Plans
    <3>1. \A i \in DOMAIN order : order[i] \in Plans
      BY DEF ReviewTypeOK
    <3> QED
      BY <3>1 DEF ActivePlan, Newest
  <2>2. PICK p \in Plans : call' = [call EXCEPT ![h] = [pc |-> "park", plan |-> p]]
    BY <1>4, <2>1 DEF Poll
  <2>3. [pc |-> "park", plan |-> p] \in CallStates
    BY DEF CallStates
  <2> QED
    BY <1>4, <2>2, <2>3 DEF Poll, ReviewTypeOK
<1>5. ASSUME NEW h \in Calls, OpenWrites(h) PROVE ReviewTypeOK'
  <2> DEFINE p == call[h].plan
  <2>1. call[h].pc = "write" /\ p \in Plans /\ call[h].seen \in 0 .. MaxRounds - 1
    BY <1>5, CallForms DEF OpenWrites
  <2>2. Answer(p, {}, "open", FALSE) \in CallStates
    BY <2>1 DEF Answer, CallStates
  <2>3. [call[h] EXCEPT !.pc = "ask"] \in CallStates
    <3>1. call[h] \in [pc : {"write", "ask"}, plan : Plans, seen : 0 .. MaxRounds - 1]
      BY <2>1, CallForms
    <3> QED
      BY <3>1, StepsOn
  <2>4. call' \in [Calls -> CallStates]
    BY <1>5, <2>2, <2>3 DEF OpenWrites, ReviewTypeOK
  <2>5. call[h].seen + 1 \in 0 .. MaxRounds
    BY <2>1
  <2>6. round' \in [Plans -> 0 .. MaxRounds]
    BY <1>5, <2>1, <2>5 DEF OpenWrites, ReviewTypeOK
  <2>7. status' \in [Plans -> Statuses]
    BY <1>5, <2>1 DEF OpenWrites, ReviewTypeOK, Statuses
  <2>8. order' \in Seq(Plans)
    <3>1. order \in Seq(Plans) /\ Append(order, p) \in Seq(Plans)
      BY <2>1 DEF ReviewTypeOK
    <3> QED
      BY <1>5, <3>1 DEF OpenWrites
  <2> QED
    BY <1>5, <2>4, <2>6, <2>7, <2>8 DEF OpenWrites, ReviewTypeOK
<1>6. ASSUME NEW h \in Calls, OpenAsks(h) PROVE ReviewTypeOK'
  <2>1. Answer(call[h].plan, {}, "poll", FALSE) \in CallStates /\ call[h].plan \in Plans
    BY <1>6, CallForms DEF OpenAsks, Answer, CallStates
  <2> QED
    BY <1>6, <2>1 DEF OpenAsks, ReviewTypeOK
<1>7. ASSUME NEW h \in Calls, PollParks(h) PROVE ReviewTypeOK'
  <2>1. [pc |-> "read", plan |-> call[h].plan] \in CallStates
    BY <1>7, CallForms DEF PollParks, CallStates
  <2> QED
    BY <1>7, <2>1 DEF PollParks, ReviewTypeOK
<1>8. ASSUME NEW h \in Calls, PollReads(h) PROVE ReviewTypeOK'
  <2>1. call[h].plan \in Plans /\ status[call[h].plan] \in Statuses
    BY <1>8, CallForms DEF PollReads, ReviewTypeOK
  <2>2. [pc |-> "take", plan |-> call[h].plan, seen |-> status[call[h].plan]] \in CallStates
    BY <2>1 DEF CallStates
  <2> QED
    BY <1>8, <2>2 DEF PollReads, ReviewTypeOK
<1>9. ASSUME NEW h \in Calls, PollTakes(h) PROVE ReviewTypeOK'
  <2>1. {b.id : b \in Due(call[h].plan)} \in SUBSET Batches
    BY DEF Due, ReviewTypeOK, Batch
  <2>2. Delivery(h, {b.id : b \in Due(call[h].plan)}) \in CallStates
    BY <1>9, <2>1, DeliveryForm DEF PollTakes
  <2> QED
    BY <1>9, <2>2 DEF PollTakes, ReviewTypeOK
<1>10. ASSUME NEW h \in Calls, PollEnds(h) PROVE ReviewTypeOK'
  BY <1>10, DeliveryForm DEF PollEnds, ReviewTypeOK
<1>11. ASSUME NEW h \in Calls, PollWakes(h) PROVE ReviewTypeOK'
  <2>1. call[h] \in [pc : {"wake", "reply"}, plan : Plans, items : SUBSET Batches,
                     next : {"open", "poll", "stop"}, approved : BOOLEAN]
    BY <1>11, CallForms DEF PollWakes
  <2>2. [call[h] EXCEPT !.pc = "reply"] \in CallStates
    BY <2>1, StepsOn
  <2> QED
    BY <1>11, <2>2 DEF PollWakes, ReviewTypeOK
<1>12. ASSUME NEW h \in Calls, PollWaits(h) PROVE ReviewTypeOK'
  <2>1. /\ [pc |-> "read", plan |-> call[h].plan] \in CallStates
        /\ Answer(call[h].plan, {}, "poll", FALSE) \in CallStates
    BY <1>12, CallForms DEF PollWaits, Answer, CallStates
  <2> QED
    BY <1>12, <2>1 DEF PollWaits, ReviewTypeOK
<1>13. ASSUME NEW h \in Calls, Reply(h) PROVE ReviewTypeOK'
  <2>1. NoRequest \in CallStates
    BY DEF CallStates
  <2>2. /\ call[h].items \subseteq Batches /\ call[h].plan \in Plans
        /\ call[h].next \in {"open", "poll", "stop"}
    BY <1>13, CallForms DEF Reply
  <2> QED
    BY <1>13, <2>1, <2>2 DEF Reply, ReviewTypeOK
<1>14. ASSUME NEW u \in Humans, SubmitQueues(u) PROVE ReviewTypeOK'
  <2>1. human[u] \in [pc : {"queue", "resolve", "conclude"}, plan : Plans, round : 1 .. MaxRounds,
                      act : Acts, id : Batches]
    BY <1>14 DEF SubmitQueues, ReviewTypeOK, HumanStates, NoRequest
  <2>2. [human[u] EXCEPT !.pc = "resolve"] \in HumanStates
    BY <2>1, StepsOn
  <2>3. [id |-> human[u].id, plan |-> human[u].plan, round |-> human[u].round] \in Batch
    BY <1>14, HumanForms DEF SubmitQueues, Batch
  <2> QED
    BY <1>14, <2>2, <2>3 DEF SubmitQueues, ReviewTypeOK, Batch
<1>15. ASSUME NEW u \in Humans, SubmitResolves(u) PROVE ReviewTypeOK'
  <2>1. human[u] \in [pc : {"queue", "resolve", "conclude"}, plan : Plans, round : 1 .. MaxRounds,
                      act : Acts, id : Batches]
    BY <1>15 DEF SubmitResolves, ReviewTypeOK, HumanStates, NoRequest
  <2>2. [human[u] EXCEPT !.pc = "conclude"] \in HumanStates
    BY <2>1, StepsOn
  <2>3. NoRequest \in HumanStates
    BY DEF HumanStates
  <2> QED
    BY <1>15, <2>2, <2>3 DEF SubmitResolves, ReviewTypeOK
<1>16. ASSUME NEW u \in Humans, SubmitConcludes(u) PROVE ReviewTypeOK'
  <2>1. human[u].plan \in Plans /\ NoRequest \in HumanStates
    BY <1>16, HumanForms DEF SubmitConcludes, HumanStates
  <2> QED
    BY <1>16, <2>1 DEF SubmitConcludes, ReviewTypeOK, Statuses
<1>17. ASSUME NEW u \in Humans, NEW p \in Plans, NEW act \in Acts, NEW r \in 1 .. MaxRounds,
              Submit(u, p, act, r)
       PROVE  ReviewTypeOK'
  <2>1. batches + 1 \in Batches
    BY <1>17 DEF Submit, ReviewTypeOK, Batches
  <2>2. [pc |-> "queue", plan |-> p, round |-> r, act |-> act, id |-> batches + 1] \in HumanStates
    BY <2>1 DEF HumanStates
  <2>3. batches' \in 0 .. MaxBatches
    BY <1>17 DEF Submit, ReviewTypeOK
  <2>4. human' \in [Humans -> HumanStates]
    BY <1>17, <2>2 DEF Submit, ReviewTypeOK
  <2> QED
    BY <1>17, <2>3, <2>4 DEF Submit, ReviewTypeOK
<1>18. CASE UNCHANGED reviewVars
  BY <1>18 DEF reviewVars, ReviewTypeOK
<1> QED
  BY <1>1, <1>2, <1>3, <1>4, <1>5, <1>6, <1>7, <1>8, <1>9, <1>10, <1>11, <1>12, <1>13, <1>14, <1>15,
     <1>16, <1>17, <1>18 DEF ReviewNext, AgentStep, Handler, Submission

-----------------------------------------------------------------------------
(* Approvals.                                                               *)

\* A step of one handler keeps the invariant if what it holds afterwards tells
\* of no approval that was not given.
LEMMA ApprovalFrame ==
    ASSUME ReviewTypeOK, ApprovalInv, NEW h \in Calls, NEW x,
           call' = [call EXCEPT ![h] = x],
           x.pc = "take" /\ x.seen = "approved" => x.plan \in approvals,
           x.pc \in {"wake", "reply"} /\ x.approved => x.plan \in approvals,
           \A p \in Plans : status'[p] = "approved" => p \in approvals,
           UNCHANGED approvals, told' \subseteq approvals
    PROVE  ApprovalInv'
<1>1. \A g \in Calls : call'[g] = IF g = h THEN x ELSE call[g]
  BY DEF ReviewTypeOK
<1> QED
  BY <1>1 DEF ApprovalInv

\* An answer tells of an approval what it was given of one.
LEMMA AnswerTells ==
    \A p, items, then : \A a \in BOOLEAN :
        [Answer(p, items, then, a) EXCEPT !.pc = "wake"].approved = a
BY DEF Answer

LEMMA ApprovalNext ==
    ReviewTypeOK /\ ApprovalInv /\ [ReviewNext]_reviewVars => ApprovalInv'
<1> SUFFICES ASSUME ReviewTypeOK, ApprovalInv, [ReviewNext]_reviewVars PROVE ApprovalInv'
  OBVIOUS
<1> USE DEF planVars, agentVars, countVars, noteVars
<1>0. told \subseteq approvals /\ \A p \in Plans : status[p] = "approved" => p \in approvals
  BY DEF ApprovalInv
<1>1. CASE Killed
  BY <1>1 DEF Killed, ApprovalInv
<1>2. CASE ReviewCrash
  BY <1>2 DEF ReviewCrash, ApprovalInv, NoRequest
<1>3. ASSUME NEW h \in Calls, NEW p \in Plans, Open(h, p) PROVE ApprovalInv'
  <2> DEFINE x == [pc |-> "write", plan |-> p, seen |-> round[p]]
  <2>1. call' = [call EXCEPT ![h] = x] /\ x.pc = "write" /\ UNCHANGED <<status, approvals, told>>
    BY <1>3 DEF Open
  <2> HIDE DEF x
  <2> QED
    BY <1>0, <2>1, ApprovalFrame
<1>4. ASSUME NEW h \in Calls, Poll(h) PROVE ApprovalInv'
  <2>1. PICK p \in ActivePlan : call' = [call EXCEPT ![h] = [pc |-> "park", plan |-> p]]
    BY <1>4 DEF Poll
  <2> DEFINE x == [pc |-> "park", plan |-> p]
  <2>2. call' = [call EXCEPT ![h] = x] /\ x.pc = "park" /\ UNCHANGED <<status, approvals, told>>
    BY <1>4, <2>1 DEF Poll
  <2> HIDE DEF x
  <2> QED
    BY <1>0, <2>2, ApprovalFrame
<1>5. ASSUME NEW h \in Calls, OpenWrites(h) PROVE ApprovalInv'
  <2>1. PICK x : /\ call' = [call EXCEPT ![h] = x] /\ x.pc \in {"reply", "ask"}
                 /\ x.pc = "reply" => x.approved = FALSE
    <3>1. CASE call[h].seen = 0 /\ round[call[h].plan] > 0
      BY <1>5, <3>1 DEF OpenWrites, Answer
    <3>2. CASE ~(call[h].seen = 0 /\ round[call[h].plan] > 0)
      <4>1. call' = [call EXCEPT ![h] = [call[h] EXCEPT !.pc = "ask"]]
        BY <1>5, <3>2 DEF OpenWrites
      <4>2. [call[h] EXCEPT !.pc = "ask"].pc = "ask"
        BY <1>5, CallForms DEF OpenWrites
      <4> QED
        BY <4>1, <4>2
    <3> QED
      BY <3>1, <3>2
  <2>2. \A p \in Plans : status'[p] = "approved" => p \in approvals
    BY <1>0, <1>5 DEF OpenWrites, ReviewTypeOK
  <2>3. UNCHANGED <<approvals, told>>
    BY <1>5 DEF OpenWrites
  <2> QED
    BY <1>0, <2>1, <2>2, <2>3, ApprovalFrame
<1>6. ASSUME NEW h \in Calls, OpenAsks(h) \/ PollWaits(h) PROVE ApprovalInv'
  <2>1. PICK x : /\ call' = [call EXCEPT ![h] = x] /\ x.pc \in {"reply", "read"}
                 /\ x.pc = "reply" => x.approved = FALSE
    BY <1>6 DEF OpenAsks, PollWaits, Answer
  <2>2. UNCHANGED <<status, approvals, told>>
    BY <1>6 DEF OpenAsks, PollWaits
  <2> QED
    BY <1>0, <2>1, <2>2, ApprovalFrame
<1>7. ASSUME NEW h \in Calls, PollParks(h) PROVE ApprovalInv'
  <2> DEFINE x == [pc |-> "read", plan |-> call[h].plan]
  <2>1. call' = [call EXCEPT ![h] = x] /\ x.pc = "read" /\ UNCHANGED <<status, approvals, told>>
    BY <1>7 DEF PollParks
  <2> HIDE DEF x
  <2> QED
    BY <1>0, <2>1, ApprovalFrame
<1>8. ASSUME NEW h \in Calls, PollReads(h) PROVE ApprovalInv'
  <2> DEFINE x == [pc |-> "take", plan |-> call[h].plan, seen |-> status[call[h].plan]]
  <2>1. /\ call' = [call EXCEPT ![h] = x] /\ UNCHANGED <<status, approvals, told>>
        /\ x.pc = "take" /\ x.plan = call[h].plan /\ x.seen = status[call[h].plan]
    BY <1>8 DEF PollReads
  <2>2. call[h].plan \in Plans
    BY <1>8, CallForms DEF PollReads
  <2> HIDE DEF x
  <2> QED
    BY <1>0, <2>1, <2>2, ApprovalFrame
<1>9. ASSUME NEW h \in Calls, PollTakes(h) \/ PollEnds(h) PROVE ApprovalInv'
  <2>2. call[h].pc = "take" /\ UNCHANGED <<status, approvals, told>>
    BY <1>9 DEF PollTakes, PollEnds
  <2>4. PICK items \in SUBSET Batches : call' = [call EXCEPT ![h] = Delivery(h, items)]
    <3>1. {b.id : b \in Due(call[h].plan)} \in SUBSET Batches
      BY DEF Due, ReviewTypeOK, Batch
    <3> QED
      BY <1>9, <3>1 DEF PollTakes, PollEnds
  <2> DEFINE x == Delivery(h, items)
  <2>1. x.pc = "wake" /\ x.plan = call[h].plan /\ (x.approved => call[h].seen = "approved")
    <3>1. x.pc = "wake" /\ x.plan = call[h].plan
      BY <2>2, DeliveryForm
    <3> DEFINE a == call[h].seen = "approved"
    <3>2. a \in BOOLEAN /\ x = [Answer(call[h].plan, items,
              IF Ended(call[h].seen) THEN "stop" ELSE "open", a) EXCEPT !.pc = "wake"]
      BY DEF Delivery
    <3> HIDE DEF a
    <3>3. x.approved = a
      BY <3>2, AnswerTells
    <3> QED
      BY <3>1, <3>3 DEF a
  <2> HIDE DEF x
  <2>3. x.approved => call[h].plan \in approvals
    BY <2>1, <2>2 DEF ApprovalInv
  <2>5. call' = [call EXCEPT ![h] = x]
    BY <2>4 DEF x
  <2> QED
    BY <1>0, <2>1, <2>2, <2>3, <2>5, ApprovalFrame
<1>10. ASSUME NEW h \in Calls, PollWakes(h) PROVE ApprovalInv'
  <2> DEFINE x == [call[h] EXCEPT !.pc = "reply"]
  <2>1. call[h].pc = "wake" /\ call' = [call EXCEPT ![h] = x] /\ UNCHANGED <<status, approvals, told>>
    BY <1>10 DEF PollWakes
  <2>2. x.pc = "reply" /\ x.plan = call[h].plan /\ x.approved = call[h].approved
    BY <2>1, CallForms
  <2> HIDE DEF x
  <2>3. x.approved => x.plan \in approvals
    BY <2>1, <2>2 DEF ApprovalInv
  <2> QED
    BY <1>0, <2>1, <2>2, <2>3, ApprovalFrame
<1>11. ASSUME NEW h \in Calls, Reply(h) PROVE ApprovalInv'
  <2>1. NoRequest.pc = "idle" /\ call[h].pc = "reply" /\ UNCHANGED <<status, approvals>>
        /\ call' = [call EXCEPT ![h] = NoRequest]
    BY <1>11 DEF Reply, NoRequest
  <2>2. told' \subseteq approvals
    <3>1. call[h].approved => call[h].plan \in approvals
      BY <2>1 DEF ApprovalInv
    <3> QED
      BY <1>0, <1>11, <3>1 DEF Reply
  <2> QED
    BY <1>0, <2>1, <2>2, ApprovalFrame
<1>12. ASSUME NEW u \in Humans, SubmitQueues(u) \/ SubmitResolves(u) PROVE ApprovalInv'
  BY <1>12 DEF SubmitQueues, SubmitResolves, ApprovalInv
<1>13. ASSUME NEW u \in Humans, SubmitConcludes(u) PROVE ApprovalInv'
  <2>1. approvals \subseteq approvals' /\ UNCHANGED <<call, told>>
    BY <1>13 DEF SubmitConcludes
  <2>2. \A p \in Plans : status'[p] = "approved" => p \in approvals'
    BY <1>0, <1>13 DEF SubmitConcludes, ReviewTypeOK
  <2> QED
    BY <2>1, <2>2 DEF ApprovalInv
<1>14. ASSUME NEW u \in Humans, NEW p \in Plans, NEW act \in Acts, NEW r \in 1 .. MaxRounds,
              Submit(u, p, act, r)
       PROVE  ApprovalInv'
  BY <1>14 DEF Submit, ApprovalInv
<1>15. CASE UNCHANGED reviewVars
  BY <1>15 DEF reviewVars, ApprovalInv
<1> QED
  BY <1>1, <1>2, <1>3, <1>4, <1>5, <1>6, <1>7, <1>8, <1>9, <1>10, <1>11, <1>12, <1>13, <1>14, <1>15
     DEF ReviewNext, AgentStep, Handler, Submission

-----------------------------------------------------------------------------
(* Batches.                                                                 *)

\* Where an answered batch is.
LEMMA AnsweredMeans ==
    /\ \A i : i \in Answered <=> i \in heard \/ i \in lost \/ \E g \in Calls : i \in InReply(g)
    /\ \A i : i \in Answered' <=> i \in heard' \/ i \in lost' \/ \E g \in Calls : i \in InReply(g)'
<1>1. \A i : i \in Answered <=> i \in heard \/ i \in lost \/ \E g \in Calls : i \in InReply(g)
  BY DEF Answered
<1>2. \A i : i \in Answered' <=> i \in heard' \/ i \in lost' \/ \E g \in Calls : i \in InReply(g)'
  BY DEF Answered, InReply
<1> QED
  BY <1>1, <1>2

\* A step of one handler changes what is in its answer, and in no other.
LEMMA RepliesChange ==
    ASSUME ReviewTypeOK, NEW h \in Calls, NEW x, call' = [call EXCEPT ![h] = x]
    PROVE  \A g \in Calls :
               InReply(g)' = IF g # h THEN InReply(g)
                             ELSE IF x.pc \in {"wake", "reply"} THEN x.items ELSE {}
<1>1. \A g \in Calls : call'[g] = IF g = h THEN x ELSE call[g]
  BY DEF ReviewTypeOK
<1> QED
  BY <1>1 DEF InReply

\* A step that moves no batch keeps the invariant.
LEMMA BatchFrame ==
    ASSUME BatchInv, UNCHANGED <<queued, stored, heard, lost, batches>>,
           \A g \in Calls : InReply(g)' = InReply(g),
           \A u \in Humans : human'[u].pc = "queue" => human'[u] = human[u]
    PROVE  BatchInv'
<1>1. Answered' = Answered /\ Waiting' = Waiting
  BY DEF Answered, Waiting
<1>2. NumbersInv'
  BY <1>1 DEF BatchInv, NumbersInv
<1>3. FeedbackKept'
  BY <1>1 DEF BatchInv, FeedbackKept, DeliveredOnce, NothingVanishes
<1> QED
  BY <1>2, <1>3 DEF BatchInv

\* A poll moves the batches of a round from the queue into its answer.
LEMMA TakeKeeps ==
    ASSUME ReviewTypeOK, BatchInv, NEW h \in Calls, PollTakes(h)
    PROVE  BatchInv'
<1> DEFINE due   == Due(call[h].plan)
           items == {b.id : b \in due}
<1>1. /\ call[h].pc = "take" /\ due \subseteq queued /\ queued' = queued \ due
      /\ call' = [call EXCEPT ![h] = Delivery(h, items)]
      /\ UNCHANGED <<stored, heard, lost, batches, human>>
  BY DEF PollTakes, Due, agentVars, countVars
<1>2. items \in SUBSET Batches
  BY DEF Due, ReviewTypeOK, Batch
<1>3. Delivery(h, items).pc = "wake" /\ Delivery(h, items).items = items
  BY <1>1, <1>2, DeliveryForm
<1>4. InReply(h) = {} /\ InReply(h)' = items /\ \A g \in Calls \ {h} : InReply(g)' = InReply(g)
  <2>1. InReply(h) = {}
    BY <1>1 DEF InReply
  <2> DEFINE x == Delivery(h, items)
  <2>2. call' = [call EXCEPT ![h] = x] /\ x.pc = "wake" /\ x.items = items
    BY <1>1, <1>3
  <2> HIDE DEF x, items
  <2> QED
    BY <2>1, <2>2, RepliesChange
<1>5. Answered' = Answered \union items
  BY <1>1, <1>4 DEF Answered
<1>6. Waiting = Waiting' \union items
  BY <1>1 DEF Waiting
<1>7. Waiting' \intersect items = {}
  BY <1>1 DEF Waiting, BatchInv, NumbersInv
<1>8. Waiting \intersect Answered = {}
  BY DEF BatchInv, FeedbackKept, DeliveredOnce
<1> HIDE DEF items, due
<1>9. items \subseteq stored
  BY <1>6 DEF BatchInv, NumbersInv, Waiting
<1>10. NumbersInv'
  BY <1>1, <1>5, <1>9 DEF BatchInv, NumbersInv
<1>11. (\A g \in Calls : InReply(g) \subseteq Answered) /\ heard \union lost \subseteq Answered
  BY AnsweredMeans
<1>12. DeliveredOnce'
  <2>1. (Waiting \intersect Answered)' = {}
    BY <1>5, <1>6, <1>7, <1>8
  <2>2. items \intersect Answered = {}
    BY <1>6, <1>8
  <2>3. \A g \in Calls : InReply(g)' \intersect (heard \union lost)' = {}
    BY <1>1, <1>4, <1>11, <2>2 DEF BatchInv, FeedbackKept, DeliveredOnce
  <2>4. \A g \in Calls : \A f \in Calls \ {g} : InReply(f)' \intersect InReply(g)' = {}
    BY <1>4, <1>11, <2>2 DEF BatchInv, FeedbackKept, DeliveredOnce
  <2> QED
    BY <2>1, <2>3, <2>4 DEF DeliveredOnce
<1>13. NothingVanishes'
  BY <1>1, <1>5, <1>6 DEF BatchInv, FeedbackKept, NothingVanishes
<1> QED
  BY <1>10, <1>12, <1>13 DEF BatchInv, FeedbackKept

\* An answer leaves with its batches: the agent hears them, or nobody does.
LEMMA ReplyKeeps ==
    ASSUME ReviewTypeOK, BatchInv, NEW h \in Calls, Reply(h)
    PROVE  BatchInv'
<1>1. /\ call[h].pc = "reply" /\ call' = [call EXCEPT ![h] = NoRequest]
      /\ UNCHANGED <<queued, stored, batches, human>>
  BY DEF Reply, noteVars, countVars
<1>2. InReply(h) = call[h].items
  BY <1>1 DEF InReply
<1>3. InReply(h)' = {} /\ \A g \in Calls \ {h} : InReply(g)' = InReply(g)
  <2>1. NoRequest.pc = "idle"
    BY DEF NoRequest
  <2> QED
    BY <1>1, <2>1, RepliesChange
<1>4. (heard \union lost)' = heard \union lost \union InReply(h)
  BY <1>2 DEF Reply
<1>5. Answered' = Answered /\ Waiting' = Waiting
  <2>1. Answered' \subseteq Answered /\ Answered \subseteq Answered'
    BY <1>3, <1>4, AnsweredMeans
  <2> QED
    BY <1>1, <2>1 DEF Waiting
<1>6. NumbersInv'
  BY <1>1, <1>5 DEF BatchInv, NumbersInv
<1>7. DeliveredOnce'
  BY <1>3, <1>4, <1>5 DEF BatchInv, FeedbackKept, DeliveredOnce
<1>8. NothingVanishes'
  BY <1>1, <1>5 DEF BatchInv, FeedbackKept, NothingVanishes
<1> QED
  BY <1>6, <1>7, <1>8 DEF BatchInv, FeedbackKept

\* A crash loses what was in an answer, and nothing else.
LEMMA CrashKeeps ==
    ASSUME ReviewTypeOK, BatchInv, ReviewCrash
    PROVE  BatchInv'
<1>1. \A g \in Calls : InReply(g)' = {}
  BY DEF ReviewCrash, InReply, NoRequest
<1>2. UNCHANGED <<queued, stored, heard, batches>> /\ lost' = lost \union (UNION {InReply(h) : h \in Calls})
  BY DEF ReviewCrash, noteVars
<1>3. Answered' = Answered /\ Waiting' = Waiting
  <2>1. Answered' \subseteq Answered /\ Answered \subseteq Answered'
    BY <1>1, <1>2, AnsweredMeans
  <2> QED
    BY <1>2, <2>1 DEF Waiting
<1>4. \A u \in Humans : human'[u].pc # "queue"
  BY DEF ReviewCrash, NoRequest
<1>5. NumbersInv'
  BY <1>2, <1>3, <1>4 DEF BatchInv, NumbersInv
<1>6. FeedbackKept'
  BY <1>1, <1>2, <1>3 DEF BatchInv, FeedbackKept, DeliveredOnce, NothingVanishes
<1> QED
  BY <1>5, <1>6 DEF BatchInv

\* A submission stores its batch under the number it drew.
LEMMA QueueKeeps ==
    ASSUME ReviewTypeOK, BatchInv, NEW u \in Humans, SubmitQueues(u)
    PROVE  BatchInv'
<1> DEFINE id == human[u].id
           b  == [id |-> human[u].id, plan |-> human[u].plan, round |-> human[u].round]
<1>1. /\ human[u].pc = "queue" /\ queued' = queued \union {b} /\ stored' = stored \union {id}
      /\ human' = [human EXCEPT ![u].pc = "resolve"]
      /\ UNCHANGED <<call, heard, lost, batches>>
  BY DEF SubmitQueues, agentVars, countVars
<1>2. b.id = id
  OBVIOUS
<1> HIDE DEF b
<1>3. Answered' = Answered /\ Waiting' = Waiting \union {id} /\ \A g \in Calls : InReply(g)' = InReply(g)
  BY <1>1, <1>2 DEF Answered, Waiting, InReply
<1>4. id \notin stored /\ id <= batches
  BY <1>1 DEF BatchInv, NumbersInv
<1>5. \A w \in Humans : human'[w].pc = "queue" => w # u /\ human'[w] = human[w]
  BY <1>1, HumanForms DEF ReviewTypeOK
<1>6. \A w \in Humans \ {u} : human[w].pc = "queue" => human[w].id # id
  BY <1>1 DEF BatchInv, NumbersInv
<1>7. id \notin Answered
  BY <1>4 DEF BatchInv, NumbersInv
<1>8. \A c \in queued : c.id # b.id
  BY <1>2, <1>4 DEF BatchInv, NumbersInv
<1>9. NumbersInv'
  <2>1. \A i \in stored' : i <= batches'
    BY <1>1, <1>4 DEF BatchInv, NumbersInv
  <2>2. (\A c \in queued : c.id \in stored)' /\ (\A c, d \in queued : c.id = d.id => c = d)'
    BY <1>1, <1>2, <1>8 DEF BatchInv, NumbersInv
  <2>3. Answered' \subseteq stored'
    BY <1>1, <1>3 DEF BatchInv, NumbersInv
  <2>4. \A w \in Humans : human'[w].pc = "queue" =>
          /\ human'[w].id <= batches' /\ human'[w].id \notin stored'
          /\ \A v \in Humans \ {w} : human'[v].pc = "queue" => human'[v].id # human'[w].id
    BY <1>1, <1>5, <1>6 DEF BatchInv, NumbersInv
  <2> QED
    BY <2>1, <2>2, <2>3, <2>4 DEF NumbersInv
<1>10. FeedbackKept'
  BY <1>1, <1>3, <1>7 DEF BatchInv, FeedbackKept, DeliveredOnce, NothingVanishes
<1> QED
  BY <1>9, <1>10 DEF BatchInv

\* A submission draws a number nobody has drawn.
LEMMA SubmitKeeps ==
    ASSUME ReviewTypeOK, BatchInv,
           NEW u \in Humans, NEW p \in Plans, NEW act \in Acts, NEW r \in 1 .. MaxRounds,
           Submit(u, p, act, r)
    PROVE  BatchInv'
<1> DEFINE x == [pc |-> "queue", plan |-> p, round |-> r, act |-> act, id |-> batches + 1]
<1>1. /\ batches' = batches + 1 /\ human' = [human EXCEPT ![u] = x]
      /\ UNCHANGED <<queued, stored, call, heard, lost>>
  BY DEF Submit, noteVars, agentVars
<1>2. x.id = batches + 1 /\ batches \in Nat
  BY ReviewAssumption DEF ReviewTypeOK
<1> HIDE DEF x
<1>3. \A w \in Humans : human'[w] = IF w = u THEN x ELSE human[w]
  BY <1>1 DEF ReviewTypeOK
<1>4. stored \subseteq Nat /\ \A w \in Humans : human[w].pc = "queue" => human[w].id \in Nat
  BY HumanForms DEF ReviewTypeOK, Batches
<1>5. Answered' = Answered /\ Waiting' = Waiting /\ \A g \in Calls : InReply(g)' = InReply(g)
  BY <1>1 DEF Answered, Waiting, InReply
<1>6. NumbersInv'
  <2>1. \A i \in stored' : i <= batches'
    BY <1>1, <1>2, <1>4 DEF BatchInv, NumbersInv
  <2>2. batches + 1 \notin stored /\ \A w \in Humans : human[w].pc = "queue" => human[w].id # batches + 1
    BY <1>2, <1>4 DEF BatchInv, NumbersInv
  <2>3. \A w \in Humans : human[w].pc = "queue" => human[w].id <= batches + 1
    BY <1>2, <1>4 DEF BatchInv, NumbersInv
  <2>4. \A w \in Humans : human'[w].pc = "queue" =>
          /\ human'[w].id <= batches' /\ human'[w].id \notin stored'
          /\ \A v \in Humans \ {w} : human'[v].pc = "queue" => human'[v].id # human'[w].id
    BY <1>1, <1>2, <1>3, <2>2, <2>3 DEF BatchInv, NumbersInv
  <2> QED
    BY <1>1, <1>5, <2>1, <2>4 DEF BatchInv, NumbersInv
<1>7. FeedbackKept'
  BY <1>1, <1>5 DEF BatchInv, FeedbackKept, DeliveredOnce, NothingVanishes
<1> QED
  BY <1>6, <1>7 DEF BatchInv

LEMMA BatchNext ==
    ReviewTypeOK /\ BatchInv /\ [ReviewNext]_reviewVars => BatchInv'
<1> SUFFICES ASSUME ReviewTypeOK, BatchInv, [ReviewNext]_reviewVars PROVE BatchInv'
  OBVIOUS
<1> USE DEF planVars, agentVars, countVars, noteVars
<1>1. CASE Killed
  BY <1>1, BatchFrame DEF Killed, InReply
<1>2. CASE ReviewCrash
  BY <1>2, CrashKeeps
<1>3. ASSUME NEW h \in Calls, NEW p \in Plans, Open(h, p) PROVE BatchInv'
  <2> DEFINE x == [pc |-> "write", plan |-> p, seen |-> round[p]]
  <2>1. /\ call' = [call EXCEPT ![h] = x] /\ x.pc = "write" /\ call[h].pc = "idle"
        /\ UNCHANGED <<queued, stored, heard, lost, batches, human>>
    BY <1>3 DEF Open
  <2> HIDE DEF x
  <2>2. InReply(h) = {}
    BY <2>1 DEF InReply
  <2> QED
    BY <2>1, <2>2, RepliesChange, BatchFrame
<1>4. ASSUME NEW h \in Calls, Poll(h) PROVE BatchInv'
  <2>1. PICK p \in ActivePlan : call' = [call EXCEPT ![h] = [pc |-> "park", plan |-> p]]
    BY <1>4 DEF Poll
  <2> DEFINE x == [pc |-> "park", plan |-> p]
  <2>2. /\ call' = [call EXCEPT ![h] = x] /\ x.pc = "park" /\ call[h].pc = "idle"
        /\ UNCHANGED <<queued, stored, heard, lost, batches, human>>
    BY <1>4, <2>1 DEF Poll
  <2> HIDE DEF x
  <2>3. InReply(h) = {}
    BY <2>2 DEF InReply
  <2> QED
    BY <2>2, <2>3, RepliesChange, BatchFrame
<1>5. ASSUME NEW h \in Calls, OpenWrites(h) PROVE BatchInv'
  <2>1. PICK x : /\ call' = [call EXCEPT ![h] = x] /\ x.pc \in {"reply", "ask"}
                 /\ x.pc = "reply" => x.items = {}
    <3>1. CASE call[h].seen = 0 /\ round[call[h].plan] > 0
      BY <1>5, <3>1 DEF OpenWrites, Answer
    <3>2. CASE ~(call[h].seen = 0 /\ round[call[h].plan] > 0)
      <4>1. call' = [call EXCEPT ![h] = [call[h] EXCEPT !.pc = "ask"]]
        BY <1>5, <3>2 DEF OpenWrites
      <4>2. [call[h] EXCEPT !.pc = "ask"].pc = "ask"
        BY <1>5, CallForms DEF OpenWrites
      <4> QED
        BY <4>1, <4>2
    <3> QED
      BY <3>1, <3>2
  <2>2. UNCHANGED <<queued, stored, heard, lost, batches, human>> /\ call[h].pc = "write"
    BY <1>5 DEF OpenWrites
  <2>3. InReply(h) = {}
    BY <2>2 DEF InReply
  <2>4. (IF x.pc \in {"wake", "reply"} THEN x.items ELSE {}) = {}
    BY <2>1
  <2>5. \A g \in Calls : InReply(g)' = InReply(g)
    BY <2>1, <2>3, <2>4, RepliesChange
  <2> QED
    BY <2>2, <2>5, BatchFrame
<1>6. ASSUME NEW h \in Calls, OpenAsks(h) \/ PollParks(h) \/ PollReads(h) \/ PollWaits(h)
      PROVE  BatchInv'
  <2>1. PICK x : /\ call' = [call EXCEPT ![h] = x] /\ x.pc \in {"reply", "read", "take"}
                 /\ x.pc = "reply" => x.items = {}
    BY <1>6 DEF OpenAsks, PollParks, PollReads, PollWaits, Answer
  <2>2. /\ UNCHANGED <<queued, stored, heard, lost, batches, human>>
        /\ call[h].pc \in {"ask", "park", "read", "take"}
    BY <1>6 DEF OpenAsks, PollParks, PollReads, PollWaits
  <2>3. InReply(h) = {}
    BY <2>2 DEF InReply
  <2>4. (IF x.pc \in {"wake", "reply"} THEN x.items ELSE {}) = {}
    BY <2>1
  <2>5. \A g \in Calls : InReply(g)' = InReply(g)
    BY <2>1, <2>3, <2>4, RepliesChange
  <2> QED
    BY <2>2, <2>5, BatchFrame
<1>7. ASSUME NEW h \in Calls, PollTakes(h) PROVE BatchInv'
  BY <1>7, TakeKeeps
<1>8. ASSUME NEW h \in Calls, PollEnds(h) PROVE BatchInv'
  <2> DEFINE x == Delivery(h, {})
  <2>1. /\ call' = [call EXCEPT ![h] = x] /\ call[h].pc = "take"
        /\ UNCHANGED <<queued, stored, heard, lost, batches, human>>
    BY <1>8 DEF PollEnds
  <2>2. x.pc = "wake" /\ x.items = {}
    BY <2>1, DeliveryForm
  <2> HIDE DEF x
  <2>3. InReply(h) = {}
    BY <2>1 DEF InReply
  <2> QED
    BY <2>1, <2>2, <2>3, RepliesChange, BatchFrame
<1>9. ASSUME NEW h \in Calls, PollWakes(h) PROVE BatchInv'
  <2> DEFINE x == [call[h] EXCEPT !.pc = "reply"]
  <2>1. /\ call' = [call EXCEPT ![h] = x] /\ call[h].pc = "wake"
        /\ UNCHANGED <<queued, stored, heard, lost, batches, human>>
    BY <1>9 DEF PollWakes
  <2>2. x.pc = "reply" /\ x.items = call[h].items
    BY <2>1, CallForms
  <2> HIDE DEF x
  <2>3. InReply(h) = call[h].items
    BY <2>1 DEF InReply
  <2> QED
    BY <2>1, <2>2, <2>3, RepliesChange, BatchFrame
<1>10. ASSUME NEW h \in Calls, Reply(h) PROVE BatchInv'
  BY <1>10, ReplyKeeps
<1>11. ASSUME NEW u \in Humans, SubmitQueues(u) PROVE BatchInv'
  BY <1>11, QueueKeeps
<1>12. ASSUME NEW u \in Humans, SubmitResolves(u) \/ SubmitConcludes(u) PROVE BatchInv'
  <2>1. UNCHANGED <<queued, stored, heard, lost, batches, call>>
    BY <1>12 DEF SubmitResolves, SubmitConcludes
  <2>2. \A w \in Humans : human'[w].pc = "queue" => human'[w] = human[w]
    <3>1. \A w \in Humans \ {u} : human'[w] = human[w]
      BY <1>12 DEF SubmitResolves, SubmitConcludes, ReviewTypeOK
    <3>2. human'[u].pc # "queue"
      <4>1. human'[u] = NoRequest \/ human'[u] = [human[u] EXCEPT !.pc = "conclude"]
        BY <1>12 DEF SubmitResolves, SubmitConcludes, ReviewTypeOK
      <4>2. NoRequest.pc = "idle"
        BY DEF NoRequest
      <4>3. human[u].pc # "idle" => [human[u] EXCEPT !.pc = "conclude"].pc = "conclude"
        BY DEF ReviewTypeOK, HumanStates, NoRequest
      <4> QED
        BY <1>12, <4>1, <4>2, <4>3 DEF SubmitResolves, SubmitConcludes
    <3> QED
      BY <3>1, <3>2
  <2>3. \A g \in Calls : InReply(g)' = InReply(g)
    BY <2>1 DEF InReply
  <2> QED
    BY <2>1, <2>2, <2>3, BatchFrame
<1>13. ASSUME NEW u \in Humans, NEW p \in Plans, NEW act \in Acts, NEW r \in 1 .. MaxRounds,
              Submit(u, p, act, r)
       PROVE  BatchInv'
  BY <1>13, SubmitKeeps
<1>14. CASE UNCHANGED reviewVars
  <2>1. \A g \in Calls : InReply(g)' = InReply(g)
    BY <1>14 DEF reviewVars, InReply
  <2> QED
    BY <1>14, <2>1, BatchFrame DEF reviewVars
<1> QED
  BY <1>1, <1>2, <1>3, <1>4, <1>5, <1>6, <1>7, <1>8, <1>9, <1>10, <1>11, <1>12, <1>13, <1>14
     DEF ReviewNext, AgentStep, Handler, Submission

-----------------------------------------------------------------------------
(* The theorems.                                                            *)

LEMMA InvInit == ReviewInit => ReviewInv
<1> SUFFICES ASSUME ReviewInit PROVE ReviewInv
  OBVIOUS
<1>1. ReviewTypeOK
  BY TypeInit
<1>2. Answered = {} /\ Waiting = {} /\ \A h \in Calls : InReply(h) = {}
  <2>1. \A h \in Calls : InReply(h) = {}
    BY DEF ReviewInit, InReply, NoRequest
  <2> QED
    BY <2>1 DEF ReviewInit, Answered, Waiting
<1>3. BatchInv
  BY <1>2 DEF ReviewInit, BatchInv, NumbersInv, FeedbackKept, DeliveredOnce, NothingVanishes, NoRequest
<1>4. ApprovalInv
  BY DEF ReviewInit, ApprovalInv, NoRequest
<1> QED
  BY <1>1, <1>3, <1>4 DEF ReviewInv

LEMMA InvHolds == ReviewSpec => []ReviewInv
<1>1. ReviewInv /\ [ReviewNext]_reviewVars => ReviewInv'
  BY TypeNext, BatchNext, ApprovalNext DEF ReviewInv
<1> QED
  BY InvInit, <1>1, PTL DEF ReviewSpec

\* Rows, handlers and submissions stay well formed through every interleaving
\* of requests, kills and crashes.
THEOREM ReviewTypeCorrect == ReviewSpec => []ReviewTypeOK
<1>1. ReviewInv => ReviewTypeOK
  BY DEF ReviewInv
<1> QED
  BY InvHolds, <1>1, PTL

\* take_queued_batch: a batch that was stored is in the queue or in one answer,
\* whoever polls at the same time, orphaned or not.
THEOREM FeedbackIsKept == ReviewSpec => []FeedbackKept
<1>1. ReviewInv => FeedbackKept
  BY DEF ReviewInv, BatchInv
<1> QED
  BY InvHolds, <1>1, PTL

\* artifact_feedback_poll answers "approved" from a row it read earlier; the
\* agent is still told so only of a plan that a human approved.
THEOREM ToldOnlyApproved == ReviewSpec => []NeverUnapproved
<1>1. ReviewInv => NeverUnapproved
  BY DEF ReviewInv, ApprovalInv, NeverUnapproved
<1> QED
  BY InvHolds, <1>1, PTL
================================================================================
