----------------------------- MODULE Daemon_proofs -----------------------------
(***************************************************************************)
(* Proofs about the parts of MC_Daemon, for any number of daemons,         *)
(* windows and tools, of submits and dialogs, of round types and troubles. *)
(*                                                                         *)
(* DaemonStart.  That one daemon serves follows from LockOK, which says    *)
(* that the lock's holder and the daemons' steps agree.  That the root     *)
(* token outlives its daemon needs to know who held it last: TakenOK       *)
(* follows it from the file through the lock to the next daemon.  That a   *)
(* window is told of a living daemon rests on FilesOK: what was read from  *)
(* the file, however long ago, names a daemon by the token it has.         *)
(*                                                                         *)
(* Rounds.  That attempts are an interval apart rests on MarksOK: the      *)
(* bookmark of a type is that of its last attempt, where nothing put it in *)
(* doubt.                                                                  *)
(*                                                                         *)
(* Steering, then the review, come with their invariants below; the parts  *)
(* share no variable, so the conjunction of their invariants is one of     *)
(* MC_Daemon.                                                              *)
(***************************************************************************)
EXTENDS MC_Daemon, Faults_proofs, FiniteSetTheorems, WellFoundedInduction

HoldSteps == {"locked", "bound", "writing", "up", "serving", "ending", "cleaned"}
AllSteps  == HoldSteps \cup {"unborn", "start", "gone"}
Files     == {NoInfo, Torn} \cup [pid : Daemons, token : Daemons]

Tools ==
    [at : {"none", "probe", "holds", "ask", "post", "wait"}, kind : {"status", "stop"}, info : Files,
     before : SUBSET Daemons, said : {"nothing", "not running", "stopped", "running", "failed"}]

StartTyped ==
    /\ lock \in {Nobody, Prober} \cup Daemons
    /\ published \in Files
    /\ daemons \in [Daemons -> [at : AllSteps, token : {0} \cup Daemons]]
    /\ windows \in [Windows -> [at : {"closed", "read", "waiting", "probing", "attached", "failed"},
                                info : Files]]
    /\ tool \in Tools
    /\ budget \in [tools : Nat, crashes : Nat, reloads : Nat]
    /\ budget.tools <= MaxTools /\ budget.crashes <= MaxDeaths /\ budget.reloads <= MaxReloads
    /\ lastToken \in {0} \cup Daemons

\* The lock is held by the daemon that is between its start and its end, or by
\* the tool for its probe.
LockOK ==
    /\ \A d \in Daemons : daemons[d].at \in HoldSteps <=> lock = d
    /\ lock = Prober <=> tool.at = "holds"

TokensOK == \A d \in Daemons : daemons[d].at \in HoldSteps => daemons[d].token \in Daemons

\* What is read in a runtime file is true of the daemon it names, for good.
Tells(i) ==
    i.pid \in Daemons => /\ i.token = daemons[i.pid].token
                         /\ daemons[i.pid].at \in HoldSteps \cup {"gone"}

FilesOK == Tells(published) /\ Tells(tool.info) /\ \A w \in Windows : Tells(windows[w].info)

\* The last token is the one of the file, or the one of who holds the lock.
Kept == lastToken = 0 \/ (published.pid \in Daemons /\ lastToken = published.token)

TakenOK ==
    /\ (\A d \in Daemons : daemons[d].at # "writing") => Kept
    /\ \A d \in Daemons : daemons[d].at \in {"locked", "bound", "writing"} =>
           lastToken \in {0, daemons[d].token}
    /\ \A d \in Daemons : daemons[d].at \in {"up", "serving", "ending"} =>
           published = Info(d) /\ lastToken = daemons[d].token

StopOK ==
    \A d \in tool.before : /\ daemons[d].at \in HoldSteps \cup {"gone"}
                           /\ tool.said = "stopped" => daemons[d].at = "gone"

StartInv == StartTyped /\ LockOK /\ TokensOK /\ FilesOK /\ TakenOK /\ StopOK

-----------------------------------------------------------------------------
(* Daemons that start: the steps one by one.                               *)

LEMMA DaemonsAre == Daemons \subseteq Nat \ {0} /\ Nobody \notin Daemons /\ Prober \notin Daemons
<1>1. Cardinality(Daemons) \in Nat
  BY DaemonAssumption, FS_CardinalityType DEF DaemonAssumption
<1>2. Daemons = 1 .. Cardinality(Daemons)
  BY DaemonAssumption DEF DaemonAssumption
<1> QED
  BY <1>1, <1>2 DEF Nobody, Prober

LEMMA FilesAre ==
    /\ NoInfo \in Files /\ Torn \in Files /\ Tells(NoInfo) /\ Tells(Torn)
    /\ NoInfo.pid \notin Daemons
    /\ \A i \in Files : Readable(i) => i.pid \in Daemons /\ i.token \in Daemons
    /\ \A i \in Files : i.pid \in Daemons => Readable(i)
BY DaemonsAre DEF Files, Tells, NoInfo, Torn, Readable, Nobody, Prober

LEMMA StartBegins == DaemonInit => StartInv
<1> SUFFICES ASSUME DaemonInit PROVE StartInv
  OBVIOUS
<1>1. StartTyped
  BY FilesAre, DaemonAssumption
  DEF DaemonInit, StartTyped, NoTool, Tools, AllSteps, HoldSteps, DaemonAssumption
<1>2. LockOK /\ TokensOK
  BY DaemonsAre DEF DaemonInit, LockOK, TokensOK, NoTool, HoldSteps, Nobody, Prober
<1>3. FilesOK
  BY FilesAre DEF DaemonInit, FilesOK, NoTool
<1>4. TakenOK /\ StopOK
  BY DEF DaemonInit, TakenOK, StopOK, Kept, NoTool
<1> QED
  BY <1>1, <1>2, <1>3, <1>4 DEF StartInv

\* One daemon makes a step and keeps its token.
LEMMA DaemonGoes ==
    ASSUME StartInv, NEW d \in Daemons, NEW s \in AllSteps, Goes(d, s)
    PROVE  /\ daemons' \in [Daemons -> [at : AllSteps, token : {0} \cup Daemons]]
           /\ daemons'[d].at = s
           /\ \A e \in Daemons : daemons'[e].token = daemons[e].token
           /\ \A e \in Daemons \ {d} : daemons'[e].at = daemons[e].at
BY DEF StartInv, StartTyped, Goes

\* What files tell stays true as daemons go on.
LEMMA FilesStayTrue ==
    ASSUME NEW i \in Files, Tells(i),
           \A e \in Daemons : daemons[e].at \in HoldSteps \cup {"gone"} =>
               /\ daemons'[e].at \in HoldSteps \cup {"gone"}
               /\ daemons'[e].token = daemons[e].token
    PROVE  i.pid \in Daemons => /\ i.token = daemons'[i.pid].token
                                /\ daemons'[i.pid].at \in HoldSteps \cup {"gone"}
BY DEF Tells

\* A daemon that has the lock keeps it, and its token.
LEMMA HolderGoesOn ==
    ASSUME StartInv, NEW d \in Daemons, NEW s \in HoldSteps, Goes(d, s), daemons[d].at \in HoldSteps,
           lock' = lock, UNCHANGED << windows, budget >>,
           tool' \in Tools, tool'.before = tool.before, tool'.said = tool.said,
           tool'.info = tool.info, tool'.at = "holds" <=> tool.at = "holds",
           published' \in Files, Tells(published)', lastToken' \in {0} \cup Daemons
    PROVE  StartTyped' /\ LockOK' /\ TokensOK' /\ FilesOK' /\ StopOK'
<1>1. /\ daemons' \in [Daemons -> [at : AllSteps, token : {0} \cup Daemons]]
      /\ daemons'[d].at = s
      /\ \A e \in Daemons : daemons'[e].token = daemons[e].token
      /\ \A e \in Daemons \ {d} : daemons'[e].at = daemons[e].at
  BY DaemonGoes DEF AllSteps
<1>2. StartTyped /\ LockOK /\ TokensOK /\ FilesOK /\ StopOK
  BY DEF StartInv
<1>3. StartTyped'
  BY <1>1, <1>2 DEF StartTyped
<1>4. LockOK'
  BY <1>1, <1>2 DEF LockOK
<1>5. TokensOK'
  BY <1>1, <1>2 DEF TokensOK
<1>6. FilesOK'
  <2>1. Tells(tool.info)' 
    BY <1>1, <1>2 DEF FilesOK, Tells
  <2>2. \A w \in Windows : Tells(windows[w].info)'
    BY <1>1, <1>2 DEF FilesOK, Tells
  <2> QED
    BY <2>1, <2>2 DEF FilesOK
<1>7. StopOK'
  <2>1. \A e \in tool.before : e \in Daemons
    BY <1>2 DEF StartTyped, Tools
  <2> QED
    BY <2>1, <1>1, <1>2 DEF StopOK, HoldSteps
<1> QED
  BY <1>3, <1>4, <1>5, <1>6, <1>7

LEMMA StartActs ==
    ASSUME StartInv, NEW d \in Daemons, Acquire(d)
    PROVE  StartInv'
<1>1. /\ daemons[d].at = "start" /\ UNCHANGED << published, windows, tool, budget, lastToken >>
      /\ StartTyped /\ LockOK /\ TokensOK /\ FilesOK /\ TakenOK /\ StopOK
  BY DEF Acquire, StepOf, StartInv
<1>2. CASE lock = Nobody
  <2> DEFINE tok == IF Readable(published) THEN published.token ELSE d
  <2>1. lock' = d /\ daemons' = [daemons EXCEPT ![d] = [at |-> "locked", token |-> tok]]
    BY <1>2 DEF Acquire
  <2>2. tok \in Daemons
    BY <1>1, FilesAre DEF StartTyped
  <2>3. /\ daemons' \in [Daemons -> [at : AllSteps, token : {0} \cup Daemons]]
        /\ daemons'[d].at = "locked" /\ daemons'[d].token = tok
        /\ \A e \in Daemons \ {d} : daemons'[e] = daemons[e]
    BY <2>1, <2>2, <1>1 DEF StartTyped, AllSteps, HoldSteps
  <2>4. StartTyped'
    BY <2>1, <2>3, <1>1 DEF StartTyped
  <2>5. \A e \in Daemons : daemons[e].at \notin HoldSteps
    BY <1>1, <1>2, DaemonsAre DEF LockOK
  <2>6. LockOK'
    BY <1>1, <1>2, <2>1, <2>3, <2>5, DaemonsAre DEF LockOK, HoldSteps, Nobody, Prober
  <2>7. TokensOK'
    BY <1>1, <2>2, <2>3 DEF TokensOK
  <2>8. \A e \in Daemons : daemons[e].at \in HoldSteps \cup {"gone"} =>
            daemons'[e].at \in HoldSteps \cup {"gone"} /\ daemons'[e].token = daemons[e].token
    BY <1>1, <2>3 DEF HoldSteps
  <2>9. FilesOK'
    BY <1>1, <2>8 DEF FilesOK, Tells
  <2>10. TakenOK'
    <3>1. Kept
      BY <1>1, <2>5 DEF TakenOK, HoldSteps
    <3>2. lastToken \in {0, tok}
      BY <3>1, <1>1, FilesAre DEF Kept, StartTyped
    <3>3. Kept'
      BY <3>1, <1>1 DEF Kept
    <3> QED
      BY <3>2, <3>3, <2>3, <2>5, <1>1 DEF TakenOK, HoldSteps
  <2>11. StopOK'
    <3>1. tool.before \subseteq Daemons
      BY <1>1 DEF StartTyped, Tools
    <3> QED
      BY <3>1, <1>1, <2>3, <2>8 DEF StopOK, HoldSteps
  <2> QED
    BY <2>4, <2>6, <2>7, <2>9, <2>10, <2>11 DEF StartInv
<1>3. CASE lock # Nobody
  <2>1. lock' = lock /\ Goes(d, "gone")
    BY <1>3 DEF Acquire
  <2>2. /\ daemons' \in [Daemons -> [at : AllSteps, token : {0} \cup Daemons]]
        /\ daemons'[d].at = "gone"
        /\ \A e \in Daemons : daemons'[e].token = daemons[e].token
        /\ \A e \in Daemons \ {d} : daemons'[e].at = daemons[e].at
    BY <2>1, DaemonGoes DEF AllSteps
  <2>3. StartTyped'
    BY <2>1, <2>2, <1>1 DEF StartTyped
  <2>4. LockOK' /\ TokensOK'
    BY <1>1, <2>1, <2>2 DEF LockOK, TokensOK, HoldSteps
  <2>5. FilesOK'
    BY <1>1, <2>2 DEF FilesOK, Tells
  <2>6. TakenOK'
    <3>1. Kept' = Kept
      BY <1>1 DEF Kept
    <3>2. \A e \in Daemons : daemons[e].at = "writing" <=> daemons'[e].at = "writing"
      BY <1>1, <2>2
    <3>3. \A e \in Daemons : Info(e)' = Info(e)
      BY <2>2 DEF Info
    <3> QED
      BY <1>1, <2>2, <3>1, <3>2, <3>3 DEF TakenOK
  <2>7. StopOK'
    <3>1. tool.before \subseteq Daemons
      BY <1>1 DEF StartTyped, Tools
    <3> QED
      BY <3>1, <1>1, <2>2 DEF StopOK
  <2> QED
    BY <2>3, <2>4, <2>5, <2>6, <2>7 DEF StartInv
<1> QED
  BY <1>2, <1>3

\* The holder's steps up to the shutdown, and the shutdown.
LEMMA HolderSteps ==
    ASSUME StartInv, NEW d \in Daemons, Bind(d) \/ TruncateInfo(d) \/ WriteInfo(d) \/ Listens(d) \/ Cleanup(d)
    PROVE  StartInv'
<1>1. /\ StartTyped /\ LockOK /\ TokensOK /\ FilesOK /\ TakenOK /\ StopOK
      /\ UNCHANGED << lock, windows, tool, budget >> /\ tool \in Tools
      /\ daemons[d].at \in HoldSteps
  BY DEF Bind, TruncateInfo, WriteInfo, Listens, Cleanup, StepOf, StartInv, StartTyped, HoldSteps
<1>2. \A e \in Daemons \ {d} : daemons[e].at \notin HoldSteps
  BY <1>1 DEF LockOK
<1>3. daemons[d].token \in Daemons
  BY <1>1 DEF TokensOK
<1> SUFFICES StartTyped' /\ LockOK' /\ TokensOK' /\ FilesOK' /\ StopOK' /\ TakenOK'
  BY DEF StartInv
<1>4. ASSUME NEW s \in HoldSteps, Goes(d, s),
             published' \in Files, Tells(published)', lastToken' \in {0} \cup Daemons
      PROVE  /\ StartTyped' /\ LockOK' /\ TokensOK' /\ FilesOK' /\ StopOK'
             /\ daemons'[d].at = s /\ Info(d)' = Info(d) /\ daemons'[d].token = daemons[d].token
             /\ \A e \in Daemons \ {d} : daemons'[e].at \notin HoldSteps
  <2>1. /\ daemons'[d].at = s
        /\ \A e \in Daemons : daemons'[e].token = daemons[e].token
        /\ \A e \in Daemons \ {d} : daemons'[e].at = daemons[e].at
    BY <1>4, DaemonGoes DEF AllSteps
  <2>2. /\ tool' \in Tools /\ tool'.before = tool.before /\ tool'.said = tool.said
        /\ tool'.info = tool.info /\ (tool'.at = "holds" <=> tool.at = "holds")
    BY <1>1
  <2>3. StartTyped' /\ LockOK' /\ TokensOK' /\ FilesOK' /\ StopOK'
    BY <1>4, <1>1, <2>2, HolderGoesOn
  <2> QED
    BY <2>1, <2>3, <1>2 DEF Info
<1>5. CASE Bind(d)
  <2>1. /\ daemons[d].at = "locked" /\ Goes(d, "bound") /\ UNCHANGED << published, lastToken >>
    BY <1>5 DEF Bind, StepOf
  <2>2. Tells(published)'
    <3>1. /\ \A e \in Daemons : daemons'[e].token = daemons[e].token
          /\ daemons'[d].at = "bound"
          /\ \A e \in Daemons \ {d} : daemons'[e].at = daemons[e].at
      BY <2>1, DaemonGoes DEF AllSteps, HoldSteps
    <3> QED
      BY <3>1, <2>1, <1>1 DEF FilesOK, Tells, HoldSteps
  <2>3. /\ StartTyped' /\ LockOK' /\ TokensOK' /\ FilesOK' /\ StopOK'
        /\ daemons'[d].at = "bound" /\ daemons'[d].token = daemons[d].token
        /\ \A e \in Daemons \ {d} : daemons'[e].at \notin HoldSteps
    BY <1>4, <1>1, <2>1, <2>2 DEF HoldSteps, StartTyped
  <2>4. Kept' /\ lastToken \in {0, daemons[d].token}
    BY <2>1, <1>1, <1>2 DEF TakenOK, Kept, HoldSteps
  <2> QED
    BY <2>3, <2>4, <2>1 DEF TakenOK, HoldSteps
<1>6. CASE TruncateInfo(d)
  <2>1. /\ daemons[d].at = "bound" /\ Goes(d, "writing") /\ published' = Torn /\ lastToken' = lastToken
    BY <1>6 DEF TruncateInfo, StepOf
  <2>2. Tells(published)' /\ published' \in Files
    BY <2>1, FilesAre, DaemonsAre DEF Tells, Torn
  <2>3. /\ StartTyped' /\ LockOK' /\ TokensOK' /\ FilesOK' /\ StopOK'
        /\ daemons'[d].at = "writing" /\ daemons'[d].token = daemons[d].token
        /\ \A e \in Daemons \ {d} : daemons'[e].at \notin HoldSteps
    BY <1>4, <1>1, <2>1, <2>2 DEF HoldSteps, StartTyped
  <2>4. lastToken \in {0, daemons[d].token}
    BY <2>1, <1>1 DEF TakenOK
  <2> QED
    BY <2>3, <2>4, <2>1 DEF TakenOK, HoldSteps
<1>7. CASE WriteInfo(d)
  <2>1. /\ daemons[d].at = "writing" /\ Goes(d, "up") /\ published' = Info(d)
        /\ lastToken' = daemons[d].token
    BY <1>7 DEF WriteInfo, StepOf
  <2>2. Tells(published)' /\ published' \in Files
    <3>1. /\ daemons'[d].token = daemons[d].token /\ daemons'[d].at = "up"
      BY <2>1, DaemonGoes DEF AllSteps, HoldSteps
    <3> QED
      BY <3>1, <2>1, <1>3 DEF Tells, Info, Files, HoldSteps
  <2>3. /\ StartTyped' /\ LockOK' /\ TokensOK' /\ FilesOK' /\ StopOK'
        /\ daemons'[d].at = "up" /\ daemons'[d].token = daemons[d].token /\ Info(d)' = Info(d)
        /\ \A e \in Daemons \ {d} : daemons'[e].at \notin HoldSteps
    BY <1>4, <1>3, <2>1, <2>2 DEF HoldSteps
  <2>4. Kept'
    BY <2>1 DEF Kept, Info
  <2> QED
    BY <2>3, <2>4, <2>1 DEF TakenOK, HoldSteps
<1>8. CASE Listens(d)
  <2>1. /\ daemons[d].at = "up" /\ Goes(d, "serving") /\ UNCHANGED << published, lastToken >>
    BY <1>8 DEF Listens, StepOf
  <2>2. published = Info(d) /\ lastToken = daemons[d].token
    BY <2>1, <1>1 DEF TakenOK
  <2>3. Tells(published)'
    <3>1. /\ daemons'[d].token = daemons[d].token /\ daemons'[d].at = "serving"
      BY <2>1, DaemonGoes DEF AllSteps, HoldSteps
    <3> QED
      BY <3>1, <2>1, <2>2 DEF Tells, Info, HoldSteps
  <2>4. /\ StartTyped' /\ LockOK' /\ TokensOK' /\ FilesOK' /\ StopOK'
        /\ daemons'[d].at = "serving" /\ daemons'[d].token = daemons[d].token /\ Info(d)' = Info(d)
        /\ \A e \in Daemons \ {d} : daemons'[e].at \notin HoldSteps
    BY <1>4, <1>1, <2>1, <2>3 DEF HoldSteps, StartTyped
  <2>5. Kept'
    BY <2>1, <2>2 DEF Kept, Info
  <2> QED
    BY <2>4, <2>5, <2>2, <2>1 DEF TakenOK, HoldSteps
<1>9. CASE Cleanup(d)
  <2>1. /\ daemons[d].at = "ending" /\ Goes(d, "cleaned") /\ published' = NoInfo /\ lastToken' = 0
    BY <1>9 DEF Cleanup, StepOf
  <2>2. Tells(published)' /\ published' \in Files
    BY <2>1, FilesAre DEF Tells
  <2>3. /\ StartTyped' /\ LockOK' /\ TokensOK' /\ FilesOK' /\ StopOK'
        /\ daemons'[d].at = "cleaned" /\ daemons'[d].token = daemons[d].token
        /\ \A e \in Daemons \ {d} : daemons'[e].at \notin HoldSteps
    BY <1>4, <2>1, <2>2 DEF HoldSteps
  <2>4. Kept'
    BY <2>1 DEF Kept
  <2> QED
    BY <2>3, <2>4 DEF TakenOK, HoldSteps
<1> QED
  BY <1>5, <1>6, <1>7, <1>8, <1>9

\* A daemon that ends, or dies, lets go of the lock and keeps what was told of it.
LEMMA DaemonEnds ==
    ASSUME StartInv, NEW d \in Daemons, daemons[d].at \notin {"unborn", "gone"}, Goes(d, "gone"),
           lock' = IF lock = d THEN Nobody ELSE lock, UNCHANGED << published, windows >>,
           tool' \in Tools, tool'.before = tool.before, tool'.at = "holds" <=> tool.at = "holds",
           tool'.info \in {tool.info, NoInfo}, tool'.said \in {tool.said, "failed"},
           lastToken' = IF daemons[d].at = "writing" THEN 0 ELSE lastToken,
           budget' \in [tools : Nat, crashes : Nat, reloads : Nat],
           budget'.tools <= MaxTools, budget'.crashes <= MaxDeaths, budget'.reloads <= MaxReloads
    PROVE  StartInv'
<1>1. /\ daemons' \in [Daemons -> [at : AllSteps, token : {0} \cup Daemons]]
      /\ daemons'[d].at = "gone"
      /\ \A e \in Daemons : daemons'[e].token = daemons[e].token
      /\ \A e \in Daemons \ {d} : daemons'[e].at = daemons[e].at
  BY DaemonGoes DEF AllSteps
<1>2. StartTyped /\ LockOK /\ TokensOK /\ FilesOK /\ TakenOK /\ StopOK
  BY DEF StartInv
<1>3. StartTyped'
  <2>1. lastToken' \in {0} \cup Daemons /\ lock' \in {Nobody, Prober} \cup Daemons
    BY <1>2 DEF StartTyped
  <2> QED
    BY <2>1, <1>1, <1>2 DEF StartTyped
<1>4. LockOK' /\ TokensOK'
  <2>1. \A e \in Daemons : daemons'[e].at \in HoldSteps <=> lock' = e
    BY <1>1, <1>2, DaemonsAre DEF LockOK, HoldSteps
  <2>2. lock' = Prober <=> lock = Prober
    BY DaemonsAre DEF Nobody, Prober
  <2>3. TokensOK'
    BY <1>1, <1>2 DEF TokensOK, HoldSteps
  <2> QED
    BY <2>1, <2>2, <2>3, <1>2 DEF LockOK
<1>5. FilesOK'
  <2>1. Tells(published)' /\ \A w \in Windows : Tells(windows[w].info)'
    BY <1>1, <1>2 DEF FilesOK, Tells
  <2>2. Tells(tool.info)'
    <3>1. CASE tool'.info = tool.info
      BY <3>1, <1>1, <1>2 DEF FilesOK, Tells
    <3>2. CASE tool'.info = NoInfo
      BY <3>2, FilesAre DEF Tells
    <3> QED
      BY <3>1, <3>2
  <2> QED
    BY <2>1, <2>2 DEF FilesOK
<1>6. TakenOK'
  <2>1. \A e \in Daemons : Info(e)' = Info(e)
    BY <1>1 DEF Info
  <2>2. (\A e \in Daemons : daemons'[e].at # "writing") => Kept'
    <3>1. CASE daemons[d].at = "writing"
      BY <3>1 DEF Kept
    <3>2. CASE daemons[d].at # "writing"
      BY <3>2, <1>1, <1>2 DEF TakenOK, Kept
    <3> QED
      BY <3>1, <3>2
  <2>3. CASE lock = d
    <3>1. \A e \in Daemons : daemons'[e].at \notin HoldSteps
      BY <2>3, <1>1, <1>2 DEF LockOK, HoldSteps
    <3> QED
      BY <3>1, <2>2 DEF TakenOK, HoldSteps
  <2>4. CASE lock # d
    <3>1. daemons[d].at \notin HoldSteps /\ lastToken' = lastToken
      BY <2>4, <1>2 DEF LockOK, HoldSteps
    <3>2. \A e \in Daemons : daemons'[e].at # "gone" => daemons'[e].at = daemons[e].at
      BY <1>1
    <3> QED
      BY <3>1, <3>2, <2>1, <2>2, <1>1, <1>2 DEF TakenOK
  <2> QED
    BY <2>3, <2>4
<1>7. StopOK'
  <2>1. tool.before \subseteq Daemons
    BY <1>2 DEF StartTyped, Tools
  <2>2. tool'.said = "stopped" => tool.said = "stopped"
    OBVIOUS
  <2> QED
    BY <2>1, <2>2, <1>1, <1>2 DEF StopOK
<1> QED
  BY <1>3, <1>4, <1>5, <1>6, <1>7 DEF StartInv

LEMMA StartExits == ASSUME StartInv, NEW d \in Daemons, ExitDaemon(d) PROVE StartInv'
<1>1. /\ daemons[d].at = "cleaned" /\ Goes(d, "gone") /\ lock' = Nobody
      /\ UNCHANGED << published, windows, tool, budget, lastToken >>
  BY DEF ExitDaemon, StepOf
<1>2. lock = d /\ tool \in Tools /\ StartTyped
  BY <1>1 DEF StartInv, LockOK, HoldSteps, StartTyped
<1>3. /\ budget' \in [tools : Nat, crashes : Nat, reloads : Nat]
      /\ budget'.tools <= MaxTools /\ budget'.crashes <= MaxDeaths /\ budget'.reloads <= MaxReloads
  BY <1>1, <1>2 DEF StartTyped
<1>4. /\ tool' \in Tools /\ tool'.before = tool.before /\ (tool'.at = "holds" <=> tool.at = "holds")
      /\ tool'.info \in {tool.info, NoInfo} /\ tool'.said \in {tool.said, "failed"}
      /\ daemons[d].at \notin {"unborn", "gone"}
  BY <1>1, <1>2
<1>5. /\ lock' = IF lock = d THEN Nobody ELSE lock
      /\ lastToken' = IF daemons[d].at = "writing" THEN 0 ELSE lastToken
      /\ UNCHANGED << published, windows >>
  BY <1>1, <1>2
<1> QED
  BY <1>1, <1>3, <1>4, <1>5, DaemonEnds

LEMMA BoundsAre == MaxTools \in Nat /\ MaxDeaths \in Nat /\ MaxReloads \in Nat
BY DaemonAssumption DEF DaemonAssumption

LEMMA StartCrashes == ASSUME StartInv, NEW d \in Daemons, CrashOf(d) PROVE StartInv'
<1>1. /\ daemons[d].at \notin {"unborn", "gone"} /\ Goes(d, "gone") /\ UNCHANGED << published, windows, tool >>
      /\ lock' = IF lock = d THEN Nobody ELSE lock
      /\ lastToken' = IF daemons[d].at = "writing" THEN 0 ELSE lastToken
  BY DEF CrashOf, Dies, Alive, StepOf
<1>2. budget.crashes < MaxDeaths /\ budget' = [budget EXCEPT !.crashes = @ + 1]
  BY DEF CrashOf
<1>3. StartTyped /\ tool \in Tools
  BY DEF StartInv, StartTyped
<1>4. /\ budget' \in [tools : Nat, crashes : Nat, reloads : Nat]
      /\ budget'.tools <= MaxTools /\ budget'.crashes <= MaxDeaths /\ budget'.reloads <= MaxReloads
  BY <1>2, <1>3, BoundsAre DEF StartTyped
<1>5. /\ tool' \in Tools /\ tool'.before = tool.before /\ (tool'.at = "holds" <=> tool.at = "holds")
      /\ tool'.info \in {tool.info, NoInfo} /\ tool'.said \in {tool.said, "failed"}
  BY <1>1, <1>3
<1> QED
  BY <1>1, <1>4, <1>5, DaemonEnds

\* A shutdown notice: it moves a daemon that serves to its end.
LEMMA StartNotified ==
    ASSUME StartInv, NEW d \in Daemons, Notified(d), UNCHANGED << lock, published, lastToken >>,
           tool' \in Tools, tool'.before = tool.before, tool'.said = tool.said, tool'.info = tool.info,
           tool'.at = "holds" <=> tool.at = "holds"
    PROVE  /\ daemons' \in [Daemons -> [at : AllSteps, token : {0} \cup Daemons]]
           /\ LockOK' /\ TokensOK' /\ Tells(published)' /\ Tells(tool.info)' /\ TakenOK' /\ StopOK'
           /\ \A i \in Files : Tells(i) => Tells(i)'
<1>1. StartTyped /\ LockOK /\ TokensOK /\ FilesOK /\ TakenOK /\ StopOK
  BY DEF StartInv
<1>2. /\ daemons' \in [Daemons -> [at : AllSteps, token : {0} \cup Daemons]]
      /\ \A e \in Daemons : daemons'[e].token = daemons[e].token
      /\ \A e \in Daemons : daemons'[e].at = daemons[e].at
                            \/ (daemons[e].at = "serving" /\ daemons'[e].at = "ending")
  <2>1. CASE daemons[d].at = "serving"
    <3>1. Goes(d, "ending")
      BY <2>1 DEF Notified, StepOf
    <3> QED
      BY <2>1, <3>1, DaemonGoes DEF AllSteps, HoldSteps
  <2>2. CASE daemons[d].at # "serving"
    BY <2>2, <1>1 DEF Notified, StepOf, StartTyped
  <2> QED
    BY <2>1, <2>2
<1>3. \A e \in Daemons : daemons'[e].at \in HoldSteps <=> daemons[e].at \in HoldSteps
  BY <1>2 DEF HoldSteps
<1>4. LockOK' /\ TokensOK'
  BY <1>1, <1>2, <1>3 DEF LockOK, TokensOK
<1>5. \A i \in Files : Tells(i) => Tells(i)'
  BY <1>2, <1>3 DEF Tells
<1>6. Tells(published)' /\ Tells(tool.info)'
  BY <1>1, <1>5 DEF FilesOK, StartTyped, Tools, Tells
<1>7. TakenOK'
  <2>1. Kept' = Kept /\ \A e \in Daemons : Info(e)' = Info(e)
    BY <1>2 DEF Kept, Info
  <2> QED
    BY <2>1, <1>1, <1>2 DEF TakenOK
<1>8. StopOK'
  <2>1. tool.before \subseteq Daemons
    BY <1>1 DEF StartTyped, Tools
  <2> QED
    BY <2>1, <1>1, <1>2, <1>3 DEF StopOK
<1> QED
  BY <1>2, <1>4, <1>5, <1>6, <1>7, <1>8

LEMMA NextIsUnborn == Unborn # {} => NextDaemon \in Unborn
<1> SUFFICES ASSUME Unborn # {} PROVE NextDaemon \in Unborn
  OBVIOUS
<1> DEFINE R == OpToRel(<, Nat)
<1>1. Unborn \subseteq Nat
  BY DaemonsAre DEF Unborn
<1>2. PICK x \in Unborn : \A y \in Unborn : ~(<< y, x >> \in R)
  BY <1>1, NatLessThanWellFounded, WFMin
<1>3. ASSUME NEW a \in Nat, NEW b \in Nat, a < b PROVE << a, b >> \in R
  BY <1>3 DEF OpToRel
<1> HIDE DEF R
<1>4. ASSUME NEW y \in Unborn PROVE x <= y
  <2>1. x \in Nat /\ y \in Nat /\ ~(y < x)
    BY <1>1, <1>2, <1>3, <1>4
  <2> QED
    BY <2>1
<1> QED
  BY <1>2, <1>4 DEF NextDaemon

\* A window moves on with what it has read.
LEMMA WindowMoves ==
    ASSUME StartInv, NEW w \in Windows, NEW i \in Files, Tells(i),
           UNCHANGED << lock, published, daemons, tool, lastToken >>,
           NEW s \in {"closed", "read", "waiting", "probing", "attached", "failed"}, To(w, s, i),
           budget' \in [tools : Nat, crashes : Nat, reloads : Nat],
           budget'.tools <= MaxTools, budget'.crashes <= MaxDeaths, budget'.reloads <= MaxReloads
    PROVE  StartInv'
<1>1. StartTyped /\ LockOK /\ TokensOK /\ FilesOK /\ TakenOK /\ StopOK
  BY DEF StartInv
<1>2. /\ windows' \in [Windows -> [at : {"closed", "read", "waiting", "probing", "attached", "failed"},
                                info : Files]]
      /\ windows'[w].info = i /\ \A v \in Windows \ {w} : windows'[v].info = windows[v].info
  BY <1>1 DEF To, StartTyped
<1>3. StartTyped'
  BY <1>1, <1>2 DEF StartTyped
<1>4. FilesOK'
  BY <1>1, <1>2 DEF FilesOK, Tells
<1>5. LockOK' /\ TokensOK' /\ StopOK'
  BY <1>1 DEF LockOK, TokensOK, StopOK
<1>6. TakenOK'
  BY <1>1 DEF TakenOK, Kept, Info
<1> QED
  BY <1>3, <1>4, <1>5, <1>6 DEF StartInv

LEMMA WindowStep ==
    ASSUME StartInv, NEW w \in Windows, WindowSteps(w) \/ CloseWindow(w)
    PROVE  StartInv'
<1>1. /\ StartTyped /\ LockOK /\ TokensOK /\ FilesOK /\ TakenOK /\ StopOK
      /\ published \in Files /\ Tells(published) /\ windows[w].info \in Files /\ Tells(windows[w].info)
      /\ UNCHANGED << lock, published, tool, lastToken >>
  BY DEF StartInv, StartTyped, FilesOK, WindowSteps, CloseWindow, OpenWindow, EnsureRunning, Reread, Reprobe,
         GivesUp
<1>2. /\ budget \in [tools : Nat, crashes : Nat, reloads : Nat]
      /\ budget.tools <= MaxTools /\ budget.crashes <= MaxDeaths /\ budget.reloads <= MaxReloads
  BY <1>1 DEF StartTyped
<1>3. CASE UNCHANGED << daemons, budget >>
  <2>1. \E s \in {"closed", "read", "waiting", "probing", "attached", "failed"},
           i \in {published, windows[w].info, NoInfo} : To(w, s, i)
    <3>1. CASE OpenWindow(w)
      BY <3>1 DEF OpenWindow
    <3>2. CASE EnsureRunning(w)
      BY <3>2 DEF EnsureRunning
    <3>3. CASE Reread(w)
      BY <3>3 DEF Reread
    <3>4. CASE Reprobe(w)
      BY <3>4 DEF Reprobe
    <3>5. CASE GivesUp(w)
      BY <3>5 DEF GivesUp
    <3>6. CASE CloseWindow(w)
      BY <3>6 DEF CloseWindow
    <3> QED
      BY <3>1, <3>2, <3>3, <3>4, <3>5, <3>6 DEF WindowSteps
  <2>2. PICK s \in {"closed", "read", "waiting", "probing", "attached", "failed"},
             i \in {published, windows[w].info, NoInfo} : To(w, s, i)
    BY <2>1
  <2>3. i \in Files /\ Tells(i)
    BY <1>1, FilesAre
  <2>4. /\ budget' \in [tools : Nat, crashes : Nat, reloads : Nat]
        /\ budget'.tools <= MaxTools /\ budget'.crashes <= MaxDeaths /\ budget'.reloads <= MaxReloads
    BY <1>2, <1>3
  <2> QED
    BY <2>2, <2>3, <2>4, <1>1, <1>3, WindowMoves
<1>4. CASE CloseWindow(w)
  <2>1. /\ To(w, "closed", NoInfo) /\ UNCHANGED << lock, published, daemons, tool, lastToken >>
        /\ budget.reloads < MaxReloads /\ budget' = [budget EXCEPT !.reloads = @ + 1]
    BY <1>4 DEF CloseWindow
  <2>2. /\ budget' \in [tools : Nat, crashes : Nat, reloads : Nat]
        /\ budget'.tools <= MaxTools /\ budget'.crashes <= MaxDeaths /\ budget'.reloads <= MaxReloads
    BY <1>2, <2>1, BoundsAre
  <2> QED
    BY <2>1, <2>2, FilesAre, WindowMoves
<1>5. CASE /\ EnsureRunning(w) /\ ~AppReaches(windows[w].info)
  <2> DEFINE d == NextDaemon
  <2>1. Unborn # {} /\ Goes(d, "start") /\ To(w, "waiting", NoInfo) /\ budget' = budget
    BY <1>5 DEF EnsureRunning
  <2>2. d \in Daemons /\ daemons[d].at = "unborn"
    BY <2>1, NextIsUnborn DEF Unborn, StepOf
  <2> HIDE DEF d
  <2>3. /\ daemons' \in [Daemons -> [at : AllSteps, token : {0} \cup Daemons]]
        /\ daemons'[d].at = "start"
        /\ \A e \in Daemons : daemons'[e].token = daemons[e].token
        /\ \A e \in Daemons \ {d} : daemons'[e].at = daemons[e].at
    BY <2>1, <2>2, DaemonGoes DEF AllSteps
  <2>4. /\ windows' \in [Windows -> [at : {"closed", "read", "waiting", "probing", "attached", "failed"},
                                info : Files]]
        /\ windows'[w].info = NoInfo /\ \A v \in Windows \ {w} : windows'[v].info = windows[v].info
    BY <2>1, <1>1, FilesAre DEF To, StartTyped
  <2>5. StartTyped'
    BY <2>1, <2>3, <2>4, <1>1 DEF StartTyped
  <2>6. LockOK' /\ TokensOK'
    BY <2>2, <2>3, <1>1 DEF LockOK, TokensOK, HoldSteps
  <2>7. FilesOK'
    <3>1. \A i \in Files : Tells(i) => Tells(i)'
      BY <2>2, <2>3 DEF Tells, HoldSteps
    <3>2. /\ \A v \in Windows : Tells(windows[v].info) /\ windows[v].info \in Files
          /\ tool.info \in Files /\ Tells(tool.info)
      BY <1>1 DEF FilesOK, StartTyped, Tools
    <3>3. \A v \in Windows : Tells(windows[v].info)'
      BY <3>1, <3>2, <2>4, FilesAre DEF Tells
    <3>4. Tells(published)' /\ Tells(tool.info)'
      BY <3>1, <3>2, <1>1 DEF Tells
    <3> QED
      BY <3>3, <3>4 DEF FilesOK
  <2>8. TakenOK'
    <3>1. Kept' = Kept /\ \A e \in Daemons : Info(e)' = Info(e)
      BY <1>1, <2>3 DEF Kept, Info
    <3> QED
      BY <3>1, <2>2, <2>3, <1>1 DEF TakenOK
  <2>9. StopOK'
    <3>1. tool.before \subseteq Daemons
      BY <1>1 DEF StartTyped, Tools
    <3> QED
      BY <3>1, <1>1, <2>2, <2>3 DEF StopOK, HoldSteps
  <2> QED
    BY <2>5, <2>6, <2>7, <2>8, <2>9 DEF StartInv
<1> QED
  BY <1>3, <1>4, <1>5 DEF WindowSteps, OpenWindow, EnsureRunning, Reread, Reprobe, GivesUp

LEMMA WindowStops ==
    ASSUME StartInv, NEW w \in Windows, StopFromWindow(w)
    PROVE  StartInv'
<1>1. /\ To(w, "closed", NoInfo) /\ UNCHANGED << lock, published, tool, lastToken >>
      /\ budget.reloads < MaxReloads /\ budget' = [budget EXCEPT !.reloads = @ + 1]
  BY DEF StopFromWindow
<1>2. StartTyped /\ LockOK /\ TokensOK /\ FilesOK /\ TakenOK /\ StopOK
  BY DEF StartInv
<1>3. /\ budget' \in [tools : Nat, crashes : Nat, reloads : Nat]
      /\ budget'.tools <= MaxTools /\ budget'.crashes <= MaxDeaths /\ budget'.reloads <= MaxReloads
  BY <1>1, <1>2, BoundsAre DEF StartTyped
<1>4. CASE UNCHANGED daemons
  BY <1>4, <1>1, <1>3, FilesAre, WindowMoves
<1>5. CASE \E d \in Daemons : Notified(d)
  <2>1. PICK d \in Daemons : Notified(d)
    BY <1>5
  <2>2. /\ tool' \in Tools /\ tool'.before = tool.before /\ tool'.said = tool.said /\ tool'.info = tool.info
        /\ (tool'.at = "holds" <=> tool.at = "holds")
    BY <1>1, <1>2 DEF StartTyped
  <2>3. /\ daemons' \in [Daemons -> [at : AllSteps, token : {0} \cup Daemons]]
        /\ LockOK' /\ TokensOK' /\ Tells(published)' /\ Tells(tool.info)' /\ TakenOK' /\ StopOK'
        /\ \A i \in Files : Tells(i) => Tells(i)'
    BY <2>1, <2>2, <1>1, StartNotified
  <2>4. /\ windows' \in [Windows -> [at : {"closed", "read", "waiting", "probing", "attached", "failed"},
                                info : Files]]
        /\ windows'[w].info = NoInfo /\ \A v \in Windows \ {w} : windows'[v].info = windows[v].info
    BY <1>1, <1>2, FilesAre DEF To, StartTyped
  <2>5. \A v \in Windows : Tells(windows[v].info)'
    <3>1. \A v \in Windows : Tells(windows[v].info) /\ windows[v].info \in Files
      BY <1>2 DEF FilesOK, StartTyped
    <3> QED
      BY <3>1, <2>3, <2>4, FilesAre DEF Tells
  <2>6. FilesOK'
    BY <2>3, <2>5 DEF FilesOK
  <2>7. StartTyped'
    BY <1>1, <1>2, <1>3, <2>3, <2>4 DEF StartTyped
  <2> QED
    BY <2>3, <2>6, <2>7 DEF StartInv
<1> QED
  BY <1>4, <1>5 DEF StopFromWindow, Answering

\* The tool takes a step of its own: it touches the lock at most.
LEMMA ToolMoves ==
    ASSUME StartInv, tool' \in Tools, Tells(tool.info)', UNCHANGED << published, daemons, windows, lastToken >>,
           lock' \in {lock, Nobody, Prober}, lock' # lock => lock \in {Nobody, Prober},
           lock' = Prober <=> tool'.at = "holds",
           \A d \in tool'.before : /\ daemons[d].at \in HoldSteps \cup {"gone"}
                                   /\ tool'.said = "stopped" => daemons[d].at = "gone",
           budget' \in [tools : Nat, crashes : Nat, reloads : Nat],
           budget'.tools <= MaxTools, budget'.crashes <= MaxDeaths, budget'.reloads <= MaxReloads
    PROVE  StartInv'
<1>1. StartTyped /\ LockOK /\ TokensOK /\ FilesOK /\ TakenOK /\ StopOK
  BY DEF StartInv
<1>2. StartTyped'
  BY <1>1 DEF StartTyped
<1>3. LockOK' /\ TokensOK'
  <2>1. \A d \in Daemons : lock' = d <=> lock = d
    BY DaemonsAre
  <2> QED
    BY <2>1, <1>1 DEF LockOK, TokensOK
<1>4. FilesOK'
  BY <1>1 DEF FilesOK, Tells
<1>5. TakenOK'
  BY <1>1 DEF TakenOK, Kept, Info
<1>6. StopOK'
  BY DEF StopOK
<1> QED
  BY <1>2, <1>3, <1>4, <1>5, <1>6 DEF StartInv

LEMMA ToolStep ==
    ASSUME StartInv, ToolSteps \/ \E kind \in {"status", "stop"} : RunTool(kind)
    PROVE  StartInv'
<1>1. /\ StartTyped /\ LockOK /\ TokensOK /\ FilesOK /\ TakenOK /\ StopOK
      /\ tool \in Tools /\ Tells(tool.info) /\ Tells(published) /\ published \in Files
      /\ tool.before \subseteq Daemons
  BY DEF StartInv, StartTyped, FilesOK, Tools
<1>2. /\ budget \in [tools : Nat, crashes : Nat, reloads : Nat]
      /\ budget.tools <= MaxTools /\ budget.crashes <= MaxDeaths /\ budget.reloads <= MaxReloads
      /\ lock = Prober <=> tool.at = "holds"
  BY <1>1 DEF StartTyped, LockOK
<1>3. ASSUME NEW kind \in {"status", "stop"}, RunTool(kind) PROVE StartInv'
  <2>1. /\ budget.tools < MaxTools /\ budget' = [budget EXCEPT !.tools = @ + 1] /\ tool.at = "none"
        /\ tool' = [NoTool EXCEPT !.at = "probe", !.kind = kind, !.before = Holding]
        /\ UNCHANGED << lock, published, daemons, windows, lastToken >>
    BY <1>3 DEF RunTool, ToolAt
  <2>2. Holding \subseteq Daemons /\ \A d \in Holding : daemons[d].at \in HoldSteps
    BY DEF Holding, StepOf, HoldSteps
  <2>3. /\ tool' \in Tools /\ tool'.at = "probe" /\ tool'.info = NoInfo /\ tool'.before = Holding
        /\ tool'.said = "nothing"
    BY <2>1, <2>2, FilesAre DEF NoTool, Tools
  <2>4. Tells(tool.info)'
    BY <2>3, FilesAre DEF Tells
  <2>5. /\ budget' \in [tools : Nat, crashes : Nat, reloads : Nat]
        /\ budget'.tools <= MaxTools /\ budget'.crashes <= MaxDeaths /\ budget'.reloads <= MaxReloads
    BY <1>2, <2>1, BoundsAre
  <2>6. \A d \in tool'.before : /\ daemons[d].at \in HoldSteps \cup {"gone"}
                                /\ tool'.said = "stopped" => daemons[d].at = "gone"
    BY <2>2, <2>3
  <2>7. lock' \in {lock, Nobody, Prober} /\ (lock' # lock => lock \in {Nobody, Prober})
        /\ (lock' = Prober <=> tool'.at = "holds")
    BY <2>1, <2>3, <1>2
  <2> QED
    BY <2>1, <2>3, <2>4, <2>5, <2>6, <2>7, ToolMoves
<1>4. CASE ProbeLock
  <2>1. /\ tool.at \in {"probe", "wait"} /\ lock = Nobody /\ lock' = Prober
        /\ tool' = [tool EXCEPT !.at = "holds",
                                !.said = IF tool.at = "probe" THEN "not running" ELSE "stopped"]
        /\ UNCHANGED << published, daemons, windows, budget, lastToken >>
    BY <1>4 DEF ProbeLock, ToolAt
  <2>2. /\ tool' \in Tools /\ tool'.at = "holds" /\ tool'.info = tool.info /\ tool'.before = tool.before
    BY <2>1, <1>1 DEF Tools
  <2>3. \A d \in tool.before : daemons[d].at = "gone"
    BY <2>1, <1>1, DaemonsAre DEF LockOK, StopOK
  <2>4. Tells(tool.info)'
    BY <2>1, <2>2, <1>1 DEF Tells
  <2>5. /\ budget' \in [tools : Nat, crashes : Nat, reloads : Nat]
        /\ budget'.tools <= MaxTools /\ budget'.crashes <= MaxDeaths /\ budget'.reloads <= MaxReloads
    BY <1>2, <2>1
  <2>6. \A d \in tool'.before : /\ daemons[d].at \in HoldSteps \cup {"gone"}
                                /\ tool'.said = "stopped" => daemons[d].at = "gone"
    BY <2>2, <2>3
  <2>7. lock' \in {lock, Nobody, Prober} /\ (lock' # lock => lock \in {Nobody, Prober})
        /\ (lock' = Prober <=> tool'.at = "holds")
    BY <2>1, <2>2
  <2> QED
    BY <2>1, <2>2, <2>4, <2>5, <2>6, <2>7, ToolMoves
<1>5. CASE LetGo
  <2>1. /\ tool.at = "holds" /\ lock' = Nobody /\ tool' = [tool EXCEPT !.at = "none"]
        /\ UNCHANGED << published, daemons, windows, budget, lastToken >>
    BY <1>5 DEF LetGo, ToolAt
  <2>2. /\ tool' \in Tools /\ tool'.at = "none" /\ tool'.info = tool.info /\ tool'.before = tool.before
        /\ tool'.said = tool.said
    BY <2>1, <1>1 DEF Tools
  <2>3. Tells(tool.info)'
    BY <2>1, <2>2, <1>1 DEF Tells
  <2>4. /\ budget' \in [tools : Nat, crashes : Nat, reloads : Nat]
        /\ budget'.tools <= MaxTools /\ budget'.crashes <= MaxDeaths /\ budget'.reloads <= MaxReloads
    BY <1>2, <2>1
  <2>5. \A d \in tool'.before : /\ daemons[d].at \in HoldSteps \cup {"gone"}
                                /\ tool'.said = "stopped" => daemons[d].at = "gone"
    BY <2>2, <1>1 DEF StopOK
  <2>6. lock' \in {lock, Nobody, Prober} /\ (lock' # lock => lock \in {Nobody, Prober})
        /\ (lock' = Prober <=> tool'.at = "holds")
    BY <2>1, <2>2, <1>2 DEF Nobody, Prober
  <2> QED
    BY <2>1, <2>2, <2>3, <2>4, <2>5, <2>6, ToolMoves
<1>6. CASE /\ FindRunning \/ ReadInfo \/ PostShutdown \/ StopTimesOut
           /\ UNCHANGED << lock, published, daemons, windows, budget, lastToken >>
  <2>1. /\ tool' \in Tools /\ tool'.before = tool.before /\ tool'.info \in {tool.info, published, NoInfo}
        /\ tool'.said \in {tool.said, "running", "failed"} /\ tool.at # "holds" /\ tool'.at # "holds"
    <3>1. CASE FindRunning
      BY <3>1, <1>1 DEF FindRunning, ToolAt, Tools
    <3>2. CASE ReadInfo
      BY <3>2, <1>1, FilesAre DEF ReadInfo, ToolAt, Tools
    <3>3. CASE PostShutdown
      BY <3>3, <1>1 DEF PostShutdown, ToolAt, Tools
    <3>4. CASE StopTimesOut
      BY <3>4, <1>1, FilesAre DEF StopTimesOut, ToolAt, Tools
    <3> QED
      BY <3>1, <3>2, <3>3, <3>4, <1>6
  <2>2. Tells(tool.info)'
    BY <2>1, <1>1, <1>6, FilesAre DEF Tells
  <2>3. /\ budget' \in [tools : Nat, crashes : Nat, reloads : Nat]
        /\ budget'.tools <= MaxTools /\ budget'.crashes <= MaxDeaths /\ budget'.reloads <= MaxReloads
    BY <1>2, <1>6
  <2>4. \A d \in tool'.before : /\ daemons[d].at \in HoldSteps \cup {"gone"}
                                /\ tool'.said = "stopped" => daemons[d].at = "gone"
    BY <2>1, <1>1 DEF StopOK
  <2>5. lock' \in {lock, Nobody, Prober} /\ (lock' # lock => lock \in {Nobody, Prober})
        /\ (lock' = Prober <=> tool'.at = "holds")
    BY <2>1, <1>2, <1>6
  <2> QED
    BY <2>1, <2>2, <2>3, <2>4, <2>5, <1>6, ToolMoves
<1>7. CASE PostShutdown /\ ~UNCHANGED daemons
  <2>1. /\ tool.at = "post" /\ tool' = [tool EXCEPT !.at = "wait"]
        /\ UNCHANGED << lock, published, windows, budget, lastToken >>
        /\ \E d \in Daemons : Notified(d)
    BY <1>7 DEF PostShutdown, ToolAt, Answering
  <2>2. /\ tool' \in Tools /\ tool'.before = tool.before /\ tool'.said = tool.said /\ tool'.info = tool.info
        /\ (tool'.at = "holds" <=> tool.at = "holds")
    BY <2>1, <1>1 DEF Tools
  <2>3. /\ daemons' \in [Daemons -> [at : AllSteps, token : {0} \cup Daemons]]
        /\ LockOK' /\ TokensOK' /\ Tells(published)' /\ Tells(tool.info)' /\ TakenOK' /\ StopOK'
        /\ \A i \in Files : Tells(i) => Tells(i)'
    BY <2>1, <2>2, StartNotified
  <2>4. StartTyped'
    BY <2>1, <2>2, <2>3, <1>1 DEF StartTyped
  <2>5. \A v \in Windows : Tells(windows[v].info)'
    BY <2>1, <2>3, <1>1 DEF FilesOK, StartTyped, Tells
  <2> QED
    BY <2>3, <2>4, <2>5 DEF StartInv, FilesOK
<1>8. CASE /\ StopTimesOut /\ ~UNCHANGED << lock, daemons, lastToken >>
  <2> DEFINE d == tool.info.pid
  <2>1. /\ tool.at = "wait" /\ tool' = [tool EXCEPT !.info = NoInfo] /\ d \in Alive /\ Dies(d)
        /\ UNCHANGED << published, windows, budget >>
    BY <1>8 DEF StopTimesOut, ToolAt
  <2>2. /\ d \in Daemons /\ daemons[d].at \notin {"unborn", "gone"} /\ Goes(d, "gone")
        /\ lock' = IF lock = d THEN Nobody ELSE lock
        /\ lastToken' = IF daemons[d].at = "writing" THEN 0 ELSE lastToken
    BY <2>1 DEF Dies, Alive, StepOf
  <2>3. /\ tool' \in Tools /\ tool'.before = tool.before /\ (tool'.at = "holds" <=> tool.at = "holds")
        /\ tool'.info \in {tool.info, NoInfo} /\ tool'.said \in {tool.said, "failed"}
    BY <2>1, <1>1, FilesAre DEF Tools
  <2>4. /\ budget' \in [tools : Nat, crashes : Nat, reloads : Nat]
        /\ budget'.tools <= MaxTools /\ budget'.crashes <= MaxDeaths /\ budget'.reloads <= MaxReloads
    BY <1>2, <2>1
  <2>5. PICK e \in Daemons : e = d
    BY <2>2
  <2> HIDE DEF d
  <2>6. /\ daemons[e].at \notin {"unborn", "gone"} /\ Goes(e, "gone")
        /\ lock' = IF lock = e THEN Nobody ELSE lock
        /\ lastToken' = IF daemons[e].at = "writing" THEN 0 ELSE lastToken
    BY <2>2, <2>5
  <2>7. UNCHANGED << published, windows >>
    BY <2>1
  <2> QED
    BY <2>3, <2>4, <2>6, <2>7, DaemonEnds
<1>9. /\ FindRunning \/ ReadInfo => UNCHANGED << lock, published, daemons, windows, budget, lastToken >>
      /\ PostShutdown => UNCHANGED << lock, published, windows, budget, lastToken >>
      /\ StopTimesOut => UNCHANGED << published, windows, budget >>
  BY DEF FindRunning, ReadInfo, PostShutdown, StopTimesOut
<1> QED
  BY <1>3, <1>4, <1>5, <1>6, <1>7, <1>8, <1>9 DEF ToolSteps

LEMMA StartStep == StartInv /\ [DaemonNext]_startVars => StartInv'
<1> SUFFICES ASSUME StartInv, [DaemonNext]_startVars PROVE StartInv'
  OBVIOUS
<1>1. CASE \E d \in Daemons : DaemonSteps(d) \/ CrashOf(d)
  BY <1>1, StartActs, HolderSteps, StartExits, StartCrashes DEF DaemonSteps
<1>2. CASE \E w \in Windows : WindowSteps(w) \/ StopFromWindow(w) \/ CloseWindow(w)
  BY <1>2, WindowStep, WindowStops
<1>3. CASE ToolSteps \/ \E kind \in {"status", "stop"} : RunTool(kind)
  BY <1>3, ToolStep
<1>4. CASE UNCHANGED startVars
  <2>1. StartTyped' /\ LockOK' /\ TokensOK' /\ StopOK'
    BY <1>4 DEF startVars, StartInv, StartTyped, LockOK, TokensOK, StopOK
  <2>2. FilesOK'
    BY <1>4 DEF startVars, StartInv, FilesOK, Tells
  <2>3. TakenOK'
    BY <1>4 DEF startVars, StartInv, TakenOK, Kept, Info
  <2> QED
    BY <2>1, <2>2, <2>3 DEF StartInv
<1> QED
  BY <1>1, <1>2, <1>3, <1>4 DEF DaemonNext

LEMMA OneServesNow == StartInv => OneDaemon
<1> SUFFICES ASSUME StartInv PROVE OneDaemon
  OBVIOUS
<1>1. StartTyped /\ LockOK /\ TakenOK /\ StopOK
  BY DEF StartInv
<1>2. Cardinality(Holding) <= 1
  <2>1. Holding = {} \/ Holding = {lock}
    BY <1>1 DEF Holding, StepOf, LockOK, HoldSteps
  <2>2. CASE Holding = {}
    <3>1. Cardinality(Holding) = 0
      BY <2>2, FS_EmptySet
    <3> QED
      BY <3>1
  <2>3. CASE Holding = {lock}
    <3>1. Cardinality(Holding) = 1
      BY <2>3, FS_Singleton
    <3> QED
      BY <3>1
  <2> QED
    BY <2>1, <2>2, <2>3
<1>3. OneServes
  BY <1>1, <1>2 DEF OneServes, TakenOK, StepOf
<1>4. TokenOutlives
  BY <1>1 DEF TokenOutlives, TakenOK, StepOf
<1>5. StoppedIsStopped
  BY <1>1 DEF StoppedIsStopped, StopOK, StepOf
<1> QED
  BY <1>3, <1>4, <1>5 DEF OneDaemon

LEMMA StartTypes == StartInv => DaemonTypeOK
<1> SUFFICES ASSUME StartInv PROVE DaemonTypeOK
  OBVIOUS
<1>1. StartTyped /\ TokensOK
  BY DEF StartInv
<1>2. \A d \in Holding : daemons[d].token # 0
  BY <1>1, DaemonsAre DEF TokensOK, Holding, StepOf, HoldSteps, Nobody
<1>3. {published, tool.info} \cup {windows[w].info : w \in Windows} \subseteq Files
  <2>1. published \in Files /\ tool.info \in Files /\ \A w \in Windows : windows[w].info \in Files
    BY <1>1 DEF StartTyped, Tools
  <2> QED
    BY <2>1
<1> QED
  BY <1>1, <1>2, <1>3 DEF DaemonTypeOK, StartTyped, Tools, Files, AllSteps, HoldSteps

\* A window attaches to what it has just probed.
LEMMA ToldTheLivingNow ==
    ASSUME StartInv, DaemonNext, NEW w \in Windows, windows'[w].at = "attached", windows[w].at # "attached"
    PROVE  windows'[w].info.pid \in Answering /\ daemons[windows'[w].info.pid].token = windows'[w].info.token
<1>1. StartTyped /\ FilesOK
  BY DEF StartInv
<1>2. /\ windows'[w].info = windows[w].info /\ AppReaches(windows[w].info)
  <2>1. ASSUME NEW v \in Windows, WindowSteps(v) \/ StopFromWindow(v) \/ CloseWindow(v)
        PROVE  windows'[w].info = windows[w].info /\ AppReaches(windows[w].info)
    <3>1. PICK s \in {"closed", "read", "waiting", "probing", "attached", "failed"},
               i \in {published, NoInfo, windows[v].info} : To(v, s, i)
      BY <2>1 DEF WindowSteps, OpenWindow, EnsureRunning, Reread, Reprobe, GivesUp, StopFromWindow,
                  CloseWindow
    <3>2. v = w
      BY <3>1, <1>1 DEF To, StartTyped
    <3>3. CASE EnsureRunning(w) \/ Reprobe(w)
      BY <3>3, <1>1 DEF EnsureRunning, Reprobe, To, StartTyped
    <3>4. CASE OpenWindow(w) \/ Reread(w) \/ GivesUp(w) \/ StopFromWindow(w) \/ CloseWindow(w)
      BY <3>4, <1>1 DEF OpenWindow, Reread, GivesUp, StopFromWindow, CloseWindow, To, StartTyped
    <3> QED
      BY <2>1, <3>2, <3>3, <3>4 DEF WindowSteps
  <2>2. CASE UNCHANGED windows
    BY <2>2
  <2>3. UNCHANGED windows \/ \E v \in Windows : WindowSteps(v) \/ StopFromWindow(v) \/ CloseWindow(v)
    BY DEF DaemonNext, DaemonSteps, Acquire, Bind, TruncateInfo, WriteInfo, Listens, Cleanup, ExitDaemon,
           CrashOf, ToolSteps, ProbeLock, LetGo, FindRunning, ReadInfo, PostShutdown, StopTimesOut, RunTool
  <2> QED
    BY <2>1, <2>2, <2>3
<1>3. windows[w].info.pid \in Daemons /\ windows[w].info.pid \in Answering
  BY <1>2 DEF AppReaches, Answering
<1> QED
  BY <1>1, <1>2, <1>3 DEF FilesOK, Tells

-----------------------------------------------------------------------------
(* Rounds.  An attempt waits for its bookmark; MarksOK says that the       *)
(* bookmark tells the time since the last attempt, of a type that no clock *)
(* change and no failure of the store made doubtful.                       *)

RoundsTyped ==
    /\ enabled \subseteq Types /\ doubtful \subseteq Types /\ running \subseteq Types
    /\ todo \subseteq DOMAIN RoundTypes /\ up \in BOOLEAN
    /\ bookmark \in [Types -> Int] /\ since \in [Types -> 0 .. Interval]
    /\ \A t \in Types : bookmark[t] <= Interval /\ 0 - troubles * SetBack <= bookmark[t]
    /\ start \in [Starters -> [step : {"idle", "find", "card", "spawn"}, type : Types \cup {"none"},
                               found : BOOLEAN]]
    /\ \A s \in Starters : start[s].step # "idle" => start[s].type \in Types
    /\ cards \in [Types -> 0 .. 1] /\ troubles \in 0 .. MaxTroubles

MarksOK == \A t \in Types \ doubtful : bookmark[t] = since[t]

RoundsInv == RoundsTyped /\ MarksOK

LEMMA RoundsBounds == Interval \in Nat /\ Interval > 0 /\ SetBack \in Nat /\ MaxTroubles \in Nat
BY RoundsAssumption DEF RoundsAssumption

LEMMA RoundsBegin == RoundsInit => RoundsInv
BY RoundsBounds DEF RoundsInit, RoundsInv, RoundsTyped, MarksOK, NotStarting, Starters

\* The clock is set back no further for all troubles than for each.
LEMMA SetBackMore ==
    ASSUME NEW n \in Nat, NEW b \in Int, 0 - n * SetBack <= b
    PROVE  0 - (n + 1) * SetBack <= b - SetBack /\ 0 - (n + 1) * SetBack <= b
<1>1. SetBack \in Nat
  BY RoundsBounds
<1>2. (n + 1) * SetBack = n * SetBack + SetBack /\ n * SetBack \in Nat
  BY <1>1
<1> QED
  BY <1>1, <1>2

LEMMA SetBackMost ==
    ASSUME NEW n \in Nat, NEW m \in Nat, n <= m
    PROVE  0 - m * SetBack <= 0 - n * SetBack
<1>1. SetBack \in Nat /\ m - n \in Nat
  BY RoundsBounds
<1>2. m * SetBack = n * SetBack + (m - n) * SetBack
  BY <1>1
<1>3. (m - n) * SetBack \in Nat /\ n * SetBack \in Nat
  BY <1>1
<1> QED
  BY <1>2, <1>3

LEMMA StartersStep ==
    ASSUME RoundsInv, NEW s \in Starters, Starting(s)
    PROVE  RoundsInv' /\ (start["scheduler"].step = "idle" => start'["scheduler"].step = "idle")
<1>1. /\ RoundsTyped /\ MarksOK /\ UNCHANGED << enabled, bookmark, since, doubtful, todo, up, troubles >>
      /\ start[s].step # "idle" /\ start[s].type \in Types
  BY DEF RoundsInv, RoundsTyped, Starting, FindCard, WriteCard, Spawn, StartFails, StarterAt, schedVars
<1>2. /\ start' \in [Starters -> [step : {"idle", "find", "card", "spawn"}, type : Types \cup {"none"},
                                  found : BOOLEAN]]
      /\ start'[s].step # "idle" => start'[s].type \in Types
      /\ \A u \in Starters \ {s} : start'[u] = start[u]
  <2> DEFINE R == [step : {"idle", "find", "card", "spawn"}, type : Types \cup {"none"}, found : BOOLEAN]
  <2>1. start[s] \in R /\ start[s].type \in Types /\ start \in [Starters -> R]
    BY <1>1 DEF RoundsTyped
  <2>2. NotStarting \in R /\ NotStarting.step = "idle"
    BY DEF NotStarting
  <2>3. ASSUME NEW r \in R, r.step # "idle" => r.type \in Types, start' = [start EXCEPT ![s] = r]
        PROVE  /\ start' \in [Starters -> R]
               /\ start'[s].step # "idle" => start'[s].type \in Types
               /\ \A u \in Starters \ {s} : start'[u] = start[u]
    <3> HIDE DEF R
    <3> QED
      BY <2>1, <2>3
  <2>4. CASE FindCard(s)
    <3> DEFINE found == cards[start[s].type] > 0
               r     == [start[s] EXCEPT !.step = "card", !.found = found]
    <3>1. found \in BOOLEAN
      OBVIOUS
    <3> HIDE DEF found
    <3>2. r \in R /\ r.type \in Types
      BY <2>1, <3>1
    <3>3. start' = [start EXCEPT ![s] = r]
      BY <2>4 DEF FindCard, found
    <3> HIDE DEF r
    <3> QED
      BY <3>2, <3>3, <2>3
  <2>5. CASE WriteCard(s)
    <3> DEFINE r == [start[s] EXCEPT !.step = "spawn"]
    <3>1. r \in R /\ r.type \in Types
      BY <2>1
    <3>2. start' = [start EXCEPT ![s] = r] \/ start' = [start EXCEPT ![s] = NotStarting]
      BY <2>5 DEF WriteCard, Step, Finished
    <3> HIDE DEF r
    <3> QED
      BY <3>1, <3>2, <2>2, <2>3
  <2>6. CASE Spawn(s) \/ StartFails(s)
    BY <2>2, <2>3, <2>6 DEF Spawn, StartFails, Finished
  <2> QED
    BY <2>4, <2>5, <2>6 DEF Starting
<1>3. cards' \in [Types -> 0 .. 1] /\ running' \subseteq Types
  BY <1>1 DEF RoundsTyped, Starting, FindCard, WriteCard, Spawn, StartFails
<1>4. RoundsTyped'
  BY <1>1, <1>2, <1>3 DEF RoundsTyped
<1>5. MarksOK'
  BY <1>1 DEF MarksOK
<1>6. start["scheduler"].step = "idle" => start'["scheduler"].step = "idle"
  BY <1>1, <1>2 DEF Starters
<1> QED
  BY <1>4, <1>5, <1>6 DEF RoundsInv

\* The scheduler's attempt at the type in place i.
LEMMA SchedulerStep ==
    ASSUME RoundsInv, NEW i \in todo, Consider(i) \/ ConsiderFailing(i)
    PROVE  /\ RoundsInv'
           /\ start'["scheduler"].step = "find" =>
                 LET t == start'["scheduler"].type
                 IN  since[t] = Interval \/ t \in doubtful \/ troubles' # troubles
<1> DEFINE t == RoundTypes[i]
<1>1. /\ RoundsTyped /\ MarksOK /\ t \in Types /\ todo' \subseteq DOMAIN RoundTypes
      /\ start["scheduler"].step = "idle" /\ "scheduler" \in Starters
      /\ UNCHANGED << enabled, up, cards, running >>
  BY DEF RoundsInv, RoundsTyped, Consider, ConsiderFailing, LooksAt, StarterAt, Types, Starters
<1>2. Interval \in Nat /\ bookmark[t] \in Int /\ bookmark[t] <= Interval
  BY <1>1, RoundsBounds DEF RoundsTyped
<1>3. ASSUME Begin("scheduler", t)
      PROVE  /\ start' \in [Starters -> [step : {"idle", "find", "card", "spawn"}, type : Types \cup {"none"},
                                        found : BOOLEAN]]
             /\ \A s \in Starters : start'[s].step # "idle" => start'[s].type \in Types
             /\ start'["scheduler"].type = t
  BY <1>1, <1>3 DEF Begin, RoundsTyped
<1>4. CASE Consider(i) /\ bookmark[t] < Interval
  <2>1. UNCHANGED << bookmark, since, doubtful, start, troubles >>
    BY <1>4 DEF Consider
  <2> QED
    BY <2>1, <1>1 DEF RoundsInv, RoundsTyped, MarksOK
<1>5. CASE Consider(i) /\ ~(bookmark[t] < Interval)
  <2>1. /\ bookmark' = [bookmark EXCEPT ![t] = 0] /\ since' = [since EXCEPT ![t] = 0]
        /\ doubtful' = doubtful \ {t} /\ Begin("scheduler", t) /\ troubles' = troubles
    BY <1>5 DEF Consider
  <2>2. /\ bookmark' \in [Types -> Int] /\ since' \in [Types -> 0 .. Interval]
        /\ bookmark'[t] = 0 /\ since'[t] = 0
        /\ \A u \in Types \ {t} : bookmark'[u] = bookmark[u] /\ since'[u] = since[u]
    BY <2>1, <1>1, <1>2 DEF RoundsTyped
  <2>3. \A u \in Types : bookmark'[u] <= Interval /\ 0 - troubles * SetBack <= bookmark'[u]
    <3>1. 0 - troubles * SetBack <= 0
      <4>1. troubles \in Nat /\ SetBack \in Nat
        BY <1>1, RoundsBounds DEF RoundsTyped
      <4>2. troubles * SetBack \in Nat
        BY <4>1
      <4> QED
        BY <4>2
    <3> QED
      BY <3>1, <2>2, <1>1, <1>2 DEF RoundsTyped
  <2>4. RoundsTyped'
    BY <2>1, <2>2, <2>3, <1>1, <1>3 DEF RoundsTyped
  <2>5. MarksOK'
    BY <2>1, <2>2, <1>1 DEF MarksOK
  <2>6. t \in doubtful \/ since[t] = Interval
    BY <1>1, <1>2, <1>5 DEF MarksOK
  <2> QED
    BY <2>1, <2>4, <2>5, <2>6, <1>3 DEF RoundsInv
<1>6. CASE ConsiderFailing(i)
  <2>1. /\ bookmark' \in {bookmark, [bookmark EXCEPT ![t] = 0]} /\ since' = [since EXCEPT ![t] = 0]
        /\ doubtful' = doubtful \cup {t} /\ Begin("scheduler", t)
        /\ troubles < MaxTroubles /\ troubles' = troubles + 1
    BY <1>6 DEF ConsiderFailing
  <2>2. /\ bookmark' \in [Types -> Int] /\ since' \in [Types -> 0 .. Interval]
        /\ bookmark'[t] \in {0, bookmark[t]}
        /\ \A u \in Types \ {t} : bookmark'[u] = bookmark[u] /\ since'[u] = since[u]
    BY <2>1, <1>1, <1>2 DEF RoundsTyped
  <2>3. troubles \in Nat /\ troubles' \in 0 .. MaxTroubles /\ troubles' # troubles
    BY <2>1, <1>1, RoundsBounds DEF RoundsTyped
  <2>4. \A u \in Types : bookmark'[u] <= Interval /\ 0 - troubles' * SetBack <= bookmark'[u]
    <3> SUFFICES ASSUME NEW u \in Types
                 PROVE  bookmark'[u] <= Interval /\ 0 - troubles' * SetBack <= bookmark'[u]
      OBVIOUS
    <3>1. bookmark[u] \in Int /\ bookmark[u] <= Interval /\ 0 - troubles * SetBack <= bookmark[u]
      BY <1>1 DEF RoundsTyped
    <3>2. 0 - (troubles + 1) * SetBack <= bookmark[u]
      BY <3>1, <2>3, SetBackMore
    <3>3. 0 - (troubles + 1) * SetBack <= 0
      <4>1. SetBack \in Nat
        BY RoundsBounds
      <4>2. (troubles + 1) * SetBack \in Nat
        BY <4>1, <2>3
      <4> QED
        BY <4>2
    <3>4. bookmark'[u] \in {0, bookmark[u]}
      BY <2>2
    <3> QED
      BY <3>1, <3>2, <3>3, <3>4, <2>1, <1>2
  <2>5. RoundsTyped'
    BY <2>1, <2>2, <2>3, <2>4, <1>1, <1>3 DEF RoundsTyped
  <2>6. MarksOK'
    BY <2>1, <2>2, <1>1 DEF MarksOK
  <2> QED
    BY <2>3, <2>5, <2>6 DEF RoundsInv
<1> QED
  BY <1>4, <1>5, <1>6

LEMMA ClockStep ==
    ASSUME RoundsInv, Minute \/ SetClock \/ BeginTick \/ RoundsCrash \/ Restart
    PROVE  RoundsInv' /\ (start["scheduler"].step = "idle" => start'["scheduler"].step = "idle")
<1>1. RoundsTyped /\ MarksOK /\ troubles \in Nat /\ "scheduler" \in Starters
  BY RoundsBounds DEF RoundsInv, RoundsTyped, Starters
<1>2. Interval \in Nat /\ SetBack \in Nat
  BY RoundsBounds
<1>3. CASE Minute
  <2>1. /\ bookmark' = [t \in Types |-> AtMost(bookmark[t] + 1, Interval)]
        /\ since' = [t \in Types |-> AtMost(since[t] + 1, Interval)]
        /\ UNCHANGED << enabled, doubtful, up, todo, start, cards, running, troubles >>
    BY <1>3 DEF Minute
  <2>2. \A t \in Types : bookmark[t] \in Int /\ bookmark[t] <= Interval /\ since[t] \in 0 .. Interval
    BY <1>1 DEF RoundsTyped
  <2>3. \A t \in Types : /\ bookmark'[t] \in Int /\ bookmark[t] <= bookmark'[t] /\ bookmark'[t] <= Interval
                         /\ since'[t] \in 0 .. Interval
                         /\ bookmark[t] = since[t] => bookmark'[t] = since'[t]
    BY <2>1, <2>2, <1>2 DEF AtMost
  <2>4. bookmark' \in [Types -> Int] /\ since' \in [Types -> 0 .. Interval]
    BY <2>1, <2>3
  <2>5. \A t \in Types : 0 - troubles * SetBack <= bookmark'[t]
    <3> SUFFICES ASSUME NEW t \in Types PROVE 0 - troubles * SetBack <= bookmark'[t]
      OBVIOUS
    <3>1. 0 - troubles * SetBack <= bookmark[t] /\ bookmark[t] <= bookmark'[t]
      BY <2>3, <1>1 DEF RoundsTyped
    <3>2. 0 - troubles * SetBack \in Int
      BY <1>1, <1>2
    <3> QED
      BY <3>1, <3>2, <2>2, <2>3
  <2>6. RoundsTyped'
    BY <2>1, <2>3, <2>4, <2>5, <1>1 DEF RoundsTyped
  <2>7. MarksOK'
    BY <2>1, <2>3, <1>1 DEF MarksOK
  <2> QED
    BY <2>1, <2>6, <2>7 DEF RoundsInv
<1>4. CASE SetClock
  <2>1. /\ \/ bookmark' = [t \in Types |-> bookmark[t] - SetBack]
           \/ bookmark' = [t \in Types |-> Interval]
        /\ doubtful' = Types /\ troubles < MaxTroubles /\ troubles' = troubles + 1
        /\ UNCHANGED << enabled, since, up, todo, start, cards, running >>
    BY <1>4 DEF SetClock
  <2>2. troubles' \in 0 .. MaxTroubles
    BY <2>1, <1>1, RoundsBounds
  <2>3. \A t \in Types : bookmark[t] \in Int /\ bookmark[t] <= Interval /\ 0 - troubles * SetBack <= bookmark[t]
    BY <1>1 DEF RoundsTyped
  <2>4. \A t \in Types : /\ bookmark'[t] \in Int /\ bookmark'[t] <= Interval
                         /\ 0 - troubles' * SetBack <= bookmark'[t]
    <3> SUFFICES ASSUME NEW t \in Types
                 PROVE  /\ bookmark'[t] \in Int /\ bookmark'[t] <= Interval
                        /\ 0 - troubles' * SetBack <= bookmark'[t]
      OBVIOUS
    <3>1. 0 - (troubles + 1) * SetBack <= bookmark[t] - SetBack
      BY <2>3, <1>1, SetBackMore
    <3>2. 0 - (troubles + 1) * SetBack <= Interval
      <4>1. (troubles + 1) * SetBack \in Nat
        BY <1>1, <1>2
      <4> QED
        BY <4>1, <1>2
    <3>3. bookmark'[t] = bookmark[t] - SetBack \/ bookmark'[t] = Interval
      BY <2>1
    <3> QED
      BY <3>1, <3>2, <3>3, <2>1, <2>3, <1>2
  <2>5. bookmark' \in [Types -> Int]
    BY <2>1, <2>4
  <2>6. RoundsTyped'
    BY <2>1, <2>2, <2>4, <2>5, <1>1 DEF RoundsTyped
  <2>7. MarksOK'
    BY <2>1 DEF MarksOK
  <2> QED
    BY <2>1, <2>6, <2>7 DEF RoundsInv
<1>5. CASE BeginTick
  <2>1. /\ todo' \subseteq DOMAIN RoundTypes
        /\ UNCHANGED << enabled, bookmark, since, doubtful, up, start, cards, running, troubles >>
    BY <1>5 DEF BeginTick
  <2> QED
    BY <2>1, <1>1 DEF RoundsInv, RoundsTyped, MarksOK
<1>6. CASE RoundsCrash
  <2>1. /\ up' = FALSE /\ todo' = {} /\ running' = {} /\ start' = [s \in Starters |-> NotStarting]
        /\ troubles < MaxTroubles /\ troubles' = troubles + 1
        /\ UNCHANGED << enabled, bookmark, since, doubtful, cards >>
    BY <1>6 DEF RoundsCrash
  <2>2. troubles' \in 0 .. MaxTroubles
    BY <2>1, <1>1, RoundsBounds
  <2>3. \A t \in Types : 0 - troubles' * SetBack <= bookmark'[t]
    <3> SUFFICES ASSUME NEW t \in Types PROVE 0 - (troubles + 1) * SetBack <= bookmark[t]
      BY <2>1
    <3>1. bookmark[t] \in Int /\ 0 - troubles * SetBack <= bookmark[t]
      BY <1>1 DEF RoundsTyped
    <3> QED
      BY <3>1, <1>1, SetBackMore
  <2>4. /\ start' \in [Starters -> [step : {"idle", "find", "card", "spawn"}, type : Types \cup {"none"},
                                    found : BOOLEAN]]
        /\ \A s \in Starters : start'[s].step = "idle"
    BY <2>1 DEF NotStarting
  <2>5. RoundsTyped'
    BY <2>1, <2>2, <2>3, <2>4, <1>1 DEF RoundsTyped
  <2>6. MarksOK'
    BY <2>1, <1>1 DEF MarksOK
  <2> QED
    BY <2>4, <2>5, <2>6, <1>1 DEF RoundsInv
<1>7. CASE Restart
  <2>1. /\ up' = TRUE
        /\ UNCHANGED << enabled, bookmark, since, doubtful, todo, start, cards, running, troubles >>
    BY <1>7 DEF Restart, schedVars
  <2> QED
    BY <2>1, <1>1 DEF RoundsInv, RoundsTyped, MarksOK
<1> QED
  BY <1>3, <1>4, <1>5, <1>6, <1>7

LEMMA HumanStep ==
    ASSUME RoundsInv, NEW t \in Types, SetSchedule(t) \/ UserStarts(t) \/ RoundEnds(t)
    PROVE  RoundsInv' /\ start'["scheduler"] = start["scheduler"]
<1>1. /\ RoundsTyped /\ MarksOK /\ UNCHANGED << bookmark, since, doubtful, todo, up, cards, troubles >>
      /\ enabled' \subseteq Types /\ running' \subseteq Types
  BY DEF RoundsInv, RoundsTyped, SetSchedule, UserStarts, RoundEnds, schedVars
<1>2. /\ start' \in [Starters -> [step : {"idle", "find", "card", "spawn"}, type : Types \cup {"none"},
                                  found : BOOLEAN]]
      /\ \A s \in Starters : start'[s].step # "idle" => start'[s].type \in Types
      /\ start'["scheduler"] = start["scheduler"]
  <2>1. CASE UserStarts(t)
    BY <2>1, <1>1 DEF UserStarts, Begin, RoundsTyped, Starters
  <2>2. CASE SetSchedule(t) \/ RoundEnds(t)
    BY <2>2, <1>1 DEF SetSchedule, RoundEnds, RoundsTyped, Starters
  <2> QED
    BY <2>1, <2>2
<1> QED
  BY <1>1, <1>2 DEF RoundsInv, RoundsTyped, MarksOK

LEMMA RoundsStep == RoundsInv /\ [RoundsNext]_roundVars => RoundsInv'
<1> SUFFICES ASSUME RoundsInv, [RoundsNext]_roundVars PROVE RoundsInv'
  OBVIOUS
<1>1. CASE UNCHANGED roundVars
  BY <1>1 DEF roundVars, RoundsInv, RoundsTyped, MarksOK
<1>2. CASE RoundsNext
  BY <1>2, ClockStep, SchedulerStep, HumanStep, StartersStep DEF RoundsNext, Scheduling
<1> QED
  BY <1>1, <1>2

\* What an attempt of the scheduler must meet.
Waited ==
    start["scheduler"].step = "idle" /\ start'["scheduler"].step = "find" =>
        LET t == start'["scheduler"].type
        IN  since[t] = Interval \/ t \in doubtful \/ troubles' # troubles

LEMMA AttemptsWait == RoundsInv /\ [RoundsNext]_roundVars => Waited
<1> SUFFICES ASSUME RoundsInv, [RoundsNext]_roundVars PROVE Waited
  OBVIOUS
<1>1. CASE UNCHANGED roundVars
  BY <1>1 DEF roundVars, Waited
<1>2. CASE \E i \in todo : Consider(i) \/ ConsiderFailing(i)
  BY <1>2, SchedulerStep DEF Waited
<1>3. CASE start["scheduler"].step = "idle" => start'["scheduler"].step = "idle"
  BY <1>3 DEF Waited
<1>4. RoundsNext => \/ \E i \in todo : Consider(i) \/ ConsiderFailing(i)
                    \/ start["scheduler"].step = "idle" => start'["scheduler"].step = "idle"
  BY ClockStep, HumanStep, StartersStep DEF RoundsNext, Scheduling
<1> QED
  BY <1>1, <1>2, <1>3, <1>4

LEMMA RoundsTypes == RoundsInv => RoundsTypeOK
<1> SUFFICES ASSUME RoundsInv PROVE RoundsTypeOK
  OBVIOUS
<1>1. RoundsTyped /\ Interval \in Nat /\ MaxTroubles \in Nat /\ SetBack \in Nat
  BY RoundsBounds DEF RoundsInv
<1>2. troubles \in Nat /\ troubles <= MaxTroubles
  BY <1>1 DEF RoundsTyped
<1>3. \A t \in Types : bookmark[t] \in (0 - MaxTroubles * SetBack) .. Interval
  <2> SUFFICES ASSUME NEW t \in Types PROVE bookmark[t] \in (0 - MaxTroubles * SetBack) .. Interval
    OBVIOUS
  <2>1. bookmark[t] \in Int /\ bookmark[t] <= Interval /\ 0 - troubles * SetBack <= bookmark[t]
    BY <1>1 DEF RoundsTyped
  <2>2. 0 - MaxTroubles * SetBack <= 0 - troubles * SetBack
    BY <1>1, <1>2, SetBackMost
  <2>3. MaxTroubles * SetBack \in Nat /\ troubles * SetBack \in Nat
    BY <1>1, <1>2
  <2> QED
    BY <2>1, <2>2, <2>3, <1>1
<1>4. bookmark \in [Types -> (0 - MaxTroubles * SetBack) .. Interval]
  BY <1>1, <1>3 DEF RoundsTyped
<1> QED
  BY <1>1, <1>4 DEF RoundsTyped, RoundsTypeOK

-----------------------------------------------------------------------------
(* Steering.  LooksBeforeTyping rests on SawOK: a dialog that stands was   *)
(* missed by everybody who is past the look.  RetriesAreSafe rests on      *)
(* QuietOK: once the program took a prompt, the submit that is alone with  *)
(* it has no key on the way and will press none - it finds the composer    *)
(* empty.  That needs EntersOK (no two Enters of one submit on the way)    *)
(* and TextsOK (a text is typed once, so it cannot come back).             *)

DialogKinds == {"none", "trust", "permission"}
Tuis == [composer : Seq(Submits), dialog : DialogKinds, busy : BOOLEAN]
Keys == [key : {"text", "enter"}, by : Submits \cup {Watcher}]

SteerTyped ==
    /\ mode \in TuiModes /\ tuiAlive \in BOOLEAN /\ swallowed \in BOOLEAN
    /\ input \in Seq(Keys) /\ tui \in Tuis /\ screen \in Tuis
    /\ taken \subseteq Submits /\ dialogs \in 0 .. MaxDialogs
    /\ at \in [Submits -> {"idle", "gate", "type", "enter", "check", "done"}]
    /\ seen \in [Submits -> 0 .. 2] /\ pressed \in [Submits -> 0 .. MaxAttempts]
    /\ said \in [Submits -> {"nothing", "submitted", "failed", "refused"}]
    /\ raised \subseteq Prompts /\ watching \in {"looking", "answering", "done"}
    /\ crossed \subseteq Submits

\* Where a submit is and how far it got.
StageOK ==
    \A s \in Submits :
        /\ at[s] \in {"idle", "gate"} => seen[s] \in {0, 1}
        /\ at[s] \in {"idle", "gate", "type"} => pressed[s] = 0
        /\ at[s] = "enter" => pressed[s] < MaxAttempts
        /\ at[s] # "done" => said[s] = "nothing"

\* Who wrote keys was let to write, and a text is written once.
Wrote(s) == at[s] \in {"enter", "check", "done"} /\ said[s] # "refused"

TextsOK ==
    /\ \A i \in DOMAIN input : input[i].by \in Submits => Wrote(input[i].by)
    /\ \A i \in DOMAIN input : input[i].key = "text" => input[i].by \in Submits
    /\ \A i \in DOMAIN tui.composer : Wrote(tui.composer[i])
    /\ \A i, j \in DOMAIN input :
          input[i].key = "text" /\ input[j].key = "text" /\ input[i].by = input[j].by => i = j
    /\ \A i, j \in DOMAIN tui.composer : tui.composer[i] = tui.composer[j] => i = j
    /\ \A i \in DOMAIN input, j \in DOMAIN tui.composer :
          input[i].key = "text" => input[i].by # tui.composer[j]

SawOK == tui.dialog # "none" => Past \subseteq crossed

EntersOK ==
    mode # "slow" /\ tuiAlive =>
        /\ \A i \in DOMAIN input :
              input[i].key = "enter" /\ input[i].by \in Submits => at[input[i].by] = "check"
        /\ \A i, j \in DOMAIN input :
              /\ input[i].key = "enter" /\ input[j].key = "enter"
              /\ input[i].by = input[j].by /\ input[i].by \in Submits
              => i = j

BusyOK == tui.busy \/ tui.dialog = "permission" => taken # {}

\* Nobody but s types, and the watcher does not stray into the composer.
Alone(s) ==
    /\ mode # "slow" /\ << Watcher, "none" >> \notin answered
    /\ \A u \in Submits \ {s} : at[u] = "idle" \/ said[u] = "refused"

QuietOK ==
    tuiAlive /\ taken # {} =>
        \A s \in Submits : Alone(s) =>
            /\ at[s] \in {"check", "done"} /\ tui.composer = << >>
            /\ \A i \in DOMAIN input : input[i].by # s

SteerInv ==
    /\ SteerTyped /\ StageOK /\ TextsOK /\ SawOK /\ EntersOK /\ BusyOK /\ QuietOK
    /\ LooksBeforeTyping /\ RetriesAreSafe

LEMMA SteerBounds == /\ MaxAttempts \in Nat /\ MaxAttempts > 0 /\ MaxDialogs \in Nat
                     /\ Watcher \notin Submits /\ IsFiniteSet(Submits)
BY SteeringAssumption DEF SteeringAssumption

LEMMA SteerBegins == SteerInit => SteerInv
<1> SUFFICES ASSUME SteerInit PROVE SteerInv
  OBVIOUS
<1>1. FreshTui \in Tuis /\ FreshTui.composer = << >> /\ FreshTui.dialog = "none" /\ FreshTui.busy = FALSE
  BY DEF FreshTui, Tuis, DialogKinds
<1>2. SteerTyped
  <2>1. input \in Seq(Keys) /\ tui \in Tuis /\ screen \in Tuis
    BY <1>1 DEF SteerInit
  <2>2. dialogs \in 0 .. MaxDialogs /\ seen \in [Submits -> 0 .. 2]
    BY SteerBounds DEF SteerInit
  <2>3. pressed \in [Submits -> 0 .. MaxAttempts]
    BY SteerBounds DEF SteerInit
  <2> QED
    BY <2>1, <2>2, <2>3 DEF SteerInit, SteerTyped
<1>3. StageOK
  BY SteerBounds DEF SteerInit, StageOK
<1>4. TextsOK /\ EntersOK
  <2>1. DOMAIN input = {} /\ DOMAIN tui.composer = {}
    BY <1>1 DEF SteerInit
  <2> QED
    BY <2>1 DEF TextsOK, EntersOK
<1>5. SawOK /\ BusyOK /\ QuietOK
  BY <1>1 DEF SteerInit, SawOK, BusyOK, QuietOK
<1>6. LooksBeforeTyping /\ RetriesAreSafe
  BY DEF SteerInit, LooksBeforeTyping, RetriesAreSafe
<1> QED
  BY <1>2, <1>3, <1>4, <1>5, <1>6 DEF SteerInv

LEMMA Appended ==
    ASSUME NEW S, NEW q \in Seq(S), NEW e \in S
    PROVE  /\ Append(q, e) \in Seq(S)
           /\ \A i \in DOMAIN Append(q, e) : \/ i \in DOMAIN q /\ Append(q, e)[i] = q[i]
                                             \/ i \notin DOMAIN q /\ Append(q, e)[i] = e /\ i = Len(q) + 1
OBVIOUS

LEMMA Tailed ==
    ASSUME NEW S, NEW q \in Seq(S), q # << >>
    PROVE  /\ Tail(q) \in Seq(S) /\ 1 \in DOMAIN q /\ Head(q) = q[1] /\ Head(q) \in S
           /\ \A i \in DOMAIN Tail(q) : i + 1 \in DOMAIN q /\ Tail(q)[i] = q[i + 1] /\ i + 1 # 1
           /\ \A i, j \in DOMAIN Tail(q) : i + 1 = j + 1 => i = j
OBVIOUS

\* Once there is company, there is company for good.
LEMMA CompanyStays ==
    ASSUME NEW s \in Submits, mode' = mode, answered \subseteq answered',
           \A u \in Submits \ {s} : at[u] # "idle" /\ said[u] # "refused" =>
               at'[u] # "idle" /\ said'[u] # "refused"
    PROVE  Alone(s)' => Alone(s)
BY DEF Alone

\* A step of one submit that writes nothing: it looks on, gives up, or goes on.
LEMMA MovesOn ==
    ASSUME SteerInv, NEW s \in Submits,
           UNCHANGED << mode, tuiAlive, input, tui, taken, screen, answered >>,
           \A u \in Submits \ {s} : at'[u] = at[u] /\ said'[u] = said[u],
           crossed \subseteq crossed',
           Wrote(s) => Wrote(s)',
           at[s] # "idle" /\ said[s] # "refused" => at'[s] # "idle" /\ said'[s] # "refused",
           at'[s] \in {"type", "enter", "check"} =>
               at[s] \in {"type", "enter", "check"} \/ tui.dialog = "none" \/ s \in crossed',
           at[s] = "check" => at'[s] = "check" \/ mode = "slow" \/ ~tuiAlive \/ input = << >>,
           tuiAlive /\ mode # "slow" /\ tui.composer = << >> /\ at[s] \in {"check", "done"} =>
               at'[s] \in {"check", "done"}
    PROVE  /\ TextsOK' /\ SawOK' /\ EntersOK' /\ BusyOK' /\ QuietOK'
           /\ LooksBeforeTyping' /\ RetriesAreSafe'
<1>1. \A u \in Submits : Wrote(u) => Wrote(u)'
  BY DEF Wrote
<1>2. TextsOK'
  <2>1. SteerTyped /\ TextsOK
    BY DEF SteerInv
  <2>2. \A i \in DOMAIN tui.composer : tui.composer[i] \in Submits
    BY <2>1 DEF SteerTyped, Tuis
  <2> QED
    BY <1>1, <2>1, <2>2 DEF TextsOK
<1>3. SawOK'
  <2>1. Past' \subseteq Past \cup {s}
    BY DEF Past
  <2>2. s \in Past' => s \in Past \/ tui.dialog = "none" \/ s \in crossed'
    BY DEF Past
  <2> QED
    BY <2>1, <2>2 DEF SteerInv, SawOK
<1>4. EntersOK'
  <2>1. EntersOK
    BY DEF SteerInv
  <2>2. CASE input = << >>
    BY <2>2 DEF EntersOK
  <2>3. CASE input # << >>
    BY <2>1, <2>3 DEF EntersOK
  <2> QED
    BY <2>2, <2>3
<1>5. \A u \in Submits : Alone(u)' => Alone(u)
  BY DEF Alone
<1>6. BusyOK' /\ QuietOK'
  BY <1>5 DEF SteerInv, BusyOK, QuietOK, Alone
<1>7. LooksBeforeTyping'
  BY DEF SteerInv, LooksBeforeTyping
<1>8. RetriesAreSafe'
  BY DEF SteerInv, RetriesAreSafe
<1> QED
  BY <1>2, <1>3, <1>4, <1>6, <1>7, <1>8

LEMMA LooksStep ==
    ASSUME SteerInv, NEW s \in Submits,
           Deliver(s) \/ Steer(s) \/ PollComposer(s) \/ GateTimesOut(s) \/ Check(s)
    PROVE  SteerInv'
<1>1. SteerTyped /\ StageOK /\ TextsOK /\ SawOK /\ EntersOK /\ QuietOK
  BY DEF SteerInv
<1>2. UNCHANGED << mode, tuiAlive, input, tui, swallowed, taken, screen, dialogs, answered, pressed, watching >>
  BY DEF Deliver, Steer, PollComposer, GateTimesOut, Check, tuiVars
<1>3. /\ at' \in [Submits -> {"idle", "gate", "type", "enter", "check", "done"}]
      /\ said' \in [Submits -> {"nothing", "submitted", "failed", "refused"}]
      /\ \A u \in Submits \ {s} : at'[u] = at[u] /\ said'[u] = said[u]
      /\ raised' \subseteq Prompts /\ crossed \subseteq crossed' /\ crossed' \subseteq Submits
  BY <1>1 DEF Deliver, Steer, PollComposer, GateTimesOut, Check, Fail, MoveTo, Report, SteerTyped
<1>4. /\ at[s] \in {"idle", "gate", "check"} /\ said[s] = "nothing"
      /\ at \in [Submits -> {"idle", "gate", "type", "enter", "check", "done"}]
      /\ said \in [Submits -> {"nothing", "submitted", "failed", "refused"}]
      /\ seen \in [Submits -> 0 .. 2] /\ pressed \in [Submits -> 0 .. MaxAttempts]
  BY <1>1 DEF Deliver, Steer, PollComposer, GateTimesOut, Check, SteerTyped, StageOK
<1>5. at[s] = "idle" => \/ at'[s] = "gate" /\ said'[s] = "nothing"
                        \/ at'[s] = "done" /\ said'[s] = "refused"
  BY <1>4 DEF Deliver, Steer, PollComposer, GateTimesOut, Check, MoveTo, Report
<1>6. at[s] = "gate" => /\ \/ at'[s] \in {"gate", "type"} /\ said'[s] = "nothing"
                           \/ at'[s] = "done" /\ said'[s] = "failed"
                        /\ at'[s] = "type" => tui.dialog = "none" \/ s \in crossed'
                        /\ seen' \in [Submits -> 0 .. 2]
                        /\ \A u \in Submits \ {s} : seen'[u] = seen[u]
                        /\ at'[s] = "gate" => seen'[s] \in {0, 1}
  <2> SUFFICES ASSUME at[s] = "gate"
               PROVE  /\ \/ at'[s] \in {"gate", "type"} /\ said'[s] = "nothing"
                         \/ at'[s] = "done" /\ said'[s] = "failed"
                      /\ at'[s] = "type" => tui.dialog = "none" \/ s \in crossed'
                      /\ seen' \in [Submits -> 0 .. 2]
                      /\ \A u \in Submits \ {s} : seen'[u] = seen[u]
                      /\ at'[s] = "gate" => seen'[s] \in {0, 1}
    OBVIOUS
  <2>1. seen[s] \in {0, 1}
    BY <1>1 DEF StageOK
  <2>2. CASE GateTimesOut(s)
    BY <2>2, <1>4 DEF GateTimesOut, Fail, MoveTo, Report
  <2>3. CASE PollComposer(s) /\ ~tuiAlive
    BY <2>3, <1>4 DEF PollComposer, Fail, MoveTo, Report
  <2>4. CASE PollComposer(s) /\ tuiAlive
    <3>1. /\ seen' = [seen EXCEPT ![s] = IF Ready THEN @ + 1 ELSE 0]
          /\ IF Ready /\ seen[s] = 1 THEN MoveTo(s, "type") ELSE UNCHANGED at
          /\ UNCHANGED said
          /\ crossed' = IF tui.dialog # screen.dialog THEN crossed \cup {s} ELSE crossed
      BY <2>4 DEF PollComposer
    <3>2. seen' \in [Submits -> 0 .. 2] /\ \A u \in Submits \ {s} : seen'[u] = seen[u]
      BY <3>1, <2>1, <1>4
    <3>3. CASE Ready /\ seen[s] = 1
      BY <3>1, <3>2, <3>3, <1>4 DEF MoveTo, Ready
    <3>4. CASE ~(Ready /\ seen[s] = 1)
      <4>1. at' = at /\ seen'[s] \in {0, 1}
        BY <3>1, <3>4, <2>1, <1>4
      <4> QED
        BY <4>1, <3>1, <3>2, <1>4
    <3> QED
      BY <3>3, <3>4
  <2> QED
    BY <2>2, <2>3, <2>4 DEF Deliver, Steer, PollComposer, GateTimesOut, Check
<1>7. at[s] = "check" => /\ Redrawn
                         /\ \/ at'[s] = "enter" /\ said'[s] = "nothing" /\ pressed[s] < MaxAttempts /\ Pending(s)
                            \/ at'[s] = "done" /\ said'[s] \in {"submitted", "failed"}
  BY <1>4, SteerBounds DEF Deliver, Steer, PollComposer, GateTimesOut, Check, Fail, MoveTo, Report
<1>8. seen' \in [Submits -> 0 .. 2] /\ \A u \in Submits \ {s} : seen'[u] = seen[u]
  BY <1>4, <1>6 DEF Deliver, Steer, PollComposer, GateTimesOut, Check
<1>9. at[s] # "gate" => seen' = seen
  BY DEF Deliver, Steer, PollComposer, GateTimesOut, Check
<1>10. SteerTyped'
  BY <1>1, <1>2, <1>3, <1>8 DEF SteerTyped
<1>11. StageOK'
  <2> SUFFICES ASSUME NEW u \in Submits
               PROVE  /\ at'[u] \in {"idle", "gate"} => seen'[u] \in {0, 1}
                      /\ at'[u] \in {"idle", "gate", "type"} => pressed'[u] = 0
                      /\ at'[u] = "enter" => pressed'[u] < MaxAttempts
                      /\ at'[u] # "done" => said'[u] = "nothing"
    BY DEF StageOK
  <2>1. CASE u # s
    BY <2>1, <1>1, <1>2, <1>3, <1>8 DEF StageOK
  <2>2. CASE u = s
    <3>1. /\ at[s] \in {"idle", "gate"} => seen[s] \in {0, 1} /\ pressed[s] = 0
          /\ pressed'[s] = pressed[s]
      BY <1>1, <1>2 DEF StageOK
    <3>2. CASE at[s] = "gate"
      BY <2>2, <3>1, <3>2, <1>6
    <3>3. CASE at[s] # "gate"
      BY <2>2, <3>1, <3>3, <1>4, <1>5, <1>7, <1>9
    <3> QED
      BY <3>2, <3>3
  <2> QED
    BY <2>1, <2>2
<1>12. at[s] = "check" => at'[s] = "check" \/ mode = "slow" \/ ~tuiAlive \/ input = << >>
  BY <1>7 DEF Redrawn
<1>13. tuiAlive /\ mode # "slow" /\ tui.composer = << >> /\ at[s] \in {"check", "done"} =>
         at'[s] \in {"check", "done"}
  <2> SUFFICES ASSUME tuiAlive, mode # "slow", tui.composer = << >>, at[s] = "check", at'[s] = "enter"
               PROVE  FALSE
    BY <1>4, <1>7
  <2>1. screen = tui /\ Pending(s)
    BY <1>7 DEF Redrawn
  <2> QED
    BY <2>1 DEF Pending
<1>14. /\ TextsOK' /\ SawOK' /\ EntersOK' /\ BusyOK' /\ QuietOK'
       /\ LooksBeforeTyping' /\ RetriesAreSafe'
  <2>1. Wrote(s) => Wrote(s)'
    BY <1>4, <1>7 DEF Wrote
  <2>2. at[s] # "idle" /\ said[s] # "refused" => at'[s] # "idle" /\ said'[s] # "refused"
    BY <1>4, <1>6, <1>7
  <2>3. at'[s] \in {"type", "enter", "check"} =>
          at[s] \in {"type", "enter", "check"} \/ tui.dialog = "none" \/ s \in crossed'
    BY <1>4, <1>5, <1>6
  <2> QED
    BY <2>1, <2>2, <2>3, <1>2, <1>3, <1>12, <1>13, MovesOn
<1> QED
  BY <1>10, <1>11, <1>14 DEF SteerInv

\* A submit that writes a key.
LEMMA WritesStep ==
    ASSUME SteerInv, NEW s \in Submits, TypeText(s) \/ PressEnter(s)
    PROVE  SteerInv'
<1>1. SteerTyped /\ StageOK /\ TextsOK /\ SawOK /\ EntersOK /\ BusyOK /\ QuietOK
  BY DEF SteerInv
<1>2. /\ UNCHANGED << mode, tuiAlive, tui, swallowed, taken, screen, dialogs, answered, said, seen, raised,
                      watching, crossed >>
      /\ at[s] \in {"type", "enter"}
  BY DEF TypeText, PressEnter, tuiVars
<1>3. /\ at' \in [Submits -> {"idle", "gate", "type", "enter", "check", "done"}]
      /\ \A u \in Submits \ {s} : at'[u] = at[u] /\ pressed'[u] = pressed[u]
      /\ pressed' \in [Submits -> 0 .. MaxAttempts]
      /\ at[s] = "type" => at'[s] = "enter" /\ pressed'[s] = pressed[s]
      /\ at[s] = "enter" => at'[s] = "check"
      /\ said[s] = "nothing"
  <2>1. at[s] = "enter" => pressed[s] < MaxAttempts
    BY <1>1 DEF StageOK
  <2>2. CASE TypeText(s)
    BY <2>2, <1>1 DEF TypeText, MoveTo, SteerTyped, StageOK
  <2>3. CASE PressEnter(s)
    <3>1. at[s] = "enter" /\ pressed' = [pressed EXCEPT ![s] = @ + 1] /\ at' = [at EXCEPT ![s] = "check"]
      BY <2>3 DEF PressEnter, MoveTo
    <3>2. pressed[s] + 1 \in 0 .. MaxAttempts
      BY <2>1, <3>1, <1>1, SteerBounds DEF SteerTyped
    <3>3. pressed' \in [Submits -> 0 .. MaxAttempts] /\ \A u \in Submits \ {s} : pressed'[u] = pressed[u]
      BY <3>1, <3>2, <1>1 DEF SteerTyped
    <3> QED
      BY <3>1, <3>3, <1>1 DEF SteerTyped, StageOK
  <2> QED
    BY <2>2, <2>3
<1>4. PICK k \in {Text(s), Enter(s)} :
        /\ input' = IF tuiAlive THEN Append(input, k) ELSE input
        /\ k.key = "text" => at[s] = "type"
        /\ k.key = "enter" => at[s] = "enter" /\ Redrawn
  BY DEF TypeText, PressEnter, Text, Enter
<1>5. k \in Keys /\ k.by = s
  BY DEF Text, Enter, Keys
<1>6. input \in Seq(Keys) /\ tui \in Tuis
  BY <1>1 DEF SteerTyped
<1>7. /\ input' \in Seq(Keys)
      /\ \A i \in DOMAIN input' : \/ i \in DOMAIN input /\ input'[i] = input[i]
                                  \/ tuiAlive /\ i \notin DOMAIN input /\ input'[i] = k /\ i = Len(input) + 1
  BY <1>4, <1>5, <1>6, Appended
<1>8. SteerTyped'
  BY <1>1, <1>2, <1>3, <1>7 DEF SteerTyped
<1>9. StageOK'
  <2>1. at'[s] = "enter" => pressed'[s] < MaxAttempts
    <3>1. at'[s] = "enter" => at[s] = "type" /\ pressed[s] = 0
      BY <1>1, <1>2, <1>3 DEF StageOK
    <3> QED
      BY <3>1, <1>3, SteerBounds
  <2> QED
    BY <2>1, <1>1, <1>2, <1>3 DEF StageOK
<1>10. \A u \in Submits : Wrote(u) => at'[u] \in {"enter", "check", "done"} /\ said'[u] # "refused"
  BY <1>2, <1>3 DEF Wrote
<1>11. at'[s] \in {"enter", "check"} /\ said'[s] # "refused" /\ (k.key = "text" => ~Wrote(s))
  BY <1>2, <1>3, <1>4 DEF Wrote
<1>12. \A i \in DOMAIN tui.composer : tui.composer[i] \in Submits
  BY <1>6 DEF Tuis
<1>13. TextsOK'
  <2>1. \A i \in DOMAIN input' : input'[i].by \in Submits =>
          at'[input'[i].by] \in {"enter", "check", "done"} /\ said'[input'[i].by] # "refused"
    BY <1>1, <1>5, <1>7, <1>10, <1>11 DEF TextsOK
  <2>2. \A i \in DOMAIN input' : input'[i].key = "text" => input'[i].by \in Submits
    BY <1>1, <1>5, <1>7 DEF TextsOK
  <2>3. \A i \in DOMAIN tui'.composer :
          at'[tui'.composer[i]] \in {"enter", "check", "done"} /\ said'[tui'.composer[i]] # "refused"
    BY <1>1, <1>2, <1>10, <1>12 DEF TextsOK
  <2>4. k.key = "text" => /\ \A i \in DOMAIN input : input[i].by # s
                          /\ \A i \in DOMAIN tui.composer : tui.composer[i] # s
    BY <1>1, <1>11 DEF TextsOK
  <2>5. \A i, j \in DOMAIN input' :
          input'[i].key = "text" /\ input'[j].key = "text" /\ input'[i].by = input'[j].by => i = j
    BY <2>4, <1>1, <1>5, <1>7 DEF TextsOK
  <2>6. \A i \in DOMAIN input', j \in DOMAIN tui'.composer :
          input'[i].key = "text" => input'[i].by # tui'.composer[j]
    BY <2>4, <1>1, <1>2, <1>5, <1>7 DEF TextsOK
  <2> QED
    <3>1. \A i, j \in DOMAIN tui'.composer : tui'.composer[i] = tui'.composer[j] => i = j
      BY <1>1, <1>2 DEF TextsOK
    <3> QED
      BY <2>1, <2>2, <2>3, <2>5, <2>6, <3>1 DEF TextsOK, Wrote
<1>14. SawOK'
  <2>1. s \in Past
    BY <1>2 DEF Past
  <2>2. Past' \subseteq Past
    BY <2>1, <1>3, <1>5, <1>7 DEF Past
  <2> QED
    BY <2>2, <1>1, <1>2 DEF SawOK
<1>15. EntersOK'
  <2> SUFFICES ASSUME mode # "slow", tuiAlive
               PROVE  /\ \A i \in DOMAIN input' :
                            input'[i].key = "enter" /\ input'[i].by \in Submits => at'[input'[i].by] = "check"
                      /\ \A i, j \in DOMAIN input' :
                            /\ input'[i].key = "enter" /\ input'[j].key = "enter"
                            /\ input'[i].by = input'[j].by /\ input'[i].by \in Submits
                            => i = j
    BY <1>2 DEF EntersOK
  <2>1. /\ \A i \in DOMAIN input :
              input[i].key = "enter" /\ input[i].by \in Submits => at[input[i].by] = "check"
        /\ \A i, j \in DOMAIN input :
              /\ input[i].key = "enter" /\ input[j].key = "enter"
              /\ input[i].by = input[j].by /\ input[i].by \in Submits
              => i = j
    BY <1>1 DEF EntersOK
  <2>2. \A i \in DOMAIN input :
          input[i].key = "enter" /\ input[i].by \in Submits =>
              input[i].by # s /\ at'[input[i].by] = "check"
    BY <2>1, <1>2, <1>3
  <2>3. k.key = "enter" => at'[s] = "check"
    BY <1>3, <1>4
  <2>4. \A i \in DOMAIN input' :
          input'[i].key = "enter" /\ input'[i].by \in Submits => at'[input'[i].by] = "check"
    BY <2>2, <2>3, <1>5, <1>7
  <2>5. \A i, j \in DOMAIN input' :
              /\ input'[i].key = "enter" /\ input'[j].key = "enter"
              /\ input'[i].by = input'[j].by /\ input'[i].by \in Submits
              => i = j
    BY <2>1, <2>2, <1>5, <1>7
  <2> QED
    BY <2>4, <2>5
<1>16. BusyOK'
  BY <1>1, <1>2 DEF BusyOK
<1>17. QuietOK'
  <2> SUFFICES ASSUME tuiAlive, taken # {}, NEW u \in Submits, Alone(u)' PROVE FALSE
    BY <1>2 DEF QuietOK
  <2>1. u = s
    BY <1>2, <1>3 DEF Alone
  <2>2. Alone(s)
    BY <2>1, <1>2, <1>3 DEF Alone
  <2> QED
    BY <2>2, <1>1, <1>2 DEF QuietOK
<1>18. LooksBeforeTyping'
  BY <1>2 DEF SteerInv, LooksBeforeTyping
<1>19. RetriesAreSafe'
  BY <1>2, <1>3 DEF SteerInv, RetriesAreSafe
<1> QED
  BY <1>8, <1>9, <1>13, <1>14, <1>15, <1>16, <1>17, <1>18, <1>19 DEF SteerInv

LEMMA WatchStep ==
    ASSUME SteerInv, Watch \/ WatcherAnswers \/ WatchEnds
    PROVE  SteerInv'
<1>1. SteerTyped /\ TextsOK /\ SawOK /\ EntersOK /\ QuietOK
  BY DEF SteerInv
<1>2. /\ UNCHANGED << mode, tuiAlive, tui, swallowed, taken, screen, dialogs, answered, at, said, seen, pressed,
                      raised, crossed >>
      /\ watching' \in {"looking", "answering", "done"}
  BY DEF Watch, WatcherAnswers, WatchEnds, tuiVars
<1>3. Enter(Watcher) \in Keys /\ Enter(Watcher).by = Watcher /\ Enter(Watcher).key = "enter"
  BY DEF Enter, Keys
<1>4. input \in Seq(Keys) /\ tui \in Tuis
  BY <1>1 DEF SteerTyped
<1>5. input' = input \/ input' = Append(input, Enter(Watcher))
  BY DEF Watch, WatcherAnswers, WatchEnds
<1>6. /\ input' \in Seq(Keys)
      /\ \A i \in DOMAIN input' : \/ i \in DOMAIN input /\ input'[i] = input[i]
                                  \/ input'[i].by \notin Submits /\ input'[i].key = "enter"
  BY <1>3, <1>4, <1>5, SteerBounds, Appended
<1>7. SteerTyped' /\ StageOK'
  BY <1>1, <1>2, <1>6 DEF SteerInv, SteerTyped, StageOK
<1>8. \A u : Wrote(u)' = Wrote(u)
  BY <1>2 DEF Wrote
<1>9. TextsOK'
  BY <1>1, <1>2, <1>6, <1>8 DEF TextsOK
<1>10. SawOK'
  <2>1. Past' \subseteq Past
    BY <1>2, <1>6 DEF Past
  <2> QED
    BY <2>1, <1>1, <1>2 DEF SawOK
<1>11. EntersOK'
  BY <1>1, <1>2, <1>6 DEF EntersOK
<1>12. BusyOK' /\ LooksBeforeTyping' /\ RetriesAreSafe'
  BY <1>2 DEF SteerInv, BusyOK, LooksBeforeTyping, RetriesAreSafe
<1>13. QuietOK'
  BY <1>1, <1>2, <1>6 DEF QuietOK, Alone
<1> QED
  BY <1>7, <1>9, <1>10, <1>11, <1>12, <1>13 DEF SteerInv

\* What the program and its human do to the terminal, and no key is read.
LEMMA TerminalStep ==
    ASSUME SteerInv, Render \/ OpenDialog \/ HumanAnswers \/ TurnEnds \/ TuiDies
    PROVE  SteerInv'
<1>1. SteerTyped /\ TextsOK /\ SawOK /\ EntersOK /\ BusyOK /\ QuietOK
  BY DEF SteerInv
<1>2. /\ UNCHANGED << mode, input, swallowed, taken, answered, at, said, seen, pressed, raised, watching >>
      /\ tuiAlive' \in BOOLEAN /\ (tuiAlive' => tuiAlive)
      /\ screen' \in Tuis /\ crossed \subseteq crossed' /\ crossed' \subseteq crossed \cup Past
  BY <1>1 DEF Render, OpenDialog, HumanAnswers, TurnEnds, TuiDies, tuiVars, SteerTyped
<1>3. dialogs' \in 0 .. MaxDialogs
  BY <1>1, SteerBounds DEF Render, OpenDialog, HumanAnswers, TurnEnds, TuiDies, tuiVars, SteerTyped
<1>4. /\ tui' \in Tuis /\ tui'.composer = tui.composer
      /\ tui'.busy \/ tui'.dialog = "permission" => taken # {}
      /\ tui'.dialog # "none" => Past \subseteq crossed'
  <2>1. /\ tui \in Tuis /\ (tui.busy \/ tui.dialog = "permission" => taken # {})
        /\ tui.dialog # "none" => Past \subseteq crossed
    BY <1>1 DEF SteerTyped, BusyOK, SawOK
  <2>2. CASE Render \/ TuiDies
    BY <2>1, <2>2 DEF Render, TuiDies
  <2>3. CASE OpenDialog
    BY <2>1, <2>3 DEF OpenDialog, Tuis, DialogKinds
  <2>4. CASE HumanAnswers \/ TurnEnds
    BY <2>1, <2>4 DEF HumanAnswers, TurnEnds, Tuis, DialogKinds
  <2> QED
    BY <2>2, <2>3, <2>4
<1>5. crossed' \subseteq Submits
  BY <1>1, <1>2 DEF SteerTyped, Past
<1>6. SteerTyped' /\ StageOK'
  BY <1>1, <1>2, <1>3, <1>4, <1>5 DEF SteerInv, SteerTyped, StageOK
<1>7. TextsOK' /\ EntersOK'
  BY <1>1, <1>2, <1>4 DEF TextsOK, EntersOK, Wrote
<1>8. SawOK'
  BY <1>2, <1>4 DEF SawOK, Past
<1>9. BusyOK'
  BY <1>2, <1>4 DEF BusyOK
<1>10. QuietOK'
  BY <1>1, <1>2, <1>4 DEF QuietOK, Alone
<1>11. LooksBeforeTyping' /\ RetriesAreSafe'
  BY <1>2 DEF SteerInv, LooksBeforeTyping, RetriesAreSafe
<1> QED
  BY <1>6, <1>7, <1>8, <1>9, <1>10, <1>11 DEF SteerInv

LEMMA ReadStep ==
    ASSUME SteerInv, ReadKey
    PROVE  SteerInv'
<1>1. SteerTyped /\ StageOK /\ TextsOK /\ SawOK /\ EntersOK /\ BusyOK /\ QuietOK
  BY DEF SteerInv
<1>2. /\ UNCHANGED << mode, tuiAlive, screen, dialogs, at, seen, pressed, said, raised, watching, crossed >>
      /\ tuiAlive /\ input # << >> /\ input' = Tail(input)
  BY DEF ReadKey
<1>3. input \in Seq(Keys) /\ tui \in Tuis /\ taken \subseteq Submits /\ swallowed \in BOOLEAN
  BY <1>1 DEF SteerTyped
<1>4. /\ input' \in Seq(Keys) /\ 1 \in DOMAIN input /\ Head(input) = input[1] /\ Head(input) \in Keys
      /\ \A i \in DOMAIN input' : i + 1 \in DOMAIN input /\ input'[i] = input[i + 1] /\ i + 1 # 1
      /\ \A i, j \in DOMAIN input' : i + 1 = j + 1 => i = j
  BY <1>2, <1>3, Tailed
<1>5. PICK k \in Keys : k = input[1] /\ Head(input) = k
  BY <1>4
<1>6. Past' \subseteq Past
  BY <1>2, <1>4 DEF Past
<1>7. StageOK'
  BY <1>1, <1>2 DEF StageOK
<1>8. EntersOK'
  BY <1>1, <1>2, <1>4 DEF EntersOK
\* What TextsOK says of the keys goes on when the composer does not gain a text.
<1>9. ASSUME \/ tui'.composer = tui.composer
             \/ tui'.composer = << >>
      PROVE  TextsOK'
  BY <1>1, <1>2, <1>4, <1>9 DEF TextsOK, Wrote
<1>10. CASE k.key = "text" /\ tui.dialog = "none"
  <2>1. /\ tui' = [tui EXCEPT !.composer = Append(@, k.by)]
        /\ UNCHANGED << swallowed, taken, answered >>
    BY <1>5, <1>10 DEF ReadKey
  <2>2. k.by \in Submits /\ Wrote(k.by)
    BY <1>1, <1>4, <1>5, <1>10 DEF TextsOK
  <2>3. tui.composer \in Seq(Submits)
    BY <1>3 DEF Tuis
  <2>4. /\ tui'.composer \in Seq(Submits)
        /\ \A i \in DOMAIN tui'.composer :
              \/ i \in DOMAIN tui.composer /\ tui'.composer[i] = tui.composer[i]
              \/ i \notin DOMAIN tui.composer /\ tui'.composer[i] = k.by /\ i = Len(tui.composer) + 1
        /\ tui'.dialog = "none" /\ tui'.busy = tui.busy /\ tui' \in Tuis
    <3>1. /\ tui'.composer = Append(tui.composer, k.by)
          /\ tui'.dialog = tui.dialog /\ tui'.busy = tui.busy
          /\ Append(tui.composer, k.by) \in Seq(Submits) => tui' \in Tuis
      BY <2>1, <1>3 DEF Tuis
    <3> QED
      BY <3>1, <2>2, <2>3, <1>10, Appended
  <2>5. SteerTyped'
    BY <1>1, <1>2, <1>4, <2>1, <2>4 DEF SteerTyped
  <2>6. /\ \A i \in DOMAIN tui.composer : tui.composer[i] # k.by
        /\ \A i \in DOMAIN input' : input'[i].key = "text" => input'[i].by # k.by
    BY <1>1, <1>4, <1>5, <1>10 DEF TextsOK
  <2>7. TextsOK'
    <3>1. /\ \A i \in DOMAIN input' : input'[i].by \in Submits => Wrote(input'[i].by)
          /\ \A i \in DOMAIN input' : input'[i].key = "text" => input'[i].by \in Submits
          /\ \A i, j \in DOMAIN input' :
                input'[i].key = "text" /\ input'[j].key = "text" /\ input'[i].by = input'[j].by => i = j
      BY <1>1, <1>4 DEF TextsOK
    <3>2. \A i \in DOMAIN tui'.composer : Wrote(tui'.composer[i])
      BY <1>1, <2>2, <2>4 DEF TextsOK
    <3>3. \A i, j \in DOMAIN tui'.composer : tui'.composer[i] = tui'.composer[j] => i = j
      BY <1>1, <2>4, <2>6 DEF TextsOK
    <3>4. \A i \in DOMAIN input', j \in DOMAIN tui'.composer :
             input'[i].key = "text" => input'[i].by # tui'.composer[j]
      BY <1>1, <1>4, <2>4, <2>6 DEF TextsOK
    <3> QED
      BY <3>1, <3>2, <3>3, <3>4, <1>2 DEF TextsOK, Wrote
  <2>8. SawOK' /\ BusyOK'
    BY <1>1, <2>1, <2>4 DEF SawOK, BusyOK
  <2>9. QuietOK'
    <3> SUFFICES ASSUME taken # {}, NEW s \in Submits, Alone(s)' PROVE FALSE
      BY <1>2, <2>1 DEF QuietOK
    <3>1. Alone(s)
      BY <1>2, <2>1 DEF Alone
    <3>2. k.by # s
      BY <3>1, <1>1, <1>2, <1>4, <1>5 DEF QuietOK
    <3> QED
      BY <3>1, <3>2, <2>2 DEF Alone, Wrote
  <2>10. LooksBeforeTyping' /\ RetriesAreSafe'
    BY <1>2, <2>1 DEF SteerInv, LooksBeforeTyping, RetriesAreSafe
  <2> QED
    BY <1>7, <1>8, <2>5, <2>7, <2>8, <2>9, <2>10 DEF SteerInv
<1>11. CASE k.key = "enter" /\ tui.dialog # "none"
  <2>1. /\ tui' = [tui EXCEPT !.dialog = "none"]
        /\ answered' = answered \cup {<< k.by, tui.dialog >>}
        /\ UNCHANGED << swallowed, taken >>
    BY <1>5, <1>11 DEF ReadKey
  <2>2. tui' \in Tuis /\ tui'.composer = tui.composer /\ tui'.dialog = "none" /\ tui'.busy = tui.busy
    BY <2>1, <1>3 DEF Tuis, DialogKinds
  <2>3. SteerTyped' /\ TextsOK'
    BY <1>1, <1>2, <1>4, <1>9, <2>1, <2>2 DEF SteerTyped
  <2>4. SawOK' /\ BusyOK'
    BY <1>1, <2>1, <2>2 DEF SawOK, BusyOK
  <2>5. \A s \in Submits : Alone(s)' => Alone(s)
    BY <1>2, <2>1 DEF Alone
  <2>6. QuietOK'
    BY <1>1, <1>2, <1>4, <2>1, <2>2, <2>5 DEF QuietOK
  <2>7. k.by \in Submits => k.by \in crossed
    BY <1>1, <1>4, <1>5, <1>11 DEF SawOK, Past
  <2>8. LooksBeforeTyping'
    BY <1>2, <2>1, <2>7 DEF SteerInv, LooksBeforeTyping
  <2>9. RetriesAreSafe'
    <3> SUFFICES ASSUME NEW s \in Submits, << s, "permission" >> \in answered'
                 PROVE  \/ mode = "slow" \/ << Watcher, "none" >> \in answered'
                        \/ \E u \in Submits \ {s} : at[u] # "idle" /\ said[u] # "refused"
      BY <1>2 DEF RetriesAreSafe
    <3>1. CASE << s, "permission" >> \in answered
      BY <3>1, <2>1 DEF SteerInv, RetriesAreSafe
    <3>2. CASE k.by = s /\ tui.dialog = "permission"
      <4>1. taken # {}
        BY <3>2, <1>1 DEF BusyOK
      <4>2. ~Alone(s)
        BY <4>1, <3>2, <1>1, <1>2, <1>4, <1>5 DEF QuietOK
      <4> QED
        BY <4>2, <2>1 DEF Alone
    <3> QED
      BY <3>1, <3>2, <2>1
  <2> QED
    BY <1>7, <1>8, <2>3, <2>4, <2>6, <2>8, <2>9 DEF SteerInv
<1>12. CASE k.key = "enter" /\ tui.dialog = "none" /\ tui.composer # << >> /\ ~Swallows
  <2>1. /\ taken' = taken \cup {t \in Submits : InComposer(t)}
        /\ tui' = [tui EXCEPT !.composer = << >>, !.busy = TRUE]
        /\ swallowed' = FALSE
        /\ answered' = IF k.by = Watcher THEN answered \cup {<< Watcher, "none" >>} ELSE answered
    BY <1>5, <1>12 DEF ReadKey
  <2>2. tui' \in Tuis /\ tui'.composer = << >> /\ tui'.dialog = "none"
    <3>1. << >> \in Seq(Submits)
      OBVIOUS
    <3> DEFINE drawn == [tui EXCEPT !.composer = << >>, !.busy = TRUE]
    <3>2. drawn \in Tuis
      BY <3>1, <1>3 DEF Tuis
    <3>3. drawn.composer = << >> /\ drawn.dialog = "none"
      BY <1>3, <1>12 DEF Tuis
    <3> HIDE DEF drawn
    <3> QED
      BY <3>2, <3>3, <2>1 DEF drawn
  <2>3. SteerTyped' /\ TextsOK'
    BY <1>1, <1>2, <1>4, <1>9, <2>1, <2>2 DEF SteerTyped
  <2>4. PICK t \in Submits : 1 \in DOMAIN tui.composer /\ tui.composer[1] = t
    BY <1>3, <1>12 DEF Tuis
  <2>5. t \in taken' /\ Wrote(t)
    BY <2>1, <2>4, <1>1 DEF InComposer, TextsOK
  <2>6. SawOK' /\ BusyOK'
    BY <2>2, <2>5 DEF SawOK, BusyOK
  <2>7. LooksBeforeTyping'
    BY <1>2, <2>1 DEF SteerInv, LooksBeforeTyping
  <2>8. RetriesAreSafe'
    BY <1>2, <2>1 DEF SteerInv, RetriesAreSafe
  <2>9. QuietOK'
    <3> SUFFICES ASSUME NEW s \in Submits, Alone(s)'
                 PROVE  at[s] \in {"check", "done"} /\ \A i \in DOMAIN input' : input'[i].by # s
      BY <1>2, <2>2 DEF QuietOK
    <3>1. Alone(s) /\ k.by # Watcher /\ mode # "slow"
      BY <1>2, <2>1 DEF Alone
    <3>2. t = s
      BY <3>1, <2>5 DEF Alone, Wrote
    <3>3. k.by = s
      <4>1. k.by \in Submits
        BY <3>1 DEF Keys
      <4>2. Wrote(k.by)
        BY <4>1, <1>1, <1>4, <1>5 DEF TextsOK
      <4> QED
        BY <3>1, <4>1, <4>2 DEF Alone, Wrote
    <3>4. at[s] = "check"
      BY <3>1, <3>3, <1>1, <1>2, <1>4, <1>5, <1>12 DEF EntersOK
    <3>5. \A i \in DOMAIN input : input[i].by = s => i = 1
      <4> SUFFICES ASSUME NEW i \in DOMAIN input, input[i].by = s PROVE i = 1
        OBVIOUS
      <4>1. input[i].key # "text"
        BY <2>4, <3>2, <1>1 DEF TextsOK
      <4>2. input[i].key = "enter"
        <5>1. input[i] \in Keys
          BY <1>3
        <5> QED
          BY <4>1, <5>1 DEF Keys
      <4> QED
        BY <4>2, <3>1, <3>3, <1>1, <1>2, <1>4, <1>5, <1>12 DEF EntersOK
    <3> QED
      BY <3>4, <3>5, <1>4
  <2> QED
    BY <1>7, <1>8, <2>3, <2>6, <2>7, <2>8, <2>9 DEF SteerInv
<1>13. CASE UNCHANGED << tui, taken, answered >> /\ swallowed' \in BOOLEAN
  <2>1. SteerTyped' /\ TextsOK'
    BY <1>1, <1>2, <1>4, <1>9, <1>13 DEF SteerTyped
  <2>2. SawOK' /\ BusyOK'
    BY <1>1, <1>2, <1>6, <1>13 DEF SawOK, BusyOK
  <2>3. QuietOK'
    BY <1>1, <1>2, <1>4, <1>13 DEF QuietOK, Alone
  <2>4. LooksBeforeTyping' /\ RetriesAreSafe'
    BY <1>2, <1>13 DEF SteerInv, LooksBeforeTyping, RetriesAreSafe
  <2> QED
    BY <1>7, <1>8, <2>1, <2>2, <2>3, <2>4 DEF SteerInv
<1>14. \/ k.key = "text" /\ tui.dialog = "none"
       \/ k.key = "enter" /\ tui.dialog # "none"
       \/ k.key = "enter" /\ tui.dialog = "none" /\ tui.composer # << >> /\ ~Swallows
       \/ UNCHANGED << tui, taken, answered >> /\ swallowed' \in BOOLEAN
  <2>1. k.key \in {"text", "enter"}
    BY DEF Keys
  <2>2. CASE k.key = "text" /\ tui.dialog # "none"
    BY <2>2, <1>3, <1>5 DEF ReadKey
  <2>3. CASE k.key = "enter" /\ tui.dialog = "none" /\ tui.composer = << >>
    BY <2>3, <1>3, <1>5 DEF ReadKey
  <2>4. CASE k.key = "enter" /\ tui.dialog = "none" /\ tui.composer # << >> /\ Swallows
    BY <2>4, <1>5 DEF ReadKey
  <2> QED
    BY <2>1, <2>2, <2>3, <2>4
<1> QED
  BY <1>10, <1>11, <1>12, <1>13, <1>14

LEMMA SteerStep == SteerInv /\ [SteerNext]_steerVars => SteerInv'
<1> SUFFICES ASSUME SteerInv, [SteerNext]_steerVars PROVE SteerInv'
  OBVIOUS
<1>1. CASE UNCHANGED steerVars
  <2>1. SteerTyped' /\ StageOK'
    BY <1>1 DEF steerVars, SteerInv, SteerTyped, StageOK
  <2>2. TextsOK' /\ SawOK' /\ EntersOK'
    BY <1>1 DEF steerVars, SteerInv, TextsOK, SawOK, EntersOK, Wrote, Past
  <2>3. BusyOK' /\ QuietOK'
    BY <1>1 DEF steerVars, SteerInv, BusyOK, QuietOK, Alone
  <2>4. LooksBeforeTyping' /\ RetriesAreSafe'
    BY <1>1 DEF steerVars, SteerInv, LooksBeforeTyping, RetriesAreSafe
  <2> QED
    BY <2>1, <2>2, <2>3, <2>4 DEF SteerInv
<1>2. CASE SteerNext
  BY <1>2, ReadStep, TerminalStep, WatchStep, LooksStep, WritesStep DEF SteerNext, Program, Submitting
<1> QED
  BY <1>1, <1>2

\* The texts in the composer are different ones, so there are no more of them
\* than submits.
LEMMA SteerTypes == SteerInv => SteerTypeOK
<1> SUFFICES ASSUME SteerInv PROVE SteerTypeOK
  OBVIOUS
<1>1. SteerTyped /\ TextsOK
  BY DEF SteerInv
<1>2. tui.composer \in Seq(Submits) /\ \A i, j \in DOMAIN tui.composer : tui.composer[i] = tui.composer[j] => i = j
  BY <1>1 DEF SteerTyped, TextsOK, Tuis
<1>3. PICK n \in Nat : n = Len(tui.composer) /\ DOMAIN tui.composer = 1 .. n
  BY <1>2
<1>4. IsFiniteSet(1 .. n) /\ Cardinality(1 .. n) = n
  BY <1>3, FS_Interval
<1>5. IsFiniteSet(Submits) /\ Cardinality(Submits) \in Nat
  BY SteerBounds, FS_CardinalityType
<1>6. tui.composer \in [1 .. n -> Submits]
  BY <1>2, <1>3
<1>7. \A i, j \in 1 .. n : tui.composer[i] = tui.composer[j] => i = j
  BY <1>2, <1>3
<1>8. n <= Cardinality(Submits)
  BY <1>4, <1>5, <1>6, <1>7, FS_Injection DEF ExistsInjection, Injection, IsInjective
<1>9. /\ \A i \in DOMAIN input : input[i].key \in {"text", "enter"} /\ input[i].by \in Submits \cup {Watcher}
      /\ {tui.dialog, screen.dialog} \subseteq {"none", "trust", "permission"}
      /\ {tui.busy, screen.busy} \subseteq BOOLEAN
  <2>1. \A i \in DOMAIN input : input[i] \in Keys
    BY <1>1 DEF SteerTyped
  <2>2. \A i \in DOMAIN input : input[i].key \in {"text", "enter"} /\ input[i].by \in Submits \cup {Watcher}
    BY <2>1 DEF Keys
  <2>3. tui \in Tuis /\ screen \in Tuis
    BY <1>1 DEF SteerTyped
  <2> QED
    BY <2>2, <2>3 DEF Tuis, DialogKinds
<1> QED
  BY <1>1, <1>3, <1>8, <1>9 DEF SteerTyped, SteerTypeOK

-----------------------------------------------------------------------------
(* The review, while no invocation of the CLI is killed: only the agent's  *)
(* own call is under way, so no orphan's answer sets the session to        *)
(* working behind a poll that is parked.                                   *)

OneCall == \A h \in Calls : call[h].pc # "idle" => agent = h

ParkInv == MaxKills = 0 => OneCall /\ ParkedIsAwaiting

LEMMA ParkBegins == ReviewInit => ParkInv
BY ReviewAssumption DEF ReviewInit, ParkInv, OneCall, ParkedIsAwaiting, NoRequest, ReviewAssumption

LEMMA ParkStep == ReviewTypeOK /\ ParkInv /\ [ReviewNext]_reviewVars => ParkInv'
<1> SUFFICES ASSUME ReviewTypeOK, OneCall, ParkedIsAwaiting, MaxKills = 0, [ReviewNext]_reviewVars
             PROVE  OneCall' /\ ParkedIsAwaiting'
  BY DEF ParkInv
<1>1. /\ call \in [Calls -> CallStates] /\ agent \in Calls \cup {NoCall} /\ NoCall \notin Calls
      /\ kills \in 0 .. MaxKills
  BY ReviewAssumption DEF ReviewTypeOK, ReviewAssumption
<1>2. CASE UNCHANGED << call, agent, session >>
  BY <1>2 DEF OneCall, ParkedIsAwaiting
<1>3. CASE ReviewCrash
  BY <1>3, <1>1 DEF ReviewCrash, OneCall, ParkedIsAwaiting, NoRequest
<1>4. ASSUME NEW h \in Calls, AgentStep(h) \/ Handler(h)
      PROVE  OneCall' /\ ParkedIsAwaiting'
  <2>1. /\ \A g \in Calls \ {h} : call'[g] = call[g]
        /\ agent \in {h, NoCall} /\ agent' \in {h, NoCall}
        /\ agent' = NoCall => call'[h].pc = "idle"
        /\ call'[h].pc \in {"read", "take"} =>
             session' = "awaiting_feedback" \/ (call[h].pc \in {"read", "take"} /\ session' = session)
    <3>1. CASE Poll(h)
      <4>1. PICK p : call' = [call EXCEPT ![h] = [pc |-> "park", plan |-> p]]
        BY <3>1 DEF Poll
      <4> QED
        BY <3>1, <4>1, <1>1 DEF Poll
    <3>2. CASE \E p \in Plans : Open(h, p)
      BY <3>2, <1>1 DEF Open
    <3>3. CASE Handler(h) /\ ~Reply(h)
      <4>1. call[h].pc # "idle" /\ agent' = agent
        BY <3>3 DEF Handler, OpenWrites, OpenAsks, PollParks, PollReads, PollTakes, PollEnds, PollWakes,
                    PollWaits, agentVars
      <4>2. agent = h
        BY <4>1 DEF OneCall
      <4>3. \A g \in Calls \ {h} : call'[g] = call[g]
        BY <3>3, <1>1 DEF Handler, OpenWrites, OpenAsks, PollParks, PollReads, PollTakes, PollEnds, PollWakes,
                    PollWaits
      <4>4. CASE OpenWrites(h) \/ OpenAsks(h)
        BY <4>4, <4>1, <4>2, <4>3, <1>1, CallForms DEF OpenWrites, OpenAsks, Answer
      <4>5. CASE PollParks(h) \/ PollReads(h) \/ PollWaits(h)
        BY <4>5, <4>1, <4>2, <4>3, <1>1 DEF PollParks, PollReads, PollWaits, Answer
      <4>6. CASE PollTakes(h) \/ PollEnds(h) \/ PollWakes(h)
        <5>1. call'[h].pc \in {"wake", "reply"}
          BY <4>6, <1>1, CallForms DEF PollTakes, PollEnds, PollWakes, Delivery, Answer
        <5> QED
          BY <5>1, <4>1, <4>2, <4>3, <1>1
      <4> QED
        BY <3>3, <4>4, <4>5, <4>6 DEF Handler
    <3>4. CASE Reply(h)
      BY <3>4, <1>1 DEF Reply, NoRequest, OneCall
    <3> QED
      BY <1>4, <3>1, <3>2, <3>3, <3>4 DEF AgentStep
  <2>2. \A g \in Calls \ {h} : call[g].pc = "idle"
    BY <2>1, <1>1 DEF OneCall
  <2>3. OneCall'
    BY <2>1, <2>2 DEF OneCall
  <2>4. ParkedIsAwaiting'
    BY <2>1, <2>2, <1>1 DEF OneCall, ParkedIsAwaiting
  <2> QED
    BY <2>3, <2>4
<1>5. CASE Killed
  BY <1>5, <1>1 DEF Killed
<1>6. ASSUME NEW u \in Humans,
             \/ Submission(u)
             \/ \E p \in Plans, act \in Acts, r \in 1 .. MaxRounds : Submit(u, p, act, r)
      PROVE  UNCHANGED << call, agent, session >>
  BY <1>6 DEF Submission, Submit, SubmitQueues, SubmitResolves, SubmitConcludes, agentVars
<1>7. UNCHANGED reviewVars => UNCHANGED << call, agent, session >>
  BY DEF reviewVars, agentVars
<1> QED
  BY <1>2, <1>3, <1>4, <1>5, <1>6, <1>7 DEF ReviewNext

-----------------------------------------------------------------------------
(* The parts together.                                                     *)

DaemonsInv == StartInv /\ RoundsInv /\ SteerInv /\ ReviewTypeOK /\ ParkInv

LEMMA DaemonsBegin == MCInit => DaemonsInv
BY StartBegins, RoundsBegin, SteerBegins, TypeInit, ParkBegins DEF MCInit, DaemonsInv

\* A step of one part is a stutter of the others.
LEMMA OnePartSteps ==
    [MCNext]_<< part, parts >> =>
        [DaemonNext]_startVars /\ [RoundsNext]_roundVars /\ [SteerNext]_steerVars /\ [ReviewNext]_reviewVars
BY DEF MCNext, SessionPart, ReviewPart, SteeringPart, StartPart, RoundsPart, parts

LEMMA DaemonsStep == DaemonsInv /\ [MCNext]_<< part, parts >> => DaemonsInv'
BY OnePartSteps, StartStep, RoundsStep, SteerStep, TypeNext, ParkStep DEF DaemonsInv

LEMMA DaemonsHold == MCSpec => []DaemonsInv
BY DaemonsBegin, DaemonsStep, PTL DEF MCSpec

\* Whatever daemons, windows and tools, submits and dialogs, schedules and
\* reviews do, what is stored and sent has its form.
THEOREM DaemonsTypes == MCSpec => []DaemonTypesOK
<1>1. DaemonsInv => DaemonTypesOK
  BY StartTypes, RoundsTypes, SteerTypes DEF DaemonsInv, DaemonTypesOK
<1> QED
  BY <1>1, DaemonsHold, PTL

\* dflow.lock: of any number of daemons that start, crash and stop, one holds
\* the machine; the next takes the root token over unless its file is gone;
\* what `--stop` reports as stopped has let go.
THEOREM OneDaemonServes == MCSpec => []OneDaemon
<1>1. DaemonsInv => OneDaemon
  BY OneServesNow DEF DaemonsInv
<1> QED
  BY <1>1, DaemonsHold, PTL

\* daemon_start of the desktop: a window is told of a daemon that answers, and
\* with the token that daemon has, though what it read of it may be old.
THEOREM WindowsToldOfLiving == MCSpec => ToldTheLiving
<1> DEFINE Told ==
      \A w \in Windows : windows'[w].at = "attached" /\ ~WindowAt(w, "attached") =>
          LET i == windows'[w].info IN i.pid \in Answering /\ daemons[i.pid].token = i.token
<1>1. DaemonsInv /\ [MCNext]_<< part, parts >> => [Told]_startVars
  BY OnePartSteps, ToldTheLivingNow DEF DaemonsInv, WindowAt
<1> QED
  BY <1>1, DaemonsHold, PTL DEF MCSpec, ToldTheLiving

\* run_round_scheduler: the scheduler attempts a type again only when its
\* interval went by - or the bookmark of its last attempt may be lost, by a
\* clock that was set or a crash.
THEOREM AttemptsAreApart == MCSpec => AttemptsApart
<1>1. DaemonsInv /\ [MCNext]_<< part, parts >> => [Waited]_roundVars
  BY OnePartSteps, AttemptsWait DEF DaemonsInv
<1> QED
  BY <1>1, DaemonsHold, PTL DEF MCSpec, AttemptsApart, Waited

\* verified submit: a submit alone at a terminal that draws in time answers no
\* permission dialog by a retry, for any number of submits, attempts and
\* dialogs; the exceptions are named.
THEOREM RetriesAnswerNothing == MCSpec => []RetriesAreSafe
<1>1. DaemonsInv => RetriesAreSafe
  BY DEF DaemonsInv, SteerInv
<1> QED
  BY <1>1, DaemonsHold, PTL

\* wait_for_composer_ready: no submit types into a dialog that stood there when
\* it looked; one that opens later may take its Enter.
THEOREM SubmitsLookFirst == MCSpec => []LooksBeforeTyping
<1>1. DaemonsInv => LooksBeforeTyping
  BY DEF DaemonsInv, SteerInv
<1> QED
  BY <1>1, DaemonsHold, PTL

\* artifact_feedback_poll: while no invocation of the CLI is killed, an agent
\* that is parked in a poll shows as awaiting feedback.
THEOREM ParkedShows == MaxKills = 0 => (MCSpec => []ParkedIsAwaiting)
<1> SUFFICES ASSUME MaxKills = 0 PROVE MCSpec => []ParkedIsAwaiting
  OBVIOUS
<1>1. DaemonsInv => ParkedIsAwaiting
  BY DEF DaemonsInv, ParkInv
<1> QED
  BY <1>1, DaemonsHold, PTL
================================================================================
