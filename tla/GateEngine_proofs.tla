--------------------------- MODULE GateEngine_proofs ---------------------------
(***************************************************************************)
(* Proofs about GateEngine, for any number of cards, runs, slots, commits  *)
(* and findings: the types; that verdicts, autofixed findings and what is  *)
(* shipped are earned, and the human asked; that gate worktrees are apart  *)
(* from the authors' and come and go at nobody's cost.                     *)
(***************************************************************************)
EXTENDS GateEngine, Integers, SequenceTheorems, WellFoundedInduction, TLAPS

USE StrictnessAssumption, BoundAssumption, NoCardAssumption

\* The least number of a set, for the slot a lease takes.
LEMMA LowestIn == ASSUME NEW S, S \subseteq Slots, S # {} PROVE Lowest(S) \in S
<1> DEFINE R == OpToRel(<, Nat)
<1>1. S \subseteq Nat
  BY DEF Slots
<1>2. PICK x \in S : \A y \in S : ~(<<y, x>> \in R)
  BY <1>1, NatLessThanWellFounded, WFMin
<1>3. ASSUME NEW a \in Nat, NEW b \in Nat, a < b PROVE <<a, b>> \in R
  BY <1>3 DEF OpToRel
<1> HIDE DEF R
<1>4. ASSUME NEW y \in S PROVE x <= y
  <2>1. x \in Nat /\ y \in Nat /\ ~(y < x)
    BY <1>1, <1>2, <1>3
  <2> QED
    BY <2>1
<1> QED
  BY <1>2, <1>4 DEF Lowest

-----------------------------------------------------------------------------
(* What the steps make of a run.                                            *)

SameId(x, y) ==
    /\ y.status = x.status /\ y.card = x.card /\ y.strict = x.strict /\ y.slot = x.slot
    /\ y.pr = x.pr
SameHead(x, y)     == y.head = x.head /\ y.base = x.base /\ y.green = x.green
SameFindings(x, y) == y.findings = x.findings /\ y.fixing = x.fixing /\ y.noticed = x.noticed

\* What is not about the place and the agent.
SameRun(x, y) == SameId(x, y) /\ SameHead(x, y) /\ SameFindings(x, y)

LEMMA PlacesAre ==
    /\ Working \subseteq Places
    /\ {"checks", "review", "reviewing", "autofix", "fixing", "recheck", "mark", "verdict"} \subseteq Places
    /\ {"off", "lease", "checkout", "pass", "fail", "escalate", "error", "raise", "complain", "reset",
        "free", "done", "dead"} \subseteq Places
BY DEF Places, Working

\* y follows x in run r, and the other runs stay.
Becomes(r, y) == run' = [run EXCEPT ![r] = y]

LEMMA OthersStay ==
    ASSUME TypeOK, NEW r \in Runs, NEW y, Becomes(r, y)
    PROVE  run'[r] = y /\ \A q \in Runs : q # r => run'[q] = run[q]
BY DEF TypeOK, Becomes

\* The places most steps lead to, with or without an end of the agent.
LEMMA GoDoes ==
    ASSUME TypeOK, NEW r \in Runs, NEW p \in Places, Go(r, p)
    PROVE  \E y \in RunStates : Becomes(r, y) /\ y.at = p /\ SameRun(run[r], y)
                                /\ y.agent = run[r].agent /\ y.mail = run[r].mail
<1> DEFINE y == [run[r] EXCEPT !.at = p]
<1>1. run[r] \in RunStates /\ Becomes(r, y)
  BY DEF Go, TypeOK, Becomes
<1>2. y \in RunStates /\ y.at = p /\ SameRun(run[r], y)
      /\ y.agent = run[r].agent /\ y.mail = run[r].mail
  BY <1>1 DEF RunStates, SameRun, SameId, SameHead, SameFindings
<1> HIDE DEF y
<1> QED
  BY <1>1, <1>2

\* An agent is launched, or its end is the end of the place.
Agent(r, a, p) ==
    \/ run' = [run EXCEPT ![r].agent = a, ![r].at = p]
    \/ run' = [run EXCEPT ![r].at = p, ![r].agent = a]
    \/ run' = [run EXCEPT ![r] = Launched(@, a, p)]

LEMMA AgentDoes ==
    ASSUME TypeOK, NEW r \in Runs, NEW p \in Places, NEW a \in {"off", "reviewer", "fixer"},
           Agent(r, a, p)
    PROVE  \E y \in RunStates : Becomes(r, y) /\ y.at = p /\ SameRun(run[r], y)
                                /\ y.agent = a /\ y.mail = run[r].mail
<1> DEFINE y == [run[r] EXCEPT !.agent = a, !.at = p]
<1>1. run[r] \in RunStates /\ run \in [Runs -> RunStates]
  BY DEF TypeOK
<1>2. [run[r] EXCEPT !.at = p, !.agent = a] = y
  BY <1>1 DEF RunStates
<1>3. Becomes(r, y)
  BY <1>1, <1>2 DEF Becomes, Launched, Agent
<1>4. y \in RunStates /\ y.at = p /\ SameRun(run[r], y) /\ y.agent = a /\ y.mail = run[r].mail
  BY <1>1 DEF RunStates, SameRun, SameId, SameHead, SameFindings
<1> HIDE DEF y
<1> QED
  BY <1>3, <1>4

LEMMA LeaseDoes ==
    ASSUME TypeOK, NEW r \in Runs, Lease(r)
    PROVE  \E y \in RunStates :
              /\ Becomes(r, y) /\ y.at = "checkout" /\ y.slot = Lowest(Free)
              /\ y.status = run[r].status /\ y.card = run[r].card /\ y.strict = run[r].strict
              /\ y.pr = run[r].pr /\ SameHead(run[r], y) /\ SameFindings(run[r], y)
              /\ y.agent = run[r].agent /\ y.mail = run[r].mail
<1> DEFINE y == [run[r] EXCEPT !.slot = Lowest(Free), !.at = "checkout"]
<1>1. run[r] \in RunStates /\ Becomes(r, y)
  BY DEF Lease, TypeOK, Becomes
<1>2. Lowest(Free) \in Slots
  BY LowestIn DEF Lease, Free
<1>3. /\ y \in RunStates /\ y.at = "checkout" /\ y.slot = Lowest(Free)
      /\ y.status = run[r].status /\ y.card = run[r].card /\ y.strict = run[r].strict
      /\ y.pr = run[r].pr /\ SameHead(run[r], y) /\ SameFindings(run[r], y)
      /\ y.agent = run[r].agent /\ y.mail = run[r].mail
  BY <1>1, <1>2 DEF RunStates, Places, SameHead, SameFindings
<1> HIDE DEF y
<1> QED
  BY <1>1, <1>3

\* A finding is put at the end of the list.
LEMMA FindingAdded ==
    ASSUME NEW s \in Seq(Findings), NEW f \in Findings
    PROVE  /\ Append(s, f) \in Seq(Findings) /\ Len(Append(s, f)) = Len(s) + 1
           /\ \A i \in 1 .. Len(s) : Append(s, f)[i] = s[i]
           /\ Append(s, f)[Len(s) + 1] = f
BY AppendProperties

LEMMA FindingIs == \A k \in Kinds : [kind |-> k, open |-> TRUE, fixed |-> FALSE] \in Findings
BY DEF Findings

\* The checks find the tree green ...
TurnsGreen(r, y, green) ==
    /\ Becomes(r, y) /\ y.at = green
    /\ SameId(run[r], y) /\ SameFindings(run[r], y)
    /\ y.head = run[r].head /\ y.base = run[r].base
    /\ y.green = run[r].green \union {tree[run[r].slot]}
    /\ y.agent = run[r].agent /\ y.mail = run[r].mail
\* ... or one check failed, which is an open finding.
TurnsRed(r, y, red) ==
    /\ Becomes(r, y) /\ y.at = red
    /\ SameId(run[r], y) /\ SameHead(run[r], y)
    /\ y.fixing = run[r].fixing /\ y.noticed = run[r].noticed
    /\ y.findings = Append(run[r].findings, [kind |-> "intent", open |-> TRUE, fixed |-> FALSE])
    /\ y.agent = run[r].agent /\ y.mail = run[r].mail

LEMMA ChecksDo ==
    ASSUME TypeOK, NEW r \in Runs, run[r].at \in Working,
           NEW green \in Places, NEW red \in Places, RunChecks(r, green, red)
    PROVE  \E y \in RunStates : TurnsGreen(r, y, green) \/ TurnsRed(r, y, red)
<1>1. run[r] \in RunStates /\ run[r].slot \in Slots /\ run \in [Runs -> RunStates]
      /\ tree[run[r].slot] \in Commits
  BY DEF TypeOK
<1>2. CASE run' = [run EXCEPT ![r].green = @ \union {tree[run[r].slot]}, ![r].at = green]
  <2> DEFINE y == [run[r] EXCEPT !.green = @ \union {tree[run[r].slot]}, !.at = green]
  <2>1. Becomes(r, y)
    BY <1>1, <1>2 DEF Becomes
  <2>2. /\ y \in RunStates /\ y.at = green /\ SameId(run[r], y) /\ SameFindings(run[r], y)
        /\ y.head = run[r].head /\ y.base = run[r].base
        /\ y.green = run[r].green \union {tree[run[r].slot]}
        /\ y.agent = run[r].agent /\ y.mail = run[r].mail
    BY <1>1 DEF RunStates, SameId, SameFindings
  <2> HIDE DEF y
  <2> QED
    BY <2>1, <2>2 DEF TurnsGreen
<1>3. CASE run' = [run EXCEPT ![r].at = red,
              ![r].findings = Append(@, [kind |-> "intent", open |-> TRUE, fixed |-> FALSE])]
  <2> DEFINE f == [kind |-> "intent", open |-> TRUE, fixed |-> FALSE]
             s == Append(run[r].findings, f)
             y == [run[r] EXCEPT !.at = red, !.findings = s]
  <2>1. Becomes(r, y)
    BY <1>1, <1>3 DEF Becomes
  <2>2. f \in Findings /\ run[r].findings \in Seq(Findings)
    BY <1>1, FindingIs DEF RunStates, Kinds
  <2>3. s \in Seq(Findings)
    <3> HIDE DEF f
    <3> QED
      BY <2>2, FindingAdded
  <2>4. s = Append(run[r].findings, [kind |-> "intent", open |-> TRUE, fixed |-> FALSE])
    OBVIOUS
  <2> HIDE DEF s
  <2>5. /\ y \in RunStates /\ y.at = red /\ SameId(run[r], y) /\ SameHead(run[r], y)
        /\ y.fixing = run[r].fixing /\ y.noticed = run[r].noticed /\ y.findings = s
        /\ y.agent = run[r].agent /\ y.mail = run[r].mail
    BY <1>1, <2>3 DEF RunStates, SameId, SameHead
  <2> HIDE DEF y
  <2> QED
    BY <2>1, <2>4, <2>5 DEF TurnsRed
<1> QED
  BY <1>2, <1>3 DEF RunChecks

LEMMA AutofixDoes ==
    ASSUME TypeOK, NEW r \in Runs, Autofix(r), Mechanical(r) # {}
    PROVE  \E y \in RunStates :
              /\ Becomes(r, y) /\ y.at = "fixing" /\ y.agent = "fixer"
              /\ SameId(run[r], y) /\ y.head = run[r].head /\ y.green = run[r].green
              /\ y.base = tree[run[r].slot] /\ y.fixing = Mechanical(r)
              /\ y.findings = run[r].findings /\ y.noticed = run[r].noticed
              /\ y.mail = run[r].mail
<1> DEFINE z == [run[r] EXCEPT !.fixing = Mechanical(r), !.base = tree[run[r].slot]]
           y == [z EXCEPT !.agent = "fixer", !.at = "fixing"]
<1>1. run[r] \in RunStates /\ run[r].slot \in Slots /\ tree[run[r].slot] \in Commits
  BY DEF TypeOK, Autofix, Working
<1>2. Becomes(r, y)
  BY DEF Autofix, Launched, Becomes
<1>3. Mechanical(r) \in SUBSET Nat
  BY DEF Mechanical, OpenOf
<1>4. z \in RunStates /\ SameId(run[r], z) /\ z.head = run[r].head /\ z.green = run[r].green
      /\ z.base = tree[run[r].slot] /\ z.fixing = Mechanical(r)
      /\ z.findings = run[r].findings /\ z.noticed = run[r].noticed /\ z.mail = run[r].mail
  BY <1>1, <1>3 DEF RunStates, SameId
<1> HIDE DEF z
<1>5. y \in RunStates /\ y.at = "fixing" /\ y.agent = "fixer" /\ SameRun(z, y) /\ y.mail = z.mail
  BY <1>4, PlacesAre DEF RunStates, SameRun, SameId, SameHead, SameFindings
<1> HIDE DEF y
<1> QED
  BY <1>2, <1>4, <1>5 DEF SameRun, SameId, SameHead, SameFindings

LEMMA FixEndsDoes ==
    ASSUME TypeOK, NEW r \in Runs, FixEnds(r)
    PROVE  \E y \in RunStates :
              /\ Becomes(r, y) /\ y.agent = "off" /\ y.mail = run[r].mail
              /\ SameId(run[r], y) /\ SameFindings(run[r], y)
              /\ y.base = run[r].base /\ y.green = run[r].green
              /\ \/ y.at = "recheck" /\ y.head = tree[run[r].slot] /\ y.head # run[r].base
                 \/ y.at = "verdict" /\ y.head = run[r].head /\ tree[run[r].slot] = run[r].base
<1>1. run[r] \in RunStates /\ run[r].slot \in Slots /\ tree[run[r].slot] \in Commits
  BY DEF TypeOK, FixEnds, Working
<1>2. CASE FixerChanged(r)
  <2> DEFINE y == [run[r] EXCEPT !.agent = "off", !.at = "recheck", !.head = tree[run[r].slot]]
  <2>1. Becomes(r, y)
    BY <1>2 DEF FixEnds, Becomes, TypeOK
  <2>2. /\ y \in RunStates /\ y.agent = "off" /\ y.mail = run[r].mail /\ SameId(run[r], y)
        /\ SameFindings(run[r], y) /\ y.base = run[r].base /\ y.green = run[r].green
        /\ y.at = "recheck" /\ y.head = tree[run[r].slot]
    BY <1>1, PlacesAre DEF RunStates, SameId, SameFindings
  <2> HIDE DEF y
  <2> QED
    BY <1>2, <2>1, <2>2 DEF FixerChanged
<1>3. CASE ~FixerChanged(r)
  <2>1. run' = [run EXCEPT ![r].agent = "off", ![r].at = "verdict"]
    BY <1>3 DEF FixEnds
  <2>2. PICK y \in RunStates : Becomes(r, y) /\ y.at = "verdict" /\ SameRun(run[r], y)
                               /\ y.agent = "off" /\ y.mail = run[r].mail
    <3>1. "verdict" \in Places
      BY PlacesAre
    <3>2. Agent(r, "off", "verdict")
      BY <2>1 DEF Agent
    <3> QED
      BY <2>1, <3>1, <3>2, AgentDoes
  <2> QED
    BY <1>3, <2>2 DEF FixerChanged, SameRun, SameHead
<1> QED
  BY <1>2, <1>3

\* The findings the fixer was given, as far as they are open, are fixed.
LEMMA MarkDoes ==
    ASSUME TypeOK, NEW r \in Runs, Mark(r)
    PROVE  \E y \in RunStates :
              /\ Becomes(r, y) /\ y.at = "verdict" /\ SameId(run[r], y) /\ SameHead(run[r], y)
              /\ y.agent = run[r].agent /\ y.mail = run[r].mail
              /\ y.fixing = run[r].fixing /\ y.noticed = run[r].noticed
              /\ Len(y.findings) = Len(run[r].findings)
              /\ \A i \in 1 .. Len(y.findings) : ~run[r].findings[i].open => ~y.findings[i].open
<1> DEFINE s == run[r].findings
           Fixed(i) == [s[i] EXCEPT !.open = FALSE, !.fixed = TRUE]
           t == [i \in DOMAIN s |-> IF i \in run[r].fixing /\ s[i].open THEN Fixed(i) ELSE s[i]]
           y == [run[r] EXCEPT !.at = "verdict", !.findings = t]
<1>1. run[r] \in RunStates
  BY DEF TypeOK
<1>2. Becomes(r, y)
  BY DEF Mark, Becomes, TypeOK
<1>3. s \in Seq(Findings)
  BY <1>1 DEF RunStates
<1>4. Len(s) \in Nat /\ DOMAIN s = 1 .. Len(s) /\ \A i \in 1 .. Len(s) : s[i] \in Findings
  BY <1>3
<1>5. \A f \in Findings : [f EXCEPT !.open = FALSE, !.fixed = TRUE] \in Findings
                          /\ [f EXCEPT !.open = FALSE, !.fixed = TRUE].open = FALSE
  BY DEF Findings
<1> HIDE DEF s
<1>6. t \in [1 .. Len(s) -> Findings]
  BY <1>4, <1>5
<1>7. \A i \in 1 .. Len(s) : ~s[i].open => t[i] = s[i]
  BY <1>4
<1>8. t \in Seq(Findings) /\ Len(t) = Len(s)
  <2> DEFINE n == Len(s)
  <2>1. n \in Nat /\ t \in [1 .. n -> Findings]
    BY <1>4, <1>6
  <2> HIDE DEF n
  <2>2. t \in Seq(Findings)
    <3> HIDE DEF t
    <3>1. t \in UNION {[1 .. k -> Findings] : k \in Nat}
      BY <2>1
    <3> QED
      BY <3>1, SeqDef
  <2>3. DOMAIN t = 1 .. Len(t) /\ Len(t) \in Nat /\ DOMAIN t = 1 .. n
    BY <2>1, <2>2, LenProperties
  <2>4. Len(t) = n
    <3> HIDE DEF t
    <3> QED
      BY <2>1, <2>3
  <2> QED
    BY <2>2, <2>4 DEF n
<1> HIDE DEF t
<1>9. /\ y \in RunStates /\ y.at = "verdict" /\ SameId(run[r], y) /\ SameHead(run[r], y)
      /\ y.agent = run[r].agent /\ y.mail = run[r].mail
      /\ y.fixing = run[r].fixing /\ y.noticed = run[r].noticed /\ y.findings = t
  BY <1>1, <1>8, PlacesAre DEF RunStates, SameId, SameHead
<1> HIDE DEF y
<1>10. \A i \in 1 .. Len(y.findings) : ~run[r].findings[i].open => ~y.findings[i].open
  BY <1>7, <1>8, <1>9 DEF s
<1>11. Len(y.findings) = Len(run[r].findings)
  BY <1>8, <1>9 DEF s
<1> QED
  BY <1>2, <1>9, <1>10, <1>11

LEMMA VerdictDoes ==
    ASSUME TypeOK, NEW r \in Runs, Verdict(r)
    PROVE  \E y \in RunStates :
              /\ Becomes(r, y) /\ SameId(run[r], y) /\ SameHead(run[r], y)
              /\ y.agent = run[r].agent /\ y.mail = run[r].mail
              /\ y.findings = run[r].findings /\ y.fixing = run[r].fixing
              /\ y.noticed = Len(run[r].findings)
              /\ y.at = IF OpenOf(r) = {} THEN "pass" ELSE "escalate"
<1> DEFINE p == IF OpenOf(r) = {} THEN "pass" ELSE "escalate"
           y == [run[r] EXCEPT !.noticed = Len(run[r].findings), !.at = p]
<1>1. run[r] \in RunStates
  BY DEF TypeOK
<1>2. Becomes(r, y)
  BY DEF Verdict, Becomes, TypeOK
<1>3. Len(run[r].findings) \in Nat /\ p \in Places
  BY <1>1 DEF RunStates, Places
<1> HIDE DEF p
<1>4. /\ y \in RunStates /\ SameId(run[r], y) /\ SameHead(run[r], y)
      /\ y.agent = run[r].agent /\ y.mail = run[r].mail
      /\ y.findings = run[r].findings /\ y.fixing = run[r].fixing
      /\ y.noticed = Len(run[r].findings) /\ y.at = p
  BY <1>1, <1>3 DEF RunStates, SameId, SameHead
<1> HIDE DEF y
<1> QED
  BY <1>2, <1>4 DEF p

LEMMA ConcludeDoes ==
    ASSUME TypeOK, NEW r \in Runs, Conclude(r)
    PROVE  \E y \in RunStates :
              /\ Becomes(r, y) /\ SameHead(run[r], y) /\ SameFindings(run[r], y)
              /\ y.card = run[r].card /\ y.strict = run[r].strict /\ y.slot = run[r].slot
              /\ y.pr = run[r].pr /\ y.agent = run[r].agent /\ y.mail = run[r].mail
              /\ \/ run[r].at = "pass" /\ y.status = "passed" /\ y.at = "done"
                 \/ run[r].at = "error" /\ y.status = "failed" /\ y.at = "complain"
                 \/ run[r].at = "escalate" /\ y.status = "escalated" /\ y.at = "raise"
                 \/ run[r].at = "fail" /\ y.status = "failed" /\ y.at = "raise"
<1> DEFINE st == CASE run[r].at = "pass" -> "passed"
                   [] run[r].at = "escalate" -> "escalated"
                   [] OTHER -> "failed"
           p == CASE run[r].at = "pass" -> "done"
                  [] run[r].at = "error" -> "complain"
                  [] OTHER -> "raise"
           y == [run[r] EXCEPT !.status = st, !.at = p]
<1>1. run[r] \in RunStates
  BY DEF TypeOK
<1>2. Becomes(r, y)
  BY DEF Conclude, Becomes, TypeOK
<1>3. /\ st \in {"passed", "escalated", "failed"} /\ p \in Places
      /\ \/ run[r].at = "pass" /\ st = "passed" /\ p = "done"
         \/ run[r].at = "error" /\ st = "failed" /\ p = "complain"
         \/ run[r].at = "escalate" /\ st = "escalated" /\ p = "raise"
         \/ run[r].at = "fail" /\ st = "failed" /\ p = "raise"
  BY DEF Conclude, Places
<1> HIDE DEF st, p
<1>4. /\ y \in RunStates
      /\ SameHead(run[r], y) /\ SameFindings(run[r], y)
      /\ y.card = run[r].card /\ y.strict = run[r].strict /\ y.slot = run[r].slot
      /\ y.pr = run[r].pr /\ y.agent = run[r].agent /\ y.mail = run[r].mail
      /\ y.status = st /\ y.at = p
  <2>1. st \in {"passed", "escalated", "failed"} /\ p \in Places
    BY <1>3
  <2> QED
    BY <1>1, <2>1 DEF RunStates, SameHead, SameFindings
<1> HIDE DEF y
<1> QED
  BY <1>2, <1>3, <1>4

\* The agent's request is under way, or is over without a finding.
LEMMA MailDoes ==
    ASSUME TypeOK, NEW r \in Runs, NEW k \in Kinds \union {"none"},
           run' = [run EXCEPT ![r].mail = k]
    PROVE  \E y \in RunStates : Becomes(r, y) /\ SameRun(run[r], y) /\ y.at = run[r].at
                                /\ y.agent = run[r].agent
<1> DEFINE y == [run[r] EXCEPT !.mail = k]
<1>1. run[r] \in RunStates /\ Becomes(r, y)
  BY DEF TypeOK, Becomes
<1>2. y \in RunStates /\ SameRun(run[r], y) /\ y.at = run[r].at /\ y.agent = run[r].agent
  BY <1>1 DEF RunStates, SameRun, SameId, SameHead, SameFindings
<1> HIDE DEF y
<1> QED
  BY <1>1, <1>2

LEMMA FindingAddDoes ==
    ASSUME TypeOK, NEW r \in Runs, FindingAdd(r)
    PROVE  \E y \in RunStates :
              /\ Becomes(r, y) /\ SameId(run[r], y) /\ SameHead(run[r], y)
              /\ y.at = run[r].at /\ y.agent = run[r].agent
              /\ y.fixing = run[r].fixing /\ y.noticed = run[r].noticed
              /\ \/ y.findings = run[r].findings
                 \/ \E f \in Findings : f.open = TRUE /\ f.fixed = FALSE
                                        /\ y.findings = Append(run[r].findings, f)
<1>1. run[r] \in RunStates /\ run \in [Runs -> RunStates] /\ run[r].mail \in Kinds
  BY DEF TypeOK, FindingAdd, RunStates
<1>2. CASE run' = [run EXCEPT ![r].mail = "none"]
  BY <1>2, MailDoes DEF SameRun, SameFindings
<1>3. CASE run' = [run EXCEPT ![r].mail = "none",
              ![r].findings = Append(@, [kind |-> run[r].mail, open |-> TRUE, fixed |-> FALSE])]
  <2> DEFINE f == [kind |-> run[r].mail, open |-> TRUE, fixed |-> FALSE]
             s == Append(run[r].findings, f)
             y == [run[r] EXCEPT !.mail = "none", !.findings = s]
  <2>1. Becomes(r, y)
    BY <1>1, <1>3 DEF Becomes
  <2>2. f \in Findings /\ f.open = TRUE /\ f.fixed = FALSE /\ run[r].findings \in Seq(Findings)
    BY <1>1, FindingIs DEF RunStates
  <2>3. s \in Seq(Findings) /\ s = Append(run[r].findings, f)
    <3> HIDE DEF f
    <3> QED
      BY <2>2, FindingAdded
  <2> HIDE DEF s, f
  <2>4. /\ y \in RunStates /\ SameId(run[r], y) /\ SameHead(run[r], y)
        /\ y.fixing = run[r].fixing /\ y.noticed = run[r].noticed /\ y.findings = s
        /\ y.agent = run[r].agent /\ y.at = run[r].at
    BY <1>1, <2>3 DEF RunStates, SameId, SameHead
  <2> HIDE DEF y
  <2> QED
    BY <2>1, <2>2, <2>3, <2>4
<1> QED
  BY <1>2, <1>3 DEF FindingAdd

LEMMA ResolveDoes ==
    ASSUME TypeOK, NEW r \in Runs, NEW i \in 1 .. Len(run[r].findings), ResolveFinding(r, i)
    PROVE  \E y \in RunStates :
              /\ Becomes(r, y) /\ SameId(run[r], y) /\ SameHead(run[r], y)
              /\ y.at = run[r].at /\ y.agent = run[r].agent
              /\ y.fixing = run[r].fixing /\ y.noticed = run[r].noticed
              /\ Len(y.findings) = Len(run[r].findings)
              /\ ~y.findings[i].open
              /\ \A j \in 1 .. Len(y.findings) :
                    /\ j # i => y.findings[j] = run[r].findings[j]
                    /\ y.findings[j].fixed = run[r].findings[j].fixed
<1> DEFINE s == run[r].findings
           f == [s[i] EXCEPT !.open = FALSE]
           t == [s EXCEPT ![i] = f]
           y == [run[r] EXCEPT !.findings = t]
<1>1. run[r] \in RunStates /\ run \in [Runs -> RunStates]
  BY DEF TypeOK
<1>2. s \in Seq(Findings) /\ i \in 1 .. Len(s)
  BY <1>1 DEF RunStates
<1>3. s[i] \in Findings
  BY <1>2, ElementOfSeq
<1>4. f \in Findings /\ f.open = FALSE /\ f.fixed = s[i].fixed
  <2> HIDE DEF s
  <2> QED
    BY <1>3 DEF Findings
<1>5. Becomes(r, y)
  BY <1>1 DEF ResolveFinding, Becomes
<1>6. t \in Seq(Findings) /\ Len(t) = Len(s)
      /\ \A j \in 1 .. Len(s) : t[j] = IF j = i THEN f ELSE s[j]
  <2> HIDE DEF s, f
  <2> QED
    BY <1>2, <1>4, ExceptSeq
<1> HIDE DEF t
<1>7. /\ y \in RunStates /\ SameId(run[r], y) /\ SameHead(run[r], y)
      /\ y.at = run[r].at /\ y.agent = run[r].agent
      /\ y.fixing = run[r].fixing /\ y.noticed = run[r].noticed /\ y.findings = t
  BY <1>1, <1>6 DEF RunStates, SameId, SameHead
<1> HIDE DEF y, f
<1>8. /\ Len(y.findings) = Len(run[r].findings) /\ ~y.findings[i].open
      /\ \A j \in 1 .. Len(y.findings) :
            /\ j # i => y.findings[j] = run[r].findings[j]
            /\ y.findings[j].fixed = run[r].findings[j].fixed
  <2>1. y.findings = t
    BY <1>7
  <2>2. t[i] = f /\ ~t[i].open
    BY <1>2, <1>4, <1>6
  <2> QED
    BY <1>4, <1>6, <2>1, <2>2
<1> QED
  BY <1>5, <1>7, <1>8

\* A pull request was opened for a run.
LEMMA PrDoes ==
    ASSUME TypeOK, NEW r \in Runs, run' = [run EXCEPT ![r].pr = TRUE]
    PROVE  \E y \in RunStates :
              /\ Becomes(r, y) /\ SameHead(run[r], y) /\ SameFindings(run[r], y)
              /\ y.status = run[r].status /\ y.card = run[r].card /\ y.strict = run[r].strict
              /\ y.slot = run[r].slot /\ y.at = run[r].at /\ y.agent = run[r].agent
              /\ y.mail = run[r].mail
<1> DEFINE y == [run[r] EXCEPT !.pr = TRUE]
<1>1. run[r] \in RunStates /\ Becomes(r, y)
  BY DEF TypeOK, Becomes
<1>2. /\ y \in RunStates /\ SameHead(run[r], y) /\ SameFindings(run[r], y)
      /\ y.status = run[r].status /\ y.card = run[r].card /\ y.strict = run[r].strict
      /\ y.slot = run[r].slot /\ y.at = run[r].at /\ y.agent = run[r].agent
      /\ y.mail = run[r].mail
  BY <1>1 DEF RunStates, SameHead, SameFindings
<1> HIDE DEF y
<1> QED
  BY <1>1, <1>2

\* A new run, of no strictness or at its lease.
LEMMA GateRunDoes ==
    ASSUME TypeOK, NEW c \in Cards, GateRun(c)
    PROVE  \E r \in Runs, y \in RunStates :
              /\ run[r].status = "none" /\ Becomes(r, y)
              /\ y.status = "running" /\ y.card = c /\ y.slot = NoSlot /\ y.pr = FALSE
              /\ \/ y.strict = "none" /\ y.at = "pass"
                 \/ y.strict # "none" /\ y.at = "lease"
              /\ y.agent = "off" /\ y.mail = "none" /\ y.findings = << >> /\ y.fixing = {}
              /\ y.noticed = 0
<1>1. PICK r \in Runs, strict \in Strictness, head \in AuthoringHead(c) :
         /\ run[r].status = "none"
         /\ run' = [run EXCEPT ![r] =
               [NoRow EXCEPT !.status = "running", !.card = c, !.strict = strict, !.head = head,
                             !.at = IF strict = "none" THEN "pass" ELSE "lease"]]
  BY DEF GateRun
<1> DEFINE p == IF strict = "none" THEN "pass" ELSE "lease"
           y == [NoRow EXCEPT !.status = "running", !.card = c, !.strict = strict, !.head = head,
                              !.at = p]
<1>2. Becomes(r, y)
  BY <1>1 DEF Becomes
<1>3. head \in Commits /\ strict \in {"none", "checks_only", "full"} /\ p \in Places
  BY PlacesAre DEF AuthoringHead, TypeOK
<1>4. 0 \in Commits /\ << >> \in Seq(Findings)
  BY DEF Commits
<1>5. /\ y \in RunStates /\ y.status = "running" /\ y.card = c /\ y.slot = NoSlot /\ y.pr = FALSE
      /\ y.strict = strict /\ y.at = p
      /\ y.agent = "off" /\ y.mail = "none" /\ y.findings = << >> /\ y.fixing = {}
      /\ y.noticed = 0
  <2> HIDE DEF p
  <2> QED
    BY <1>3, <1>4 DEF NoRow, RunStates, NoSlot
<1> HIDE DEF y
<1> QED
  BY <1>1, <1>2, <1>5

-----------------------------------------------------------------------------
(* The invariant.                                                           *)

\* Where a run has a worktree, but for a passed one, and what comes before the
\* findings are marked.
Held   == Working \union {"checkout", "pass", "fail", "escalate", "error", "raise", "complain",
                          "reset", "free"}
Before == {"lease", "checkout", "checks", "review", "reviewing", "autofix", "fixing", "recheck",
           "mark"}

Typed(x) ==
    /\ x \in RunStates
    /\ x.fixing \subseteq 1 .. Len(x.findings) /\ x.noticed <= Len(x.findings)

\* Which statuses, worktrees and agents go with a place.
Placed(x) ==
    /\ (x.status = "none" \/ x.at = "off") => x = NoRow
    /\ x.at \in Working \union {"lease", "checkout", "pass", "fail", "escalate", "error"}
          => x.status = "running"
    /\ x.status = "passed" => x.at = "done"
    /\ x.at \in {"raise", "complain", "reset", "free"} => x.status \in {"failed", "escalated"}
    /\ x.at = "lease" => x.slot = NoSlot
    /\ x.at \in Working \union {"checkout", "fail", "escalate", "raise", "reset", "free"}
          => x.slot # NoSlot
    /\ x.strict = "none" => x.slot = NoSlot /\ x.at \in {"pass", "done", "dead"}
    /\ x.strict # "none" /\ (x.at = "pass" \/ x.status = "passed") => x.slot # NoSlot
    /\ x.agent = "reviewer" => x.at = "reviewing"
    /\ x.agent = "fixer" => x.at = "fixing"
    /\ x.pr = TRUE => x.status = "passed" /\ x.slot # NoSlot

\* What a run may have noticed, fixed and closed by then.
Found(x) ==
    /\ x.at \in Before \union {"verdict"} => x.noticed = 0
    /\ x.at \in Before => \A i \in 1 .. Len(x.findings) : ~x.findings[i].fixed
    /\ x.at = "pass" \/ x.status = "passed" => \A i \in 1 .. x.noticed : ~x.findings[i].open

Good(x) == Typed(x) /\ Placed(x) /\ Found(x)

GoodInv == TypeOK /\ \A r \in Runs : Good(run[r])

\* What no step takes back: a closed finding stays closed, and a passed run is as
\* it was but for its findings, its agent's request and its pull request.
Follows(x, y) ==
    /\ Len(x.findings) <= Len(y.findings)
    /\ \A i \in 1 .. Len(x.findings) : ~x.findings[i].open => ~y.findings[i].open
    /\ x.status = "passed" =>
          /\ y.status = "passed" /\ y.at = x.at /\ y.slot = x.slot /\ y.card = x.card
          /\ y.strict = x.strict /\ SameHead(x, y)

LEMMA FollowsItself ==
    ASSUME NEW x, Typed(x) PROVE Follows(x, x)
<1>1. x.findings \in Seq(Findings)
  BY DEF Typed, RunStates
<1> QED
  BY <1>1, LenProperties DEF Follows, SameHead

LEMMA ListOf ==
    ASSUME NEW x \in RunStates
    PROVE  /\ x.findings \in Seq(Findings) /\ Len(x.findings) \in Nat /\ x.noticed \in Nat
           /\ DOMAIN x.findings = 1 .. Len(x.findings)
BY LenProperties DEF RunStates

\* With the same findings noticed, only the place matters.
LEMMA SameFindingsKeep ==
    ASSUME NEW x, NEW y \in RunStates, Typed(x), SameFindings(x, y)
    PROVE  /\ Typed(y)
           /\ Len(x.findings) <= Len(y.findings)
           /\ \A i \in 1 .. Len(x.findings) : ~x.findings[i].open => ~y.findings[i].open
<1>1. x \in RunStates
  BY DEF Typed
<1> QED
  BY <1>1, ListOf DEF Typed, SameFindings

\* The places a running run comes through, with its findings unchanged.
LEMMA MovesOn ==
    ASSUME NEW x, NEW y \in RunStates, Good(x), SameFindings(x, y),
           y.status = x.status, y.card = x.card, y.strict = x.strict, y.pr = x.pr,
           x.at \in Working \union {"lease", "checkout"},
           \/ y.slot = x.slot /\ y.at = "checks" /\ x.at = "checkout"
           \/ y.slot # NoSlot /\ y.at = "checkout" /\ x.at = "lease"
           \/ y.slot = x.slot /\ x.at \in Working /\ y.at \in Working \ {"checks"}
                 /\ (x.at = "verdict" => y.at = "verdict")
           \/ y.slot = x.slot /\ x.at \in Working /\ y.at = "fail"
           \/ y.slot = x.slot /\ y.at = "error"
           \/ y.slot = x.slot /\ x.at = "checks" /\ y.at = "pass",
           y.agent = "reviewer" => y.at = "reviewing",
           y.agent = "fixer" => y.at = "fixing"
    PROVE  Good(y) /\ Follows(x, y)
<1>1. Typed(y) /\ Len(x.findings) <= Len(y.findings)
      /\ \A i \in 1 .. Len(x.findings) : ~x.findings[i].open => ~y.findings[i].open
  BY SameFindingsKeep DEF Good
<1>2. x.status = "running" /\ y.status = "running"
  BY DEF Good, Placed
<1>3. Placed(y)
  BY <1>2 DEF Good, Placed, Working
<1>4. Found(y)
  <2>1. y.at \in Before \union {"verdict"} => y.noticed = 0
    BY DEF Good, Found, SameFindings, Working, Before
  <2>2. y.at \in Before => \A i \in 1 .. Len(y.findings) : ~y.findings[i].fixed
    BY DEF Good, Found, SameFindings, Working, Before
  <2>3. y.at = "pass" => \A i \in 1 .. y.noticed : ~y.findings[i].open
    <3>1. y.at = "pass" => y.noticed = 0
      BY DEF Good, Found, SameFindings, Working, Before
    <3> QED
      BY <3>1
  <2> QED
    BY <1>2, <2>1, <2>2, <2>3 DEF Found
<1> QED
  BY <1>1, <1>2, <1>3, <1>4 DEF Good, Follows

\* A run with a worktree, or a passed one; one whose item was raised.
Holds(x)  == x.slot # NoSlot /\ (x.at \in Held \/ x.status = "passed")
Raised(x) == x.at \in {"reset", "free", "done"} /\ x.status \in {"failed", "escalated"}

\* No new worktree, and no new item.
Kept(x, y) ==
    /\ Raised(y) => Raised(x) /\ y.noticed = x.noticed
    /\ Holds(y) => /\ y.slot = x.slot /\ y.card = x.card
                   /\ x.at \in Held \/ (x.status = "passed" /\ y.at \notin Held)

\* What the run's head, the commit t its worktree is at, and its findings show
\* of its checks and its agents at each place.
Earns(r, x, t) ==
    /\ x.at = "checks" => t = x.head
    /\ x.at \in {"review", "reviewing", "autofix", "fixing"} => x.head \in x.green
    /\ x.at = "review" => t = x.head
    /\ x.at \in {"reviewing", "autofix"} => t \in {x.head} \union meddled
    /\ x.at = "fixing" => x.base \in {x.head} \union meddled
    /\ x.at = "recheck" => t = x.head /\ x.head # x.base
    /\ x.at = "mark" => t = x.head /\ x.head # x.base /\ x.head \in x.green
    /\ x.at = "verdict" =>
          \/ r \in early \/ \E i \in 1 .. Len(x.findings) : x.findings[i].open
          \/ x.head \in x.green /\ t \in x.green \union meddled
    /\ (x.at = "pass" \/ x.status = "passed") /\ r \notin early =>
          x.head \in x.green /\ (r \notin returned => t \in x.green \union meddled)

FixIsEarned(x) ==
    \A i \in 1 .. Len(x.findings) : x.findings[i].fixed => x.head # x.base /\ x.head \in x.green

Deserves(r, x, t) ==
    /\ x.strict # "none" /\ x.slot # NoSlot => Earns(r, x, t)
    /\ FixIsEarned(x)

\* What a step of the run itself does that leaves the worktrees alone.
Moved(r, y) ==
    /\ Becomes(r, y) /\ Good(y) /\ Follows(run[r], y) /\ Kept(run[r], y) /\ y.slot = run[r].slot
    /\ Deserves(r, run[r], tree[run[r].slot]) => Deserves(r, y, tree[run[r].slot])

\* A finding is filed: it is open, and not fixed.
Filed(x, y) ==
    /\ Len(y.findings) = Len(x.findings) + 1 /\ Len(x.findings) \in Nat
    /\ \A i \in 1 .. Len(x.findings) : y.findings[i] = x.findings[i]
    /\ \A i \in 1 .. Len(x.findings) : ~x.findings[i].open => ~y.findings[i].open
    /\ \A i \in 1 .. Len(y.findings) :
          y.findings[i].fixed => i \in 1 .. Len(x.findings) /\ x.findings[i].fixed
    /\ \E i \in 1 .. Len(y.findings) : y.findings[i].open

LEMMA FindingFiled ==
    ASSUME NEW x \in RunStates, NEW y, NEW f \in Findings, f.open = TRUE, f.fixed = FALSE,
           y.findings = Append(x.findings, f)
    PROVE  Filed(x, y)
<1> DEFINE n == Len(x.findings)
<1>1. /\ x.findings \in Seq(Findings) /\ n \in Nat
      /\ Len(y.findings) = n + 1 /\ y.findings[n + 1] = f
      /\ \A i \in 1 .. n : y.findings[i] = x.findings[i]
  BY ListOf, FindingAdded
<1>2. ASSUME NEW i \in 1 .. n PROVE ~x.findings[i].open => ~y.findings[i].open
  <2>1. y.findings[i] = x.findings[i]
    BY <1>1
  <2> QED
    BY <2>1
<1>3. ASSUME NEW i \in 1 .. Len(y.findings), y.findings[i].fixed
      PROVE  i \in 1 .. n /\ x.findings[i].fixed
  <2>1. i \in 1 .. n \/ i = n + 1
    BY <1>1
  <2>2. i # n + 1
    BY <1>1, <1>3
  <2>3. y.findings[i] = x.findings[i]
    BY <1>1, <2>1, <2>2
  <2> QED
    BY <1>3, <2>1, <2>2, <2>3
<1>4. n + 1 \in 1 .. Len(y.findings) /\ y.findings[n + 1].open
  BY <1>1
<1> QED
  BY <1>1, <1>2, <1>3, <1>4 DEF Filed

LEMMA FiledTyped ==
    ASSUME NEW x, NEW y \in RunStates, Typed(x), Filed(x, y),
           y.fixing = x.fixing, y.noticed = x.noticed
    PROVE  Typed(y)
<1>1. x \in RunStates
  BY DEF Typed
<1>2. Len(x.findings) \in Nat /\ x.noticed \in Nat
  BY <1>1, ListOf
<1>3. Len(y.findings) = Len(x.findings) + 1
  BY DEF Filed
<1> QED
  BY <1>2, <1>3 DEF Typed

LEMMA ChecksMove ==
    ASSUME GoodInv, NEW r \in Runs, Checks(r) PROVE \E y \in RunStates : Moved(r, y)
<1> DEFINE x == run[r]
           p == IF x.strict = "checks_only" THEN "pass" ELSE "review"
<1>1. TypeOK /\ Good(x) /\ x \in RunStates /\ x.at = "checks" /\ x.at \in Working
  BY DEF GoodInv, TypeOK, Checks, Working
<1>2. PICK y \in RunStates : TurnsGreen(r, y, p) \/ TurnsRed(r, y, "fail")
  <2>1. p \in Places /\ "fail" \in Places
    BY PlacesAre
  <2>2. RunChecks(r, p, "fail")
    BY DEF Checks
  <2> HIDE DEF p
  <2> QED
    BY <1>1, <2>1, <2>2, ChecksDo
<1>3. x.slot # NoSlot /\ x.strict # "none" /\ x.status = "running" /\ x.agent = "off"
      /\ x.noticed = 0 /\ \A i \in 1 .. Len(x.findings) : ~x.findings[i].fixed
  BY <1>1 DEF Good, Placed, Found, Working, Before, RunStates
<1>4. CASE TurnsGreen(r, y, p)
  <2>1. /\ SameFindings(x, y) /\ y.status = x.status /\ y.card = x.card /\ y.strict = x.strict
        /\ y.pr = x.pr /\ y.slot = x.slot /\ y.at = p /\ y.agent = "off" /\ y.head = x.head
        /\ y.green = x.green \union {tree[x.slot]} /\ Becomes(r, y)
    BY <1>3, <1>4 DEF TurnsGreen, SameId
  <2>2. Good(y) /\ Follows(x, y)
    BY <1>1, <2>1, MovesOn DEF Working
  <2>3. Kept(x, y)
    BY <1>1, <1>3, <2>1 DEF Kept, Raised, Holds, Held
  <2>4. Deserves(r, x, tree[x.slot]) => Deserves(r, y, tree[x.slot])
    BY <1>1, <1>3, <2>1 DEF Deserves, Earns, FixIsEarned, SameFindings
  <2> QED
    BY <2>1, <2>2, <2>3, <2>4 DEF Moved
<1>5. CASE TurnsRed(r, y, "fail")
  <2> DEFINE f == [kind |-> "intent", open |-> TRUE, fixed |-> FALSE]
  <2>1. /\ y.status = x.status /\ y.card = x.card /\ y.strict = x.strict
        /\ y.pr = x.pr /\ y.slot = x.slot /\ y.at = "fail" /\ y.agent = "off" /\ SameHead(x, y)
        /\ y.fixing = x.fixing /\ y.noticed = x.noticed
        /\ y.findings = Append(x.findings, f) /\ Becomes(r, y)
    BY <1>3, <1>5 DEF TurnsRed, SameId
  <2>2. f \in Findings /\ f.open = TRUE /\ f.fixed = FALSE
    BY FindingIs DEF Kinds
  <2> HIDE DEF f
  <2>3. Filed(x, y)
    BY <1>1, <2>1, <2>2, FindingFiled
  <2>4. Typed(y)
    BY <1>1, <2>1, <2>3, FiledTyped DEF Good
  <2>5. Placed(y)
    BY <1>1, <1>3, <2>1 DEF Good, Placed, Working
  <2>6. Found(y)
    BY <1>1, <1>3, <2>1 DEF Found, Before
  <2>7. Follows(x, y)
    BY <1>3, <2>3 DEF Follows, Filed
  <2>8. Kept(x, y)
    BY <1>1, <1>3, <2>1 DEF Kept, Raised, Holds, Held, Working
  <2>9. \A i \in 1 .. Len(y.findings) : ~y.findings[i].fixed
    BY <1>3, <2>3 DEF Filed
  <2>10. Deserves(r, y, tree[x.slot])
    BY <1>3, <2>1, <2>9 DEF Deserves, Earns, FixIsEarned
  <2> QED
    BY <2>1, <2>4, <2>5, <2>6, <2>7, <2>8, <2>10 DEF Moved, Good
<1> QED
  BY <1>2, <1>4, <1>5

\* One proof for the steps that change nothing of a run but its place and agent.
LEMMA AgentMoves ==
    ASSUME GoodInv, NEW r \in Runs, run[r].at \in Working \union {"lease", "checkout"},
           NEW y \in RunStates, Becomes(r, y), SameRun(run[r], y),
           y.agent = "reviewer" => y.at = "reviewing",
           y.agent = "fixer" => y.at = "fixing",
           \/ run[r].at = "review" /\ y.at \in {"reviewing", "fail"}
           \/ run[r].at = "reviewing" /\ y.at = "autofix"
           \/ run[r].at = "autofix" /\ y.at = "verdict"
           \/ run[r].at = "fixing" /\ y.at = "verdict" /\ tree[run[r].slot] = run[r].base
           \/ y.at = "error"
    PROVE  Moved(r, y)
<1> DEFINE x == run[r]
<1>1. Good(x) /\ x.slot = y.slot /\ SameFindings(x, y) /\ SameHead(x, y) /\ y.status = x.status
      /\ y.card = x.card /\ y.strict = x.strict /\ y.pr = x.pr
  BY DEF GoodInv, SameRun, SameId
<1>2. Good(y) /\ Follows(x, y)
  BY <1>1, MovesOn DEF Working
<1>3. x.status = "running"
  BY <1>1 DEF Good, Placed
<1>4. Kept(x, y)
  <2>1. x.slot # NoSlot => x.at \in Held
    BY <1>1 DEF Good, Placed, Held, Working
  <2> QED
    BY <1>1, <1>3, <2>1 DEF Kept, Raised, Holds
<1>5. Deserves(r, x, tree[x.slot]) => Deserves(r, y, tree[x.slot])
  <2>1. FixIsEarned(x) => FixIsEarned(y)
    BY <1>1 DEF FixIsEarned, SameFindings, SameHead
  <2>2. Earns(r, x, tree[x.slot]) => Earns(r, y, tree[x.slot])
    <3> SUFFICES ASSUME Earns(r, x, tree[x.slot]) PROVE Earns(r, y, tree[x.slot])
      OBVIOUS
    <3> QED
      BY <1>1, <1>3 DEF Earns, SameHead, Working
  <2> QED
    BY <1>1, <2>1, <2>2 DEF Deserves
<1> QED
  BY <1>1, <1>2, <1>4, <1>5 DEF Moved

LEMMA ReviewMoves ==
    ASSUME GoodInv, NEW r \in Runs, Review(r) PROVE \E y \in RunStates : Moved(r, y)
<1>1. TypeOK /\ run[r].at = "review" /\ run[r].at \in Working
      /\ "reviewing" \in Places /\ "fail" \in Places
  BY PlacesAre DEF GoodInv, Review, Working
<1>2. CASE run' = [run EXCEPT ![r] = Launched(@, "reviewer", "reviewing")]
  <2>1. Agent(r, "reviewer", "reviewing")
    BY <1>2 DEF Agent
  <2>2. PICK y \in RunStates : Becomes(r, y) /\ y.at = "reviewing" /\ SameRun(run[r], y)
                               /\ y.agent = "reviewer" /\ y.mail = run[r].mail
    BY <1>1, <2>1, AgentDoes
  <2> QED
    BY <1>1, <2>2, AgentMoves
<1>3. CASE Go(r, "fail")
  <2>1. PICK y \in RunStates : Becomes(r, y) /\ y.at = "fail" /\ SameRun(run[r], y)
                               /\ y.agent = run[r].agent /\ y.mail = run[r].mail
    BY <1>1, <1>3, GoDoes
  <2>2. y.agent \notin {"reviewer", "fixer"}
    BY <1>1, <2>1 DEF GoodInv, Good, Placed
  <2> QED
    BY <1>1, <2>1, <2>2, AgentMoves
<1> QED
  BY <1>2, <1>3 DEF Review

LEMMA ReviewEndsMoves ==
    ASSUME GoodInv, NEW r \in Runs, ReviewEnds(r) PROVE \E y \in RunStates : Moved(r, y)
<1>1. TypeOK /\ run[r].at = "reviewing" /\ run[r].at \in Working /\ "autofix" \in Places
  BY PlacesAre DEF GoodInv, ReviewEnds, Working
<1>2. Agent(r, "off", "autofix")
  BY DEF Agent, ReviewEnds
<1>3. PICK y \in RunStates : Becomes(r, y) /\ y.at = "autofix" /\ SameRun(run[r], y)
                             /\ y.agent = "off" /\ y.mail = run[r].mail
  BY <1>1, <1>2, AgentDoes
<1> QED
  BY <1>1, <1>3, AgentMoves

LEMMA FailsMoves ==
    ASSUME GoodInv, NEW r \in Runs, Fails(r) PROVE \E y \in RunStates : Moved(r, y)
<1>1. TypeOK /\ run[r].at \in Working \union {"lease", "checkout"} /\ "error" \in Places
  BY PlacesAre DEF GoodInv, Fails, Working
<1>2. Agent(r, "off", "error")
  BY DEF Agent, Fails
<1>3. PICK y \in RunStates : Becomes(r, y) /\ y.at = "error" /\ SameRun(run[r], y)
                             /\ y.agent = "off" /\ y.mail = run[r].mail
  BY <1>1, <1>2, AgentDoes
<1> QED
  BY <1>1, <1>3, AgentMoves

LEMMA AutofixMoves ==
    ASSUME GoodInv, NEW r \in Runs, Autofix(r) PROVE \E y \in RunStates : Moved(r, y)
<1> DEFINE x == run[r]
<1>1. TypeOK /\ Good(x) /\ x.at = "autofix" /\ x.at \in Working /\ "verdict" \in Places
      /\ x \in RunStates
  BY PlacesAre DEF GoodInv, Autofix, Working, TypeOK
<1>2. CASE Mechanical(r) = {}
  <2>1. PICK y \in RunStates : Becomes(r, y) /\ y.at = "verdict" /\ SameRun(run[r], y)
                               /\ y.agent = run[r].agent /\ y.mail = run[r].mail
    BY <1>1, <1>2, GoDoes DEF Autofix
  <2>2. y.agent \notin {"reviewer", "fixer"}
    BY <1>1, <2>1 DEF Good, Placed
  <2> QED
    BY <1>1, <2>1, <2>2, AgentMoves
<1>3. CASE Mechanical(r) # {}
  <2>1. PICK y \in RunStates :
              /\ Becomes(r, y) /\ y.at = "fixing" /\ y.agent = "fixer"
              /\ SameId(run[r], y) /\ y.head = run[r].head /\ y.green = run[r].green
              /\ y.base = tree[run[r].slot] /\ y.fixing = Mechanical(r)
              /\ y.findings = run[r].findings /\ y.noticed = run[r].noticed
              /\ y.mail = run[r].mail
    BY <1>1, <1>3, AutofixDoes
  <2>2. /\ x.slot # NoSlot /\ x.strict # "none" /\ x.status = "running" /\ x.noticed = 0
        /\ \A i \in 1 .. Len(x.findings) : ~x.findings[i].fixed
    BY <1>1 DEF Good, Placed, Found, Working, Before
  <2>3. Typed(y)
    BY <1>1, <2>1 DEF Good, Typed, Mechanical, OpenOf
  <2>4. Placed(y) /\ Found(y)
    <3>1. /\ y.at = "fixing" /\ y.agent = "fixer" /\ y.status = "running" /\ y.strict = x.strict
          /\ y.slot = x.slot /\ y.pr = x.pr /\ y.findings = x.findings /\ y.noticed = 0
      BY <2>1, <2>2 DEF SameId
    <3>2. Placed(y)
      BY <1>1, <2>2, <3>1 DEF Good, Placed, Working
    <3>3. Found(y)
      BY <2>2, <3>1 DEF Found
    <3> QED
      BY <3>2, <3>3
  <2>5. Follows(x, y)
    BY <1>1, <2>1, <2>2, ListOf DEF Follows
  <2>6. Kept(x, y) /\ y.slot = x.slot
    BY <1>1, <2>1, <2>2 DEF Kept, Raised, Holds, Held, SameId
  <2>7. FixIsEarned(y)
    BY <2>1, <2>2 DEF FixIsEarned
  <2>8. Deserves(r, x, tree[x.slot]) => Deserves(r, y, tree[x.slot])
    BY <1>1, <2>1, <2>2, <2>7 DEF Deserves, Earns, SameId
  <2> QED
    BY <2>1, <2>3, <2>4, <2>5, <2>6, <2>8 DEF Moved, Good
<1> QED
  BY <1>2, <1>3

LEMMA FixEndsMoves ==
    ASSUME GoodInv, NEW r \in Runs, FixEnds(r) PROVE \E y \in RunStates : Moved(r, y)
<1> DEFINE x == run[r]
<1>1. TypeOK /\ Good(x) /\ x.at = "fixing" /\ x.at \in Working /\ x \in RunStates
  BY DEF GoodInv, FixEnds, Working, TypeOK
<1>2. PICK y \in RunStates :
              /\ Becomes(r, y) /\ y.agent = "off" /\ y.mail = run[r].mail
              /\ SameId(run[r], y) /\ SameFindings(run[r], y)
              /\ y.base = run[r].base /\ y.green = run[r].green
              /\ \/ y.at = "recheck" /\ y.head = tree[run[r].slot] /\ y.head # run[r].base
                 \/ y.at = "verdict" /\ y.head = run[r].head /\ tree[run[r].slot] = run[r].base
  BY <1>1, FixEndsDoes
<1>3. x.slot # NoSlot /\ x.strict # "none" /\ x.status = "running" /\ y.slot = x.slot
      /\ y.card = x.card /\ y.strict = x.strict /\ y.status = x.status /\ y.pr = x.pr
      /\ \A i \in 1 .. Len(x.findings) : ~x.findings[i].fixed
  BY <1>1, <1>2 DEF Good, Placed, Found, Working, Before, SameId
<1>4. Good(y) /\ Follows(x, y)
  BY <1>1, <1>2, <1>3, MovesOn DEF Working
<1>5. Kept(x, y)
  BY <1>1, <1>2, <1>3 DEF Kept, Raised, Holds, Held
<1>6. FixIsEarned(y)
  BY <1>2, <1>3 DEF FixIsEarned, SameFindings
<1>7. Deserves(r, x, tree[x.slot]) => Deserves(r, y, tree[x.slot])
  BY <1>1, <1>2, <1>3, <1>6 DEF Deserves, Earns
<1> QED
  BY <1>2, <1>3, <1>4, <1>5, <1>7 DEF Moved

LEMMA RecheckMoves ==
    ASSUME GoodInv, NEW r \in Runs, Recheck(r) PROVE \E y \in RunStates : Moved(r, y)
<1> DEFINE x == run[r]
<1>1. TypeOK /\ Good(x) /\ x \in RunStates /\ x.at = "recheck" /\ x.at \in Working
      /\ "mark" \in Places /\ "verdict" \in Places
  BY PlacesAre DEF GoodInv, TypeOK, Recheck, Working
<1>2. PICK y \in RunStates : TurnsGreen(r, y, "mark") \/ TurnsRed(r, y, "verdict")
  BY <1>1, ChecksDo DEF Recheck
<1>3. x.slot # NoSlot /\ x.strict # "none" /\ x.status = "running" /\ x.agent = "off"
      /\ x.noticed = 0 /\ \A i \in 1 .. Len(x.findings) : ~x.findings[i].fixed
  BY <1>1 DEF Good, Placed, Found, Working, Before, RunStates
<1>4. CASE TurnsGreen(r, y, "mark")
  <2>1. /\ SameFindings(x, y) /\ y.status = x.status /\ y.card = x.card /\ y.strict = x.strict
        /\ y.pr = x.pr /\ y.slot = x.slot /\ y.at = "mark" /\ y.agent = "off" /\ y.head = x.head
        /\ y.base = x.base /\ y.green = x.green \union {tree[x.slot]} /\ Becomes(r, y)
    BY <1>3, <1>4 DEF TurnsGreen, SameId
  <2>2. Good(y) /\ Follows(x, y)
    BY <1>1, <2>1, MovesOn DEF Working
  <2>3. Kept(x, y)
    BY <1>1, <1>3, <2>1 DEF Kept, Raised, Holds, Held
  <2>4. FixIsEarned(y)
    BY <1>3, <2>1 DEF FixIsEarned, SameFindings
  <2>5. Deserves(r, x, tree[x.slot]) => Deserves(r, y, tree[x.slot])
    BY <1>1, <1>3, <2>1, <2>4 DEF Deserves, Earns
  <2> QED
    BY <2>1, <2>2, <2>3, <2>5 DEF Moved
<1>5. CASE TurnsRed(r, y, "verdict")
  <2> DEFINE f == [kind |-> "intent", open |-> TRUE, fixed |-> FALSE]
  <2>1. /\ y.status = x.status /\ y.card = x.card /\ y.strict = x.strict
        /\ y.pr = x.pr /\ y.slot = x.slot /\ y.at = "verdict" /\ y.agent = "off"
        /\ y.fixing = x.fixing /\ y.noticed = x.noticed
        /\ y.findings = Append(x.findings, f) /\ Becomes(r, y)
    BY <1>3, <1>5 DEF TurnsRed, SameId
  <2>2. f \in Findings /\ f.open = TRUE /\ f.fixed = FALSE
    BY FindingIs DEF Kinds
  <2> HIDE DEF f
  <2>3. Filed(x, y)
    BY <1>1, <2>1, <2>2, FindingFiled
  <2>4. Typed(y)
    BY <1>1, <2>1, <2>3, FiledTyped DEF Good
  <2>5. Placed(y)
    BY <1>1, <1>3, <2>1 DEF Good, Placed, Working
  <2>6. Found(y)
    BY <1>3, <2>1 DEF Found, Before
  <2>7. Follows(x, y)
    BY <1>3, <2>3 DEF Follows, Filed
  <2>8. Kept(x, y)
    BY <1>1, <1>3, <2>1 DEF Kept, Raised, Holds, Held, Working
  <2>9. \A i \in 1 .. Len(y.findings) : ~y.findings[i].fixed
    BY <1>3, <2>3 DEF Filed
  <2>10. Deserves(r, y, tree[x.slot])
    BY <1>3, <2>1, <2>3, <2>9 DEF Deserves, Earns, FixIsEarned, Filed
  <2> QED
    BY <2>1, <2>4, <2>5, <2>6, <2>7, <2>8, <2>10 DEF Moved, Good
<1> QED
  BY <1>2, <1>4, <1>5

LEMMA MarkMoves ==
    ASSUME GoodInv, NEW r \in Runs, Mark(r) PROVE \E y \in RunStates : Moved(r, y)
<1> DEFINE x == run[r]
<1>1. TypeOK /\ Good(x) /\ x \in RunStates /\ x.at = "mark" /\ x.at \in Working
  BY DEF GoodInv, TypeOK, Mark, Working
<1>2. PICK y \in RunStates :
              /\ Becomes(r, y) /\ y.at = "verdict" /\ SameId(run[r], y) /\ SameHead(run[r], y)
              /\ y.agent = run[r].agent /\ y.mail = run[r].mail
              /\ y.fixing = run[r].fixing /\ y.noticed = run[r].noticed
              /\ Len(y.findings) = Len(run[r].findings)
              /\ \A i \in 1 .. Len(y.findings) : ~run[r].findings[i].open => ~y.findings[i].open
  BY <1>1, MarkDoes
<1>3. x.slot # NoSlot /\ x.strict # "none" /\ x.status = "running" /\ y.slot = x.slot
      /\ y.card = x.card /\ y.strict = x.strict /\ y.status = x.status /\ y.pr = x.pr
      /\ y.noticed = 0
      /\ y.agent \notin {"reviewer", "fixer"}
  BY <1>1, <1>2 DEF Good, Placed, Found, Working, Before, SameId
<1>4. Typed(y)
  BY <1>1, <1>2 DEF Good, Typed
<1>5. Placed(y)
  BY <1>2, <1>3, <1>1 DEF Good, Placed, Working
<1>6. Found(y)
  BY <1>2, <1>3 DEF Found, Before
<1>7. Follows(x, y)
  BY <1>1, <1>2, <1>3, ListOf DEF Follows
<1>8. Kept(x, y)
  BY <1>1, <1>2, <1>3 DEF Kept, Raised, Holds, Held
<1>9. Deserves(r, x, tree[x.slot]) => Deserves(r, y, tree[x.slot])
  <2> SUFFICES ASSUME Deserves(r, x, tree[x.slot]) PROVE Deserves(r, y, tree[x.slot])
    OBVIOUS
  <2>1. tree[x.slot] = x.head /\ x.head # x.base /\ x.head \in x.green
    BY <1>1, <1>3 DEF Deserves, Earns
  <2> QED
    BY <1>2, <1>3, <2>1 DEF Deserves, Earns, FixIsEarned, SameHead
<1> QED
  BY <1>2, <1>3, <1>4, <1>5, <1>6, <1>7, <1>8, <1>9 DEF Moved, Good

LEMMA VerdictMoves ==
    ASSUME GoodInv, NEW r \in Runs, Verdict(r) PROVE \E y \in RunStates : Moved(r, y)
<1> DEFINE x == run[r]
           p == IF OpenOf(r) = {} THEN "pass" ELSE "escalate"
<1>1. TypeOK /\ Good(x) /\ x \in RunStates /\ x.at = "verdict" /\ x.at \in Working
  BY DEF GoodInv, TypeOK, Verdict, Working
<1>2. PICK y \in RunStates :
              /\ Becomes(r, y) /\ SameId(run[r], y) /\ SameHead(run[r], y)
              /\ y.agent = run[r].agent /\ y.mail = run[r].mail
              /\ y.findings = run[r].findings /\ y.fixing = run[r].fixing
              /\ y.noticed = Len(run[r].findings) /\ y.at = p
  BY <1>1, VerdictDoes
<1>3. x.slot # NoSlot /\ x.strict # "none" /\ x.status = "running" /\ y.slot = x.slot
      /\ y.card = x.card /\ y.strict = x.strict /\ y.status = x.status /\ y.pr = x.pr
      /\ y.agent \notin {"reviewer", "fixer"}
  BY <1>1, <1>2 DEF Good, Placed, Working, SameId
<1>4. \/ p = "pass" /\ \A i \in 1 .. Len(x.findings) : ~x.findings[i].open
      \/ p = "escalate"
  BY DEF OpenOf
<1> HIDE DEF p
<1>5. Typed(y)
  BY <1>1, <1>2, ListOf DEF Good, Typed
<1>6. Placed(y)
  BY <1>1, <1>2, <1>3, <1>4 DEF Good, Placed, Working
<1>7. Found(y)
  BY <1>2, <1>3, <1>4 DEF Found, Before, Working
<1>8. Follows(x, y)
  BY <1>1, <1>2, <1>3, ListOf DEF Follows
<1>9. Kept(x, y)
  BY <1>1, <1>2, <1>3, <1>4 DEF Kept, Raised, Holds, Held
<1>10. Deserves(r, x, tree[x.slot]) => Deserves(r, y, tree[x.slot])
  <2> SUFFICES ASSUME Deserves(r, x, tree[x.slot]) PROVE Deserves(r, y, tree[x.slot])
    OBVIOUS
  <2>1. FixIsEarned(y)
    BY <1>2 DEF Deserves, FixIsEarned, SameHead
  <2>2. p = "pass" => r \in early \/ (x.head \in x.green /\ tree[x.slot] \in x.green \union meddled)
    BY <1>1, <1>3, <1>4 DEF Deserves, Earns
  <2> QED
    BY <1>2, <1>3, <1>4, <2>1, <2>2 DEF Deserves, Earns, SameHead
<1> QED
  BY <1>2, <1>3, <1>5, <1>6, <1>7, <1>8, <1>9, <1>10 DEF Moved, Good

LEMMA ConcludeMoves ==
    ASSUME GoodInv, NEW r \in Runs, Conclude(r) PROVE \E y \in RunStates : Moved(r, y)
<1> DEFINE x == run[r]
<1>1. TypeOK /\ Good(x) /\ x \in RunStates /\ x.at \in {"pass", "fail", "escalate", "error"}
  BY DEF GoodInv, TypeOK, Conclude
<1>2. PICK y \in RunStates :
              /\ Becomes(r, y) /\ SameHead(run[r], y) /\ SameFindings(run[r], y)
              /\ y.card = run[r].card /\ y.strict = run[r].strict /\ y.slot = run[r].slot
              /\ y.pr = run[r].pr /\ y.agent = run[r].agent /\ y.mail = run[r].mail
              /\ \/ run[r].at = "pass" /\ y.status = "passed" /\ y.at = "done"
                 \/ run[r].at = "error" /\ y.status = "failed" /\ y.at = "complain"
                 \/ run[r].at = "escalate" /\ y.status = "escalated" /\ y.at = "raise"
                 \/ run[r].at = "fail" /\ y.status = "failed" /\ y.at = "raise"
  BY <1>1, ConcludeDoes
<1>3. x.status = "running" /\ y.agent \notin {"reviewer", "fixer"}
  BY <1>1, <1>2 DEF Good, Placed
<1>4. Typed(y) /\ Len(x.findings) <= Len(y.findings)
      /\ \A i \in 1 .. Len(x.findings) : ~x.findings[i].open => ~y.findings[i].open
  BY <1>1, <1>2, SameFindingsKeep DEF Good
<1>5. Placed(y)
  BY <1>1, <1>2, <1>3 DEF Good, Placed, Working
<1>6. Found(y)
  BY <1>1, <1>2 DEF Good, Found, SameFindings, Before
<1>7. Follows(x, y)
  BY <1>3, <1>4 DEF Follows
<1>8. Kept(x, y)
  BY <1>1, <1>2, <1>3 DEF Kept, Raised, Holds, Held
<1>9. Deserves(r, x, tree[x.slot]) => Deserves(r, y, tree[x.slot])
  <2>1. FixIsEarned(x) => FixIsEarned(y)
    BY <1>2 DEF FixIsEarned, SameHead, SameFindings
  <2>2. Earns(r, x, tree[x.slot]) => Earns(r, y, tree[x.slot])
    BY <1>1, <1>2, <1>3 DEF Earns, SameHead
  <2> QED
    BY <1>2, <2>1, <2>2 DEF Deserves
<1> QED
  BY <1>2, <1>4, <1>5, <1>6, <1>7, <1>8, <1>9 DEF Moved, Good

LEMMA FilesMoves ==
    ASSUME GoodInv, NEW r \in Runs, AgentFiles(r) PROVE \E y \in RunStates : Moved(r, y)
<1> DEFINE x == run[r]
<1>1. TypeOK /\ Good(x) /\ x \in RunStates /\ x.agent # "off"
  BY DEF GoodInv, TypeOK, AgentFiles
<1>2. PICK k \in Kinds : run' = [run EXCEPT ![r].mail = k]
  BY DEF AgentFiles
<1>3. PICK y \in RunStates : Becomes(r, y) /\ SameRun(run[r], y) /\ y.at = run[r].at
                             /\ y.agent = run[r].agent
  BY <1>1, <1>2, MailDoes
<1>4. x.at \in {"reviewing", "fixing"} /\ x.slot = y.slot /\ SameFindings(x, y) /\ SameHead(x, y)
      /\ y.status = x.status /\ y.card = x.card /\ y.strict = x.strict /\ y.pr = x.pr
  BY <1>1, <1>3 DEF Good, Placed, RunStates, SameRun, SameId
<1>5. Good(y) /\ Follows(x, y)
  <2>1. (y.agent = "reviewer" => y.at = "reviewing") /\ (y.agent = "fixer" => y.at = "fixing")
    BY <1>1, <1>3 DEF Good, Placed
  <2> QED
    BY <1>1, <1>3, <1>4, <2>1, MovesOn DEF Working
<1>6. Kept(x, y)
  BY <1>1, <1>3, <1>4 DEF Kept, Raised, Holds, Held, Working
<1>7. Deserves(r, x, tree[x.slot]) => Deserves(r, y, tree[x.slot])
  <2>1. FixIsEarned(x) => FixIsEarned(y)
    BY <1>4 DEF FixIsEarned, SameHead, SameFindings
  <2>2. Earns(r, x, tree[x.slot]) => Earns(r, y, tree[x.slot])
    BY <1>3, <1>4 DEF Earns, SameHead
  <2> QED
    BY <1>4, <2>1, <2>2 DEF Deserves
<1> QED
  BY <1>3, <1>4, <1>5, <1>6, <1>7 DEF Moved

\* The row a run has before gate.run.
LEMMA NoRowIs ==
    /\ NoRow.status = "none" /\ NoRow.card = NoCard /\ NoRow.at = "off" /\ NoRow.slot = NoSlot
    /\ NoRow.findings = << >> /\ NoRow.noticed = 0 /\ NoRow.fixing = {} /\ NoRow.agent = "off"
    /\ NoRow.mail = "none" /\ NoRow.strict = "full" /\ NoRow.pr = FALSE /\ Len(NoRow.findings) = 0
BY DEF NoRow

LEMMA NoRowIsGood == NoRow \in RunStates /\ Good(NoRow)
<1>1. 0 \in Commits /\ << >> \in Seq(Findings) /\ 0 \in Nat
  BY DEF Commits
<1>2. NoRow \in RunStates
  BY <1>1, PlacesAre DEF NoRow, RunStates, NoSlot
<1>3. Typed(NoRow)
  BY <1>2, NoRowIs DEF Typed
<1>4. Placed(NoRow)
  BY NoRowIs DEF Placed, Working
<1>5. Found(NoRow)
  BY NoRowIs DEF Found, Before, Working
<1> QED
  BY <1>2, <1>3, <1>4, <1>5 DEF Good

LEMMA FindingAddMoves ==
    ASSUME GoodInv, NEW r \in Runs, FindingAdd(r) PROVE \E y \in RunStates : Moved(r, y)
<1> DEFINE x == run[r]
<1>1. TypeOK /\ Good(x) /\ x \in RunStates /\ x.mail # "none"
  BY DEF GoodInv, TypeOK, FindingAdd
<1>2. PICK y \in RunStates :
              /\ Becomes(r, y) /\ SameId(run[r], y) /\ SameHead(run[r], y)
              /\ y.at = run[r].at /\ y.agent = run[r].agent
              /\ y.fixing = run[r].fixing /\ y.noticed = run[r].noticed
              /\ \/ y.findings = run[r].findings
                 \/ \E f \in Findings : f.open = TRUE /\ f.fixed = FALSE
                                        /\ y.findings = Append(run[r].findings, f)
  BY <1>1, FindingAddDoes
<1>3. x # NoRow /\ x.noticed \in Nat /\ Len(x.findings) \in Nat
  BY <1>1, NoRowIs, ListOf
<1>4. Placed(y)
  BY <1>1, <1>2, <1>3 DEF Good, Placed, SameId
<1>5. Kept(x, y) /\ y.slot = x.slot
  BY <1>1, <1>2 DEF Kept, Raised, Holds, SameId, Good, Placed, Held, Working
<1>6. CASE y.findings = x.findings
  <2>1. Typed(y) /\ Found(y)
    BY <1>1, <1>2, <1>6 DEF Good, Typed, Found, SameId
  <2>2. Follows(x, y)
    BY <1>2, <1>3, <1>6 DEF Follows, SameId, SameHead
  <2>3. FixIsEarned(x) => FixIsEarned(y)
    BY <1>2, <1>6 DEF FixIsEarned, SameHead
  <2>4. Earns(r, x, tree[x.slot]) => Earns(r, y, tree[x.slot])
    BY <1>2, <1>6 DEF Earns, SameHead, SameId
  <2> QED
    BY <1>2, <1>4, <1>5, <2>1, <2>2, <2>3, <2>4 DEF Moved, Good, Deserves, SameId
<1>7. CASE \E f \in Findings : f.open = TRUE /\ f.fixed = FALSE
                               /\ y.findings = Append(x.findings, f)
  <2>1. Filed(x, y)
    BY <1>1, <1>7, FindingFiled
  <2>2. Typed(y)
    BY <1>1, <1>2, <2>1, FiledTyped DEF Good
  <2>3. Found(y)
    <3>1. x.at \in Before => \A i \in 1 .. Len(y.findings) : ~y.findings[i].fixed
      BY <1>1, <2>1 DEF Good, Found, Filed
    <3>2. ASSUME NEW i \in 1 .. x.noticed, ~x.findings[i].open PROVE ~y.findings[i].open
      <4>1. x.noticed <= Len(x.findings)
        BY <1>1 DEF Good, Typed
      <4>2. i \in 1 .. Len(x.findings)
        BY <1>3, <4>1
      <4> QED
        BY <2>1, <3>2, <4>2 DEF Filed
    <3> QED
      BY <1>1, <1>2, <3>1, <3>2 DEF Good, Found, SameId
  <2>4. Follows(x, y)
    BY <1>2, <2>1 DEF Follows, Filed, SameId, SameHead
  <2>5. FixIsEarned(x) => FixIsEarned(y)
    BY <1>2, <2>1 DEF FixIsEarned, SameHead, Filed
  <2>6. Earns(r, x, tree[x.slot]) => Earns(r, y, tree[x.slot])
    <3>1. \E i \in 1 .. Len(y.findings) : y.findings[i].open
      BY <2>1 DEF Filed
    <3> QED
      BY <1>2, <3>1 DEF Earns, SameHead, SameId
  <2> QED
    BY <1>2, <1>4, <1>5, <2>2, <2>3, <2>4, <2>5, <2>6 DEF Moved, Good, Deserves, SameId
<1> QED
  BY <1>2, <1>6, <1>7

\* What the human resolves; whether it is early shows below.
LEMMA ResolveMoves ==
    ASSUME GoodInv, NEW r \in Runs, NEW i \in 1 .. Len(run[r].findings), ResolveFinding(r, i)
    PROVE  \E y \in RunStates :
              /\ Becomes(r, y) /\ Good(y) /\ Follows(run[r], y) /\ Kept(run[r], y)
              /\ SameId(run[r], y) /\ SameHead(run[r], y) /\ y.at = run[r].at
              /\ Len(y.findings) = Len(run[r].findings) /\ ~y.findings[i].open
              /\ \A j \in 1 .. Len(y.findings) :
                    /\ j # i => y.findings[j] = run[r].findings[j]
                    /\ y.findings[j].fixed = run[r].findings[j].fixed
<1> DEFINE x == run[r]
<1>1. TypeOK /\ Good(x) /\ x \in RunStates
  BY DEF GoodInv, TypeOK
<1>2. PICK y \in RunStates :
              /\ Becomes(r, y) /\ SameId(run[r], y) /\ SameHead(run[r], y)
              /\ y.at = run[r].at /\ y.agent = run[r].agent
              /\ y.fixing = run[r].fixing /\ y.noticed = run[r].noticed
              /\ Len(y.findings) = Len(run[r].findings)
              /\ ~y.findings[i].open
              /\ \A j \in 1 .. Len(y.findings) :
                    /\ j # i => y.findings[j] = run[r].findings[j]
                    /\ y.findings[j].fixed = run[r].findings[j].fixed
  BY <1>1, ResolveDoes
<1>3. x # NoRow /\ x.noticed \in Nat /\ Len(x.findings) \in Nat
  BY <1>1, NoRowIs, ListOf
<1>4. Placed(y)
  BY <1>1, <1>2, <1>3 DEF Good, Placed, SameId
<1>5. Kept(x, y)
  BY <1>1, <1>2 DEF Kept, Raised, Holds, SameId, Good, Placed, Held, Working
<1>6. ASSUME NEW j \in 1 .. Len(x.findings), ~x.findings[j].open PROVE ~y.findings[j].open
  BY <1>2, <1>6
<1>7. Typed(y)
  BY <1>1, <1>2 DEF Good, Typed
<1>8. Found(y)
  <2>1. x.at \in Before => \A j \in 1 .. Len(y.findings) : ~y.findings[j].fixed
    BY <1>1, <1>2 DEF Good, Found
  <2>2. ASSUME NEW j \in 1 .. x.noticed, ~x.findings[j].open PROVE ~y.findings[j].open
    <3>1. x.noticed <= Len(x.findings)
      BY <1>1 DEF Good, Typed
    <3>2. j \in 1 .. Len(x.findings)
      BY <1>3, <3>1
    <3> QED
      BY <1>6, <2>2, <3>2
  <2> QED
    BY <1>1, <1>2, <2>1, <2>2 DEF Good, Found, SameId
<1>9. Follows(x, y)
  BY <1>2, <1>3, <1>6 DEF Follows, SameId, SameHead
<1> QED
  BY <1>2, <1>4, <1>5, <1>7, <1>8, <1>9 DEF Good

\* A new run has no worktree and no findings.
LEMMA GateRunMoves ==
    ASSUME GoodInv, NEW c \in Cards, GateRun(c)
    PROVE  \E r \in Runs, y \in RunStates : Moved(r, y)
<1>1. TypeOK
  BY DEF GoodInv
<1>2. PICK r \in Runs, y \in RunStates :
              /\ run[r].status = "none" /\ Becomes(r, y)
              /\ y.status = "running" /\ y.card = c /\ y.slot = NoSlot /\ y.pr = FALSE
              /\ \/ y.strict = "none" /\ y.at = "pass"
                 \/ y.strict # "none" /\ y.at = "lease"
              /\ y.agent = "off" /\ y.mail = "none" /\ y.findings = << >> /\ y.fixing = {}
              /\ y.noticed = 0
  BY <1>1, GateRunDoes
<1> DEFINE x == run[r]
<1>3. x = NoRow /\ Len(x.findings) = 0 /\ x.slot = NoSlot /\ x.status = "none" /\ Len(y.findings) = 0
  BY <1>2, NoRowIs DEF GoodInv, Good, Placed
<1>4. Typed(y) /\ Found(y)
  BY <1>2, <1>3 DEF Typed, Found
<1>5. Placed(y)
  BY <1>2 DEF Placed, Working
<1>6. Follows(x, y)
  BY <1>3 DEF Follows
<1>7. Kept(x, y)
  BY <1>2 DEF Kept, Raised, Holds
<1>8. Deserves(r, y, tree[x.slot])
  BY <1>2, <1>3 DEF Deserves, FixIsEarned
<1> QED
  BY <1>2, <1>3, <1>4, <1>5, <1>6, <1>7, <1>8 DEF Moved, Good

\* A step of a run that also touches its worktree or its item.
Passes(r, y, place) ==
    /\ Becomes(r, y) /\ Good(y) /\ Follows(run[r], y) /\ SameRun(run[r], y) /\ y.at = place

LEMMA EndPasses ==
    ASSUME GoodInv, NEW r \in Runs, NEW p,
           \/ run[r].at = "raise" /\ p = "reset"
           \/ run[r].at = "complain" /\ p = "done"
           \/ run[r].at = "reset" /\ p = "free"
           \/ run[r].at = "free" /\ p = "done",
           Go(r, p)
    PROVE  \E y \in RunStates : Passes(r, y, p)
<1> DEFINE x == run[r]
<1>1. TypeOK /\ Good(x) /\ p \in Places
  BY PlacesAre DEF GoodInv
<1>2. PICK y \in RunStates : Becomes(r, y) /\ y.at = p /\ SameRun(run[r], y)
                             /\ y.agent = run[r].agent /\ y.mail = run[r].mail
  BY <1>1, GoDoes
<1>3. x.status \in {"failed", "escalated"} /\ SameFindings(x, y) /\ y.status = x.status
      /\ y.agent \notin {"reviewer", "fixer"} /\ y.strict = x.strict /\ y.slot = x.slot
      /\ y.pr = x.pr
  BY <1>1, <1>2 DEF Good, Placed, SameRun, SameId
<1>4. Typed(y) /\ Follows(x, y)
  BY <1>1, <1>3, SameFindingsKeep DEF Good, Follows
<1>5. Placed(y)
  BY <1>1, <1>2, <1>3 DEF Good, Placed, Working
<1>6. Found(y)
  BY <1>2, <1>3 DEF Found, Before, Working
<1> QED
  BY <1>2, <1>4, <1>5, <1>6 DEF Passes, Good

LEMMA CheckoutPasses ==
    ASSUME GoodInv, NEW r \in Runs, Checkout(r)
    PROVE  \E y \in RunStates : Passes(r, y, "checks")
<1> DEFINE x == run[r]
<1>1. TypeOK /\ Good(x) /\ x.at = "checkout" /\ "checks" \in Places
  BY PlacesAre DEF GoodInv, Checkout
<1>2. PICK y \in RunStates : Becomes(r, y) /\ y.at = "checks" /\ SameRun(run[r], y)
                             /\ y.agent = run[r].agent /\ y.mail = run[r].mail
  BY <1>1, GoDoes DEF Checkout
<1>3. SameFindings(x, y) /\ y.status = x.status /\ y.card = x.card /\ y.strict = x.strict
      /\ y.slot = x.slot /\ y.pr = x.pr /\ y.agent \notin {"reviewer", "fixer"}
  BY <1>1, <1>2 DEF Good, Placed, SameRun, SameId
<1>4. Good(y) /\ Follows(x, y)
  BY <1>1, <1>2, <1>3, MovesOn
<1> QED
  BY <1>2, <1>4 DEF Passes

LEMMA LeasePasses ==
    ASSUME GoodInv, NEW r \in Runs, Lease(r)
    PROVE  \E y \in RunStates :
              /\ Becomes(r, y) /\ Good(y) /\ Follows(run[r], y) /\ y.at = "checkout"
              /\ y.slot = Lowest(Free) /\ y.slot \in Slots /\ row[y.slot] = "available"
              /\ y.card = run[r].card /\ y.status = "running" /\ SameHead(run[r], y)
              /\ SameFindings(run[r], y)
<1> DEFINE x == run[r]
<1>1. TypeOK /\ Good(x) /\ x.at = "lease"
  BY DEF GoodInv, Lease
<1>2. PICK y \in RunStates :
              /\ Becomes(r, y) /\ y.at = "checkout" /\ y.slot = Lowest(Free)
              /\ y.status = run[r].status /\ y.card = run[r].card /\ y.strict = run[r].strict
              /\ y.pr = run[r].pr /\ SameHead(run[r], y) /\ SameFindings(run[r], y)
              /\ y.agent = run[r].agent /\ y.mail = run[r].mail
  BY <1>1, LeaseDoes
<1>3. y.slot \in Slots /\ row[y.slot] = "available" /\ y.slot # NoSlot
  <2>1. Lowest(Free) \in Free
    BY LowestIn DEF Lease, Free
  <2> QED
    BY <1>2, <2>1 DEF Free, Slots, NoSlot
<1>4. y.status = "running" /\ y.agent \notin {"reviewer", "fixer"}
  BY <1>1, <1>2 DEF Good, Placed
<1>5. Good(y) /\ Follows(x, y)
  BY <1>1, <1>2, <1>3, <1>4, MovesOn
<1> QED
  BY <1>2, <1>3, <1>4, <1>5

LEMMA PrPasses ==
    ASSUME GoodInv, NEW r \in Runs, run' = [run EXCEPT ![r].pr = TRUE],
           run[r].status = "passed", run[r].slot # NoSlot
    PROVE  \E y \in RunStates : Moved(r, y)
<1> DEFINE x == run[r]
<1>1. TypeOK /\ Good(x) /\ x.at = "done"
  BY DEF GoodInv, Good, Placed
<1>2. PICK y \in RunStates :
              /\ Becomes(r, y) /\ SameHead(run[r], y) /\ SameFindings(run[r], y)
              /\ y.status = run[r].status /\ y.card = run[r].card /\ y.strict = run[r].strict
              /\ y.slot = run[r].slot /\ y.at = run[r].at /\ y.agent = run[r].agent
              /\ y.mail = run[r].mail
  BY <1>1, PrDoes
<1>3. Typed(y) /\ Follows(x, y)
  BY <1>1, <1>2, SameFindingsKeep DEF Good, Follows
<1>4. Placed(y)
  BY <1>1, <1>2 DEF Good, Placed, Working
<1>5. Found(y)
  BY <1>1, <1>2 DEF Good, Found, SameFindings, Before, Working
<1>6. Kept(x, y)
  BY <1>1, <1>2 DEF Kept, Raised, Holds, Held, Working
<1>7. FixIsEarned(x) => FixIsEarned(y)
  BY <1>2 DEF FixIsEarned, SameHead, SameFindings
<1>8. Earns(r, x, tree[x.slot]) => Earns(r, y, tree[x.slot])
  BY <1>1, <1>2 DEF Earns, SameHead
<1> QED
  BY <1>2, <1>3, <1>4, <1>5, <1>6, <1>7, <1>8 DEF Moved, Good, Deserves

\* dispatch.cancel ends the agents of its card's runs.
LEMMA CancelMoves ==
    ASSUME GoodInv, NEW c \in Cards, Cancel(c)
    PROVE  run' \in [Runs -> RunStates]
           /\ \A r \in Runs : Good(run'[r]) /\ Follows(run[r], run'[r]) /\ Kept(run[r], run'[r])
<1> DEFINE off(r) == [run[r] EXCEPT !.agent = "off"]
<1>1. run \in [Runs -> RunStates] /\ \A r \in Runs : Good(run[r])
  BY DEF GoodInv, TypeOK
<1>2. run' = [r \in Runs |-> IF run[r].card = c THEN off(r) ELSE run[r]]
  BY DEF Cancel
<1>3. ASSUME NEW r \in Runs PROVE
         /\ off(r) \in RunStates /\ off(r).agent = "off" /\ off(r).at = run[r].at
         /\ SameRun(run[r], off(r))
  <2>1. run[r] \in RunStates
    BY <1>1
  <2> QED
    BY <2>1 DEF RunStates, SameRun, SameId, SameHead, SameFindings
<1> HIDE DEF off
<1>4. ASSUME NEW r \in Runs
      PROVE  run'[r] \in RunStates /\ run'[r].at = run[r].at /\ SameRun(run[r], run'[r])
             /\ (run'[r] = run[r] \/ (run'[r].agent = "off" /\ run[r] # NoRow))
  <2>1. NoRow.card # c
    BY NoRowIs
  <2>2. CASE run[r].card = c
    <3>1. run'[r] = off(r) /\ run[r] # NoRow
      BY <1>2, <2>1, <2>2
    <3> QED
      BY <1>3, <3>1
  <2>3. CASE run[r].card # c
    <3>1. run'[r] = run[r] /\ run[r] \in RunStates
      BY <1>1, <1>2, <2>3
    <3> QED
      BY <3>1 DEF SameRun, SameId, SameHead, SameFindings
  <2> QED
    BY <2>2, <2>3
<1>5. ASSUME NEW r \in Runs
      PROVE  Good(run'[r]) /\ Follows(run[r], run'[r]) /\ Kept(run[r], run'[r])
  <2> DEFINE x == run[r]
             y == run'[r]
  <2>1. Good(x)
    BY <1>1
  <2>2. y \in RunStates /\ y.at = x.at /\ SameRun(x, y)
        /\ (y = x \/ (y.agent = "off" /\ x # NoRow))
    BY <1>4
  <2> HIDE DEF x, y
  <2>3. Typed(y) /\ Follows(x, y)
    BY <2>1, <2>2, SameFindingsKeep DEF Good, Follows, SameRun, SameId
  <2>4. Placed(y)
    BY <2>1, <2>2 DEF Good, Placed, SameRun, SameId
  <2>5. Found(y)
    BY <2>1, <2>2 DEF Good, Found, SameRun, SameId, SameFindings
  <2>6. Kept(x, y)
    BY <2>1, <2>2 DEF Good, Placed, Kept, Raised, Holds, Held, Working, SameRun, SameId,
                      SameFindings
  <2> QED
    BY <2>3, <2>4, <2>5, <2>6 DEF Good, x, y
<1>6. run' \in [Runs -> RunStates]
  BY <1>2, <1>4
<1> QED
  BY <1>5, <1>6

\* A crash leaves rows that nothing looks after.
LEMMA CrashMoves ==
    ASSUME GoodInv, Crash
    PROVE  run' \in [Runs -> RunStates]
           /\ \A r \in Runs : /\ Good(run'[r]) /\ Follows(run[r], run'[r]) /\ Kept(run[r], run'[r])
                              /\ SameRun(run[r], run'[r]) /\ run'[r].at \in {run[r].at, "dead"}
                              /\ run'[r].at \notin Held
<1> DEFINE left(r) == IF run[r].at \in {"off", "done"} THEN run[r].at ELSE "dead"
           gone(r) == [run[r] EXCEPT !.agent = "off", !.mail = "none", !.at = left(r)]
<1>1. run \in [Runs -> RunStates] /\ \A r \in Runs : Good(run[r])
  BY DEF GoodInv, TypeOK
<1>2. run' = [r \in Runs |-> gone(r)]
  BY DEF Crash
<1>3. ASSUME NEW r \in Runs PROVE
         /\ gone(r) \in RunStates /\ gone(r).agent = "off" /\ SameRun(run[r], gone(r))
         /\ gone(r).mail = "none" /\ gone(r).at = left(r)
  <2>1. run[r] \in RunStates /\ left(r) \in Places
    <3>1. run[r] \in RunStates /\ "dead" \in Places
      BY <1>1, PlacesAre
    <3>2. run[r].at \in Places
      BY <3>1 DEF RunStates
    <3> QED
      BY <3>1, <3>2
  <2> HIDE DEF left
  <2> QED
    BY <2>1 DEF RunStates, SameRun, SameId, SameHead, SameFindings
<1>4. ASSUME NEW r \in Runs, run[r] = NoRow PROVE gone(r) = NoRow
  <2>1. left(r) = "off"
    BY <1>4, NoRowIs
  <2>2. gone(r) = [NoRow EXCEPT !.agent = "off", !.mail = "none", !.at = "off"]
    BY <1>4, <2>1
  <2> HIDE DEF left, gone
  <2> QED
    BY <2>2 DEF NoRow
<1> HIDE DEF gone
<1>5. ASSUME NEW r \in Runs
      PROVE  /\ Good(run'[r]) /\ Follows(run[r], run'[r]) /\ Kept(run[r], run'[r])
             /\ SameRun(run[r], run'[r]) /\ run'[r].at \in {run[r].at, "dead"}
             /\ run'[r].at \notin Held
  <2> DEFINE x == run[r]
             y == run'[r]
  <2>1. Good(x)
    BY <1>1
  <2>2. /\ y \in RunStates /\ SameRun(x, y) /\ y.agent = "off"
        /\ (x = NoRow => y = NoRow)
        /\ y.at = IF x.at \in {"off", "done"} THEN x.at ELSE "dead"
    BY <1>2, <1>3, <1>4
  <2> HIDE DEF x, y
  <2>3. Typed(y)
    BY <2>1, <2>2, SameFindingsKeep DEF Good, SameRun
  <2>4. Placed(y)
    BY <2>1, <2>2 DEF Good, Placed, SameRun, SameId, Working
  <2>5. Found(y)
    BY <2>1, <2>2 DEF Good, Found, SameRun, SameId, SameFindings, Before, Working
  <2>6. Follows(x, y)
    BY <2>1, <2>2, SameFindingsKeep DEF Good, Follows, SameRun, SameId, Placed
  <2>7. y.at \notin Held /\ y.at \in {x.at, "dead"}
    BY <2>2 DEF Held, Working
  <2>8. Kept(x, y)
    BY <2>1, <2>2, <2>7 DEF Good, Placed, Kept, Raised, Holds, SameRun, SameId,
                      SameFindings
  <2> QED
    BY <2>2, <2>3, <2>4, <2>5, <2>6, <2>7, <2>8 DEF Good, x, y
<1>6. run' \in [Runs -> RunStates]
  BY <1>2, <1>3
<1> QED
  BY <1>5, <1>6

-----------------------------------------------------------------------------
(* Types.                                                                   *)

\* The steps of a run alone.
Moves(r) ==
    \/ Checks(r) \/ Review(r) \/ ReviewEnds(r) \/ Autofix(r) \/ FixEnds(r) \/ Recheck(r) \/ Mark(r)
    \/ Verdict(r) \/ Fails(r) \/ Conclude(r) \/ AgentFiles(r) \/ FindingAdd(r)

LEMMA MovesDo ==
    ASSUME GoodInv, NEW r \in Runs, Moves(r)
    PROVE  /\ \E y \in RunStates : Moved(r, y)
           /\ UNCHANGED <<slotVars, treeVars, author, shipVars, humanVars, meddled, lost, counts>>
<1>1. UNCHANGED <<slotVars, treeVars, author, shipVars, humanVars, meddled, lost, counts>>
  BY DEF Moves, Checks, RunChecks, Review, ReviewEnds, Autofix, FixEnds, Recheck, Mark, Verdict,
         Fails, Conclude, AgentFiles, FindingAdd
<1>2. \E y \in RunStates : Moved(r, y)
  BY ChecksMove, ReviewMoves, ReviewEndsMoves, AutofixMoves, FixEndsMoves, RecheckMoves, MarkMoves,
     VerdictMoves, FailsMoves, ConcludeMoves, FilesMoves, FindingAddMoves DEF Moves
<1> QED
  BY <1>1, <1>2

LEMMA NextCases ==
    ASSUME Next
    PROVE  \/ Crash \/ CountOpen \/ ClearItem \/ MergeRefused \/ Merges \/ ShipResets \/ ShipFrees
           \/ ShipParks
           \/ \E r \in Runs :
                \/ Moves(r) \/ Lease(r) \/ Checkout(r) \/ Raise(r) \/ Resets(r) \/ Frees(r)
                \/ AgentCommits(r)
                \/ \E i \in 1 .. Len(run[r].findings) : ResolveFinding(r, i)
           \/ \E c \in Cards :
                \/ GateRun(c) \/ ShipLocally(c) \/ ShipAsPr(c) \/ Merge(c)
                \/ Dispatch(c) \/ AuthorEdits(c) \/ AuthorCommits(c) \/ Cancel(c)
BY DEF Next, Pipeline, Moves

\* What every step does to every run.
RunsFollow ==
    /\ run' \in [Runs -> RunStates]
    /\ \A r \in Runs : Good(run'[r]) /\ Follows(run[r], run'[r])

LEMMA OneFollows ==
    ASSUME GoodInv, NEW r \in Runs, NEW y \in RunStates,
           Becomes(r, y), Good(y), Follows(run[r], y)
    PROVE  RunsFollow
<1>1. TypeOK /\ run \in [Runs -> RunStates] /\ \A q \in Runs : Good(run[q])
  BY DEF GoodInv, TypeOK
<1>2. run'[r] = y /\ \A q \in Runs : q # r => run'[q] = run[q]
  BY <1>1, OthersStay
<1>3. run' \in [Runs -> RunStates]
  BY <1>1 DEF Becomes
<1>4. ASSUME NEW q \in Runs PROVE Good(run'[q]) /\ Follows(run[q], run'[q])
  <2>1. q # r => Follows(run[q], run[q])
    BY <1>1, FollowsItself DEF Good
  <2> QED
    BY <1>1, <1>2, <2>1
<1> QED
  BY <1>3, <1>4 DEF RunsFollow

LEMMA NoneFollows == ASSUME GoodInv, run' = run PROVE RunsFollow
<1>1. run \in [Runs -> RunStates] /\ \A q \in Runs : Good(run[q])
  BY DEF GoodInv, TypeOK
<1>2. ASSUME NEW q \in Runs PROVE Follows(run[q], run[q])
  BY <1>1, FollowsItself DEF Good
<1> QED
  BY <1>1, <1>2 DEF RunsFollow

\* The run a ship is about is a passed one, with a worktree.
LEMMA ShipOf ==
    ASSUME NEW c \in Cards, NEW r \in Latest(c)
    PROVE  r \in Runs
BY DEF Latest

LEMMA StepFollows == ASSUME GoodInv, Next PROVE RunsFollow
<1>1. CASE \E r \in Runs : Moves(r)
  BY <1>1, MovesDo, OneFollows DEF Moved
<1>2. CASE \E r \in Runs : Lease(r)
  BY <1>2, LeasePasses, OneFollows
<1>3. CASE \E r \in Runs : Checkout(r)
  BY <1>3, CheckoutPasses, OneFollows DEF Passes
<1>4. CASE \E r \in Runs : Raise(r) \/ Resets(r) \/ Frees(r)
  <2>1. PICK r \in Runs : Raise(r) \/ Resets(r) \/ Frees(r)
    BY <1>4
  <2>2. CASE Raise(r)
    <3>1. \E p \in Places : \E y \in RunStates : Passes(r, y, p)
      <4>1. CASE run[r].at = "raise"
        <5>1. Go(r, "reset") /\ "reset" \in Places
          BY <2>2, <4>1, PlacesAre DEF Raise
        <5> QED
          BY <4>1, <5>1, EndPasses
      <4>2. CASE run[r].at # "raise"
        <5>1. Go(r, "done") /\ run[r].at = "complain" /\ "done" \in Places
          BY <2>2, <4>2, PlacesAre DEF Raise
        <5> QED
          BY <5>1, EndPasses
      <4> QED
        BY <4>1, <4>2
    <3> QED
      BY <3>1, OneFollows DEF Passes
  <2>3. CASE Resets(r)
    <3>1. \E y \in RunStates : Passes(r, y, "free")
      BY <2>3, EndPasses DEF Resets
    <3> QED
      BY <3>1, OneFollows DEF Passes
  <2>4. CASE Frees(r)
    <3>1. \E y \in RunStates : Passes(r, y, "done")
      BY <2>4, EndPasses DEF Frees
    <3> QED
      BY <3>1, OneFollows DEF Passes
  <2> QED
    BY <2>1, <2>2, <2>3, <2>4
<1>5. CASE \E r \in Runs : \E i \in 1 .. Len(run[r].findings) : ResolveFinding(r, i)
  BY <1>5, ResolveMoves, OneFollows
<1>6. CASE \E c \in Cards : GateRun(c)
  BY <1>6, GateRunMoves, OneFollows DEF Moved
<1>7. CASE \E c \in Cards : ShipAsPr(c)
  <2>1. PICK c \in Cards : ShipAsPr(c)
    BY <1>7
  <2>2. PICK r \in Latest(c) :
           /\ Ships(r) /\ run[r].status = "passed"
           /\ run' = run \/ run' = [run EXCEPT ![r].pr = TRUE]
    BY <2>1 DEF ShipAsPr
  <2>3. r \in Runs /\ run[r].slot # NoSlot
    BY <2>2, ShipOf DEF Ships
  <2> QED
    BY <2>2, <2>3, PrPasses, OneFollows, NoneFollows DEF Moved
<1>8. CASE \E c \in Cards : Cancel(c)
  BY <1>8, CancelMoves DEF RunsFollow
<1>9. CASE Crash
  BY <1>9, CrashMoves DEF RunsFollow
<1>10. CASE run' = run
  BY <1>10, NoneFollows
<1>11. \/ CountOpen \/ ClearItem \/ MergeRefused \/ Merges \/ ShipResets \/ ShipFrees \/ ShipParks
       \/ \E r \in Runs : AgentCommits(r)
       \/ \E c \in Cards : \/ ShipLocally(c) \/ Merge(c) \/ Dispatch(c) \/ AuthorEdits(c)
                           \/ AuthorCommits(c)
       => run' = run
  BY DEF CountOpen, ClearItem, MergeRefused, Merges, ShipResets, ShipFrees, ShipParks,
         AgentCommits, ShipLocally, Merge, Dispatch, AuthorEdits, AuthorCommits
<1> QED
  BY <1>1, <1>2, <1>3, <1>4, <1>5, <1>6, <1>7, <1>8, <1>9, <1>10, <1>11, NextCases

\* The types of the variables other than run.
RestTyped ==
    /\ row \in [Slots -> {"available", "leased", "dirty"}]
    /\ holder \in [Slots -> Cards \union {NoCard}]
    /\ tree \in [Slots -> Commits] /\ edits \in [Slots -> Cards \union {NoCard}]
    /\ author \in [Cards -> Slots \union {NoSlot}] /\ made \in Commits
    /\ shipper \in [at : Handlers, run : Runs \union {0}]
    /\ human \in [at : {"idle", "count", "clear"}, run : Runs \union {0}]
    /\ counts \in [ships : Nat, cancels : Nat, crashes : Nat]

LEMMA TypeOKIs ==
    TypeOK <=> /\ run \in [Runs -> RunStates] /\ RestTyped
               /\ \A r \in Runs :
                    /\ run[r].fixing \subseteq DOMAIN run[r].findings
                    /\ run[r].noticed <= Len(run[r].findings)
                    /\ run[r].at \in Working => run[r].slot \in Slots
BY DEF TypeOK, RestTyped

LEMMA GoodInvIs ==
    GoodInv <=> run \in [Runs -> RunStates] /\ RestTyped /\ \A r \in Runs : Good(run[r])
<1>1. ASSUME run \in [Runs -> RunStates], NEW r \in Runs, Good(run[r])
      PROVE  /\ run[r].fixing \subseteq DOMAIN run[r].findings
             /\ run[r].noticed <= Len(run[r].findings)
             /\ run[r].at \in Working => run[r].slot \in Slots
  <2>1. run[r] \in RunStates
    BY <1>1
  <2>2. DOMAIN run[r].findings = 1 .. Len(run[r].findings)
    BY <2>1, ListOf
  <2>3. run[r].slot \in Slots \union {NoSlot}
    BY <2>1 DEF RunStates
  <2> QED
    BY <1>1, <2>2, <2>3 DEF Good, Typed, Placed
<1> QED
  BY <1>1, TypeOKIs DEF GoodInv

LEMMA InitGood == Init => GoodInv
<1> SUFFICES ASSUME Init PROVE GoodInv
  OBVIOUS
<1>1. RestTyped
  BY DEF Init, RestTyped, Commits, Handlers, NoSlot
<1>2. run \in [Runs -> RunStates] /\ \A r \in Runs : Good(run[r])
  BY NoRowIsGood DEF Init
<1> QED
  BY <1>1, <1>2, GoodInvIs

\* A lease row is written.
LEMMA LeaseTyped ==
    ASSUME RestTyped, NEW s, NEW st \in {"available", "leased", "dirty"},
           NEW c \in Cards \union {NoCard}, SetLease(s, st, c)
    PROVE  /\ row' \in [Slots -> {"available", "leased", "dirty"}]
           /\ holder' \in [Slots -> Cards \union {NoCard}]
BY DEF RestTyped, SetLease

\* The request of a ship is about a run.
ShipsRun == shipper.at # "idle" => shipper.run \in Runs

LEMMA StepRestTyped == ASSUME GoodInv, ShipsRun, Next PROVE RestTyped'
<1> USE DEF RestTyped
<1>1. RestTyped /\ run \in [Runs -> RunStates] /\ \A r \in Runs : run[r] \in RunStates
  BY GoodInvIs DEF GoodInv, TypeOK
<1>2. \A r \in Runs : run[r].card \in Cards \union {NoCard} /\ run[r].head \in Commits
  BY <1>1 DEF RunStates
<1>3. Free # {} => Lowest(Free) \in Slots
  BY LowestIn DEF Free
<1>4. 0 \in Commits /\ (made < MaxCommits => made + 1 \in Commits)
  BY <1>1 DEF Commits
<1>5. CASE \E r \in Runs : Moves(r)
  BY <1>1, <1>5, MovesDo DEF slotVars, treeVars, shipVars, humanVars
<1>6. CASE \E r \in Runs : Lease(r)
  <2>1. PICK r \in Runs : Lease(r)
    BY <1>6
  <2>2. SetLease(Lowest(Free), "leased", run[r].card)
    BY <2>1 DEF Lease
  <2>3. /\ row' \in [Slots -> {"available", "leased", "dirty"}]
        /\ holder' \in [Slots -> Cards \union {NoCard}]
    BY <1>1, <1>2, <2>2, LeaseTyped
  <2> QED
    BY <1>1, <2>1, <2>3 DEF Lease, treeVars, shipVars, humanVars
<1>7. CASE \E r \in Runs : Checkout(r) \/ Resets(r)
  <2>1. PICK r \in Runs : Checkout(r) \/ Resets(r)
    BY <1>7
  <2>2. tree' \in [Slots -> Commits] /\ edits' \in [Slots -> Cards \union {NoCard}]
    BY <1>1, <1>2, <1>4, <2>1 DEF Checkout, Resets, Wipe
  <2> QED
    BY <1>1, <2>1, <2>2 DEF Checkout, Resets, slotVars, shipVars, humanVars
<1>8. CASE \E r \in Runs : Raise(r)
  BY <1>1, <1>8 DEF Raise, slotVars, treeVars, shipVars
<1>9. CASE \E r \in Runs : Frees(r)
  <2>1. PICK r \in Runs : Frees(r)
    BY <1>9
  <2>2. SetLease(run[r].slot, "available", NoCard)
    BY <2>1 DEF Frees
  <2>3. /\ row' \in [Slots -> {"available", "leased", "dirty"}]
        /\ holder' \in [Slots -> Cards \union {NoCard}]
    BY <1>1, <2>2, LeaseTyped
  <2> QED
    BY <1>1, <2>1, <2>3 DEF Frees, treeVars, shipVars, humanVars
<1>10. CASE \E r \in Runs : AgentCommits(r)
  <2>1. PICK r \in Runs : AgentCommits(r)
    BY <1>10
  <2>2. tree' = [tree EXCEPT ![run[r].slot] = made + 1] /\ made' = made + 1 /\ made + 1 \in Commits
    BY <1>4, <2>1 DEF AgentCommits
  <2>3. tree' \in [Slots -> Commits]
    BY <1>1, <2>2
  <2> QED
    BY <1>1, <2>1, <2>2, <2>3 DEF AgentCommits, slotVars, shipVars, humanVars
<1>11. CASE \E r \in Runs : \E i \in 1 .. Len(run[r].findings) : ResolveFinding(r, i)
  BY <1>1, <1>11 DEF ResolveFinding, slotVars, treeVars, shipVars
<1>12. CASE CountOpen \/ ClearItem
  <2>1. human.run \in Runs \union {0} /\ \A p \in {"clear", "idle"} :
           [human EXCEPT !.at = p] \in [at : {"idle", "count", "clear"}, run : Runs \union {0}]
    BY <1>1
  <2> QED
    BY <1>1, <1>12, <2>1 DEF CountOpen, ClearItem, slotVars, treeVars, shipVars
<1>13. \A p \in Handlers : [shipper EXCEPT !.at = p] \in [at : Handlers, run : Runs \union {0}]
  BY <1>1
<1>14. CASE MergeRefused \/ Merges
  <2>1. shipper' \in [at : Handlers, run : Runs \union {0}]
    BY <1>13, <1>14 DEF MergeRefused, Merges, Handlers
  <2> QED
    BY <1>1, <1>14, <2>1 DEF MergeRefused, Merges, slotVars, treeVars, humanVars
<1>15. CASE ShipResets
  <2>1. shipper' \in [at : Handlers, run : Runs \union {0}]
    BY <1>13, <1>15 DEF ShipResets, Handlers
  <2>2. tree' \in [Slots -> Commits] /\ edits' \in [Slots -> Cards \union {NoCard}]
    BY <1>1, <1>4, <1>15 DEF ShipResets, Wipe
  <2> QED
    BY <1>1, <1>15, <2>1, <2>2 DEF ShipResets, slotVars, humanVars
<1>16. CASE ShipFrees
  <2>1. shipper' \in [at : Handlers, run : Runs \union {0}]
    BY <1>13, <1>16 DEF ShipFrees, Handlers
  <2>2. /\ row' \in [Slots -> {"available", "leased", "dirty"}]
        /\ holder' \in [Slots -> Cards \union {NoCard}]
    BY <1>1, <1>16, LeaseTyped DEF ShipFrees
  <2> QED
    BY <1>1, <1>16, <2>1, <2>2 DEF ShipFrees, treeVars, humanVars
<1>17. CASE \E c \in Cards : GateRun(c)
  BY <1>1, <1>17 DEF GateRun, slotVars, treeVars, shipVars, humanVars
<1>18. CASE \E c \in Cards : ShipLocally(c) \/ ShipAsPr(c) \/ Merge(c)
  <2>1. PICK c \in Cards : ShipLocally(c) \/ ShipAsPr(c) \/ Merge(c)
    BY <1>18
  <2>2. counts' \in [ships : Nat, cancels : Nat, crashes : Nat]
    <3>1. counts' = [counts EXCEPT !.ships = @ + 1]
      BY <2>1 DEF ShipLocally, ShipAsPr, Merge, Ships
    <3> QED
      BY <1>1, <3>1
  <2>3. shipper' \in [at : Handlers, run : Runs \union {0}]
    BY <1>1, <2>1 DEF ShipLocally, ShipAsPr, Merge, Latest, Handlers
  <2> QED
    BY <1>1, <2>1, <2>2, <2>3 DEF ShipLocally, ShipAsPr, Merge, slotVars, treeVars, humanVars
<1>19. CASE \E c \in Cards : Dispatch(c)
  <2>1. PICK c \in Cards : Dispatch(c)
    BY <1>19
  <2>2. SetLease(Lowest(Free), "leased", c) /\ Lowest(Free) \in Slots
    BY <1>3, <2>1 DEF Dispatch
  <2>3. /\ row' \in [Slots -> {"available", "leased", "dirty"}]
        /\ holder' \in [Slots -> Cards \union {NoCard}]
    BY <1>1, <2>2, LeaseTyped
  <2>4. author' \in [Cards -> Slots \union {NoSlot}]
    BY <1>1, <2>1, <2>2 DEF Dispatch
  <2> QED
    BY <1>1, <2>1, <2>3, <2>4 DEF Dispatch, treeVars, shipVars, humanVars
<1>20. CASE \E c \in Cards : AuthorEdits(c) \/ AuthorCommits(c)
  BY <1>1, <1>4, <1>20 DEF AuthorEdits, AuthorCommits, slotVars, shipVars, humanVars
<1>21. CASE \E c \in Cards : Cancel(c)
  <2>1. PICK c \in Cards : Cancel(c)
    BY <1>21
  <2>2. counts' \in [ships : Nat, cancels : Nat, crashes : Nat]
    <3>1. counts' = [counts EXCEPT !.cancels = @ + 1]
      BY <2>1 DEF Cancel
    <3> QED
      BY <1>1, <3>1
  <2>3. row' \in [Slots -> {"available", "leased", "dirty"}]
    BY <1>1, <2>1 DEF Cancel
  <2>4. holder' \in [Slots -> Cards \union {NoCard}]
    BY <1>1, <2>1 DEF Cancel
  <2>5. tree' \in [Slots -> Commits]
    BY <1>1, <1>4, <2>1 DEF Cancel
  <2>6. author' \in [Cards -> Slots \union {NoSlot}]
    BY <1>1, <2>1 DEF Cancel
  <2> QED
    BY <1>1, <2>1, <2>2, <2>3, <2>4, <2>5, <2>6 DEF Cancel, shipVars, humanVars
<1>22. CASE Crash
  <2>1. counts' \in [ships : Nat, cancels : Nat, crashes : Nat]
    <3>1. counts' = [counts EXCEPT !.crashes = @ + 1]
      BY <1>22 DEF Crash
    <3> QED
      BY <1>1, <3>1
  <2>2. author' \in [Cards -> Slots \union {NoSlot}]
    BY <1>22 DEF Crash
  <2>3. /\ human' \in [at : {"idle", "count", "clear"}, run : Runs \union {0}]
        /\ shipper' \in [at : Handlers, run : Runs \union {0}]
    BY <1>22 DEF Crash, Handlers
  <2> QED
    BY <1>1, <1>22, <2>1, <2>2, <2>3 DEF Crash, slotVars, treeVars
<1>23. CASE ShipParks
  <2>1. shipper' \in [at : Handlers, run : Runs \union {0}]
    BY <1>13, <1>23 DEF ShipParks, Handlers
  <2>2. holder' \in [Slots -> Cards \union {NoCard}]
    <3>1. run[shipper.run].card \in Cards \union {NoCard}
      BY <1>2, <1>23 DEF ShipParks, ShipsRun
    <3> QED
      BY <1>1, <1>23, <3>1 DEF ShipParks, SetLease
  <2>3. row' \in [Slots -> {"available", "leased", "dirty"}]
    BY <1>1, <1>23 DEF ShipParks, SetLease
  <2> QED
    BY <1>1, <1>23, <2>1, <2>2, <2>3 DEF ShipParks, treeVars, humanVars
<1> QED
  BY <1>5, <1>6, <1>7, <1>8, <1>9, <1>10, <1>11, <1>12, <1>14, <1>15, <1>16, <1>17, <1>18, <1>19,
     <1>20, <1>21, <1>22, <1>23, NextCases

-----------------------------------------------------------------------------
(* The requests under way, and what was asked of the human.                 *)

RequestInv ==
    /\ shipper.at # "idle" =>
          /\ shipper.run \in Runs /\ run[shipper.run].status = "passed"
          /\ run[shipper.run].slot # NoSlot
    /\ shipper.at \in {"reset", "free", "park"} => shipper.run \in returned
    /\ human.at # "idle" =>
          /\ human.run \in Runs
          /\ \E i \in 1 .. Len(run[human.run].findings) : ~run[human.run].findings[i].open
    /\ \A r \in returned : r \in Runs /\ run[r].status = "passed"
    /\ \A p \in shipped : p[1] \in Runs /\ run[p[1]].status = "passed"

Requests == <<shipper, human, returned, shipped>>

\* What passed, or was closed, stays so.
LEMMA FollowedStays ==
    ASSUME GoodInv, RunsFollow, NEW r \in Runs
    PROVE  /\ run[r].status = "passed" =>
                 run'[r].status = "passed" /\ run'[r].slot = run[r].slot
           /\ (\E i \in 1 .. Len(run[r].findings) : ~run[r].findings[i].open) =>
                 \E i \in 1 .. Len(run'[r].findings) : ~run'[r].findings[i].open
<1>1. Follows(run[r], run'[r])
  BY DEF RunsFollow
<1>2. Len(run[r].findings) \in Nat /\ Len(run'[r].findings) \in Nat
  BY ListOf DEF RunsFollow, GoodInv, TypeOK
<1>3. ASSUME NEW i \in 1 .. Len(run[r].findings), ~run[r].findings[i].open
      PROVE  i \in 1 .. Len(run'[r].findings) /\ ~run'[r].findings[i].open
  BY <1>1, <1>2, <1>3 DEF Follows
<1> QED
  BY <1>1, <1>3 DEF Follows

LEMMA RequestsStay ==
    ASSUME GoodInv, RequestInv, RunsFollow, UNCHANGED Requests PROVE RequestInv'
BY FollowedStays DEF RequestInv, Requests

LEMMA ShipDoes ==
    ASSUME NEW r \in Runs, Ships(r)
    PROVE  shipper.at = "idle" /\ run[r].slot # NoSlot
BY DEF Ships

LEMMA StepRequest == ASSUME GoodInv, RequestInv, Next PROVE RequestInv'
<1>1. RunsFollow
  BY StepFollows
<1>2. RestTyped
  BY GoodInvIs
<1>3. CASE UNCHANGED Requests
  BY <1>1, <1>3, RequestsStay
<1>4. CASE \E r \in Runs : \/ Moves(r) \/ Lease(r) \/ Checkout(r) \/ Raise(r) \/ Resets(r)
                           \/ Frees(r) \/ AgentCommits(r)
  <2>1. UNCHANGED Requests
    BY <1>4, MovesDo DEF Lease, Checkout, Raise, Resets, Frees, AgentCommits, Requests, shipVars,
                         humanVars
  <2> QED
    BY <1>3, <2>1
<1>5. CASE \E c \in Cards : \/ GateRun(c) \/ Dispatch(c) \/ AuthorEdits(c) \/ AuthorCommits(c)
                            \/ Cancel(c)
  <2>1. UNCHANGED Requests
    BY <1>5 DEF GateRun, Dispatch, AuthorEdits, AuthorCommits, Cancel, Requests, shipVars, humanVars
  <2> QED
    BY <1>3, <2>1
<1>6. CASE \E r \in Runs : \E i \in 1 .. Len(run[r].findings) : ResolveFinding(r, i)
  <2> PICK r \in Runs : \E i \in 1 .. Len(run[r].findings) : ResolveFinding(r, i)
    BY <1>6
  <2>1. PICK i \in 1 .. Len(run[r].findings) : ResolveFinding(r, i)
    OBVIOUS
  <2>2. PICK y \in RunStates : Becomes(r, y) /\ Len(y.findings) = Len(run[r].findings)
                               /\ ~y.findings[i].open
    BY <2>1, ResolveMoves
  <2>3. run'[r] = y
    BY <2>2, OthersStay DEF GoodInv
  <2>4. human' = [at |-> "count", run |-> r] /\ UNCHANGED <<shipper, returned, shipped>>
    BY <2>1 DEF ResolveFinding, shipVars
  <2> QED
    BY <1>1, <2>2, <2>3, <2>4, FollowedStays DEF RequestInv
<1>7. CASE CountOpen \/ ClearItem
  <2>1. run' = run /\ human'.run = human.run /\ human.at # "idle"
        /\ UNCHANGED <<shipper, returned, shipped>>
    BY <1>2, <1>7 DEF CountOpen, ClearItem, shipVars, RestTyped
  <2> QED
    BY <2>1 DEF RequestInv
<1>8. CASE \E c \in Cards : ShipLocally(c) \/ ShipAsPr(c) \/ Merge(c)
  <2>1. PICK c \in Cards : ShipLocally(c) \/ ShipAsPr(c) \/ Merge(c)
    BY <1>8
  <2>2. human' = human
    BY <2>1 DEF ShipLocally, ShipAsPr, Merge, humanVars
  <2>3. CASE ShipLocally(c)
    <3>1. PICK r \in Latest(c) :
             /\ Ships(r) /\ run[r].status = "passed" /\ run' = run
             /\ shipped' = shipped \union {<<r, run[r].head>>}
             /\ shipper' = [at |-> "reset", run |-> r] /\ returned' = returned \union {r}
      BY <2>3 DEF ShipLocally
    <3>2. r \in Runs /\ run[r].slot # NoSlot
      BY <3>1, ShipOf, ShipDoes
    <3> QED
      BY <2>2, <3>1, <3>2 DEF RequestInv
  <2>4. CASE ShipAsPr(c)
    <3>1. PICK r \in Latest(c) :
             /\ Ships(r) /\ run[r].status = "passed"
             /\ shipped' = shipped \union {<<r, tree[run[r].slot]>>}
             /\ shipper' = shipper /\ returned' = returned
      BY <2>4 DEF ShipAsPr
    <3>2. r \in Runs
      BY <3>1, ShipOf
    <3>3. \A q \in Runs : run[q].status = "passed" =>
             run'[q].status = "passed" /\ run'[q].slot = run[q].slot
      BY <1>1, FollowedStays
    <3>4. \A p \in shipped' : p[1] \in Runs /\ run'[p[1]].status = "passed"
      BY <3>1, <3>2, <3>3 DEF RequestInv
    <3>5. human.at # "idle" =>
             \E i \in 1 .. Len(run'[human.run].findings) : ~run'[human.run].findings[i].open
      BY <1>1, FollowedStays DEF RequestInv
    <3>6. \A q \in returned : q \in Runs /\ run'[q].status = "passed"
      BY <3>3 DEF RequestInv
    <3>7. shipper.at # "idle" =>
             /\ shipper.run \in Runs /\ run'[shipper.run].status = "passed"
             /\ run'[shipper.run].slot # NoSlot
      BY <3>3 DEF RequestInv
    <3> QED
      BY <2>2, <3>1, <3>4, <3>5, <3>6, <3>7 DEF RequestInv
  <2>5. CASE Merge(c)
    <3>1. PICK r \in Latest(c) :
             /\ Ships(r) /\ run[r].pr /\ run' = run
             /\ shipper' = [at |-> "ci", run |-> r] /\ shipped' = shipped /\ returned' = returned
      BY <2>5 DEF Merge
    <3>2. r \in Runs /\ run[r].slot # NoSlot
      BY <3>1, ShipOf, ShipDoes
    <3>3. run[r].status = "passed"
      BY <3>1, <3>2 DEF GoodInv, Good, Placed
    <3> QED
      BY <2>2, <3>1, <3>2, <3>3 DEF RequestInv
  <2> QED
    BY <2>1, <2>3, <2>4, <2>5
<1>9. CASE MergeRefused \/ Merges \/ ShipResets \/ ShipFrees \/ ShipParks
  <2>1. run' = run /\ human' = human /\ shipped' = shipped /\ shipper.at # "idle"
        /\ shipper'.run = shipper.run
        /\ \/ shipper'.at = "idle" /\ returned' = returned
           \/ shipper'.at \in {"reset", "park"} /\ returned' = returned \union {shipper.run}
           \/ shipper'.at = "free" /\ shipper.at = "reset" /\ returned' = returned
    BY <1>2, <1>9 DEF MergeRefused, Merges, ShipResets, ShipFrees, ShipParks, humanVars, RestTyped
  <2> QED
    BY <2>1 DEF RequestInv
<1>10. CASE Crash
  <2>1. human'.at = "idle" /\ shipper'.at = "idle" /\ UNCHANGED <<returned, shipped>>
    BY <1>10 DEF Crash
  <2> QED
    BY <1>1, <2>1, FollowedStays DEF RequestInv
<1> QED
  BY <1>4, <1>5, <1>6, <1>7, <1>8, <1>9, <1>10, NextCases

\* The types are kept together with what goes with each place and request.
ShapeInv == GoodInv /\ RequestInv

LEMMA StepShape == ASSUME ShapeInv, [Next]_vars PROVE ShapeInv'
<1>1. CASE Next
  <2>1. RunsFollow
    BY <1>1, StepFollows DEF ShapeInv
  <2>2. RestTyped'
    BY <1>1, StepRestTyped DEF ShapeInv, RequestInv, ShipsRun
  <2>3. (run \in [Runs -> RunStates] /\ RestTyped /\ \A r \in Runs : Good(run[r]))'
    BY <2>1, <2>2 DEF RunsFollow
  <2>4. GoodInv'
    BY <2>3, GoodInvIs, PTL
  <2>5. RequestInv'
    BY <1>1, StepRequest DEF ShapeInv
  <2> QED
    BY <2>4, <2>5 DEF ShapeInv
<1>2. CASE UNCHANGED vars
  <2>1. RestTyped' /\ run' = run
    BY <1>2, GoodInvIs DEF ShapeInv, RestTyped, vars, slotVars, treeVars, shipVars, humanVars
  <2>2. (run \in [Runs -> RunStates] /\ RestTyped /\ \A r \in Runs : Good(run[r]))'
    BY <2>1, GoodInvIs DEF ShapeInv
  <2>3. GoodInv'
    BY <2>2, GoodInvIs, PTL
  <2> QED
    BY <1>2, <2>3 DEF ShapeInv, RequestInv, vars, shipVars, humanVars
<1> QED
  BY <1>1, <1>2

LEMMA InitShape == Init => ShapeInv
BY InitGood DEF Init, ShapeInv, RequestInv

LEMMA ShapeHolds == Spec => []ShapeInv
BY InitShape, StepShape, PTL DEF Spec

\* Every variable of the gate keeps its type.
THEOREM GateTypeCorrect == Spec => []TypeOK
<1>1. ShapeInv => TypeOK
  BY DEF ShapeInv, GoodInv
<1> QED
  BY <1>1, ShapeHolds, PTL

\* A finding the run noticed is never open again, and one finding is closed.
Settled(r) ==
    /\ \A i \in 1 .. run[r].noticed : ~run[r].findings[i].open
    /\ \E i \in 1 .. Len(run[r].findings) : ~run[r].findings[i].open

\* A run that did not pass has its item, and no request is about to close it,
\* unless its findings are settled.
Asks(r) ==
    /\ Raised(run[r]) /\ r \notin crossed
    /\ r \notin asked \/ human = [at |-> "clear", run |-> r]
    => Settled(r)

AskInv == \A r \in Runs : Asks(r)

\* No item is raised for the run in this step.
RaisesNone(r) == Raised(run'[r]) => Raised(run[r]) /\ run'[r].noticed = run[r].noticed

LEMMA StepRaises ==
    ASSUME GoodInv, Next, NEW q \in Runs PROVE RaisesNone(q) \/ Raise(q)
<1>1. TypeOK /\ \A r \in Runs : Good(run[r])
  BY DEF GoodInv
<1>2. ASSUME NEW r \in Runs, NEW y \in RunStates, Becomes(r, y),
             Raised(y) => Raised(run[r]) /\ y.noticed = run[r].noticed
      PROVE  RaisesNone(q)
  BY <1>1, <1>2, OthersStay DEF RaisesNone
<1>3. CASE \E r \in Runs : Moves(r)
  BY <1>2, <1>3, MovesDo DEF Moved, Kept
<1>4. CASE \E r \in Runs : Lease(r)
  BY <1>2, <1>4, LeasePasses DEF Raised
<1>5. CASE \E r \in Runs : Checkout(r)
  BY <1>2, <1>5, CheckoutPasses DEF Raised, Passes
<1>6. CASE \E r \in Runs : Raise(r)
  <2>1. PICK r \in Runs : Raise(r)
    BY <1>6
  <2>2. q # r => run'[q] = run[q]
    BY <1>1, <2>1 DEF Raise, Go, TypeOK
  <2> QED
    BY <2>1, <2>2 DEF RaisesNone
<1>7. CASE \E r \in Runs : Resets(r) \/ Frees(r)
  <2>1. PICK r \in Runs : Resets(r) \/ Frees(r)
    BY <1>7
  <2>2. PICK y \in RunStates : Passes(r, y, "free") \/ Passes(r, y, "done")
    BY <2>1, EndPasses DEF Resets, Frees
  <2>3. Raised(run[r]) /\ y.noticed = run[r].noticed
    BY <1>1, <2>1, <2>2 DEF Resets, Frees, Raised, Good, Placed, Passes, SameRun, SameFindings
  <2> QED
    BY <1>2, <2>2, <2>3 DEF Passes
<1>8. CASE \E r \in Runs : \E i \in 1 .. Len(run[r].findings) : ResolveFinding(r, i)
  BY <1>2, <1>8, ResolveMoves DEF Kept
<1>9. CASE \E c \in Cards : GateRun(c)
  BY <1>2, <1>9, GateRunMoves DEF Moved, Kept
<1>10. CASE run' = run
  BY <1>10 DEF RaisesNone
<1>11. CASE \E c \in Cards : ShipAsPr(c)
  <2>1. PICK c \in Cards : ShipAsPr(c)
    BY <1>11
  <2>2. PICK r \in Latest(c) :
           /\ Ships(r) /\ run[r].status = "passed"
           /\ run' = run \/ run' = [run EXCEPT ![r].pr = TRUE]
    BY <2>1 DEF ShipAsPr
  <2>3. r \in Runs /\ run[r].slot # NoSlot
    BY <2>2, ShipOf DEF Ships
  <2> QED
    BY <1>2, <1>10, <2>2, <2>3, PrPasses DEF Moved, Kept
<1>12. CASE Crash \/ \E c \in Cards : Cancel(c)
  BY <1>12, CrashMoves, CancelMoves DEF Kept, RaisesNone
<1>13. \/ CountOpen \/ ClearItem \/ MergeRefused \/ Merges \/ ShipResets \/ ShipFrees \/ ShipParks
       \/ \E r \in Runs : AgentCommits(r)
       \/ \E c \in Cards : \/ ShipLocally(c) \/ Merge(c) \/ Dispatch(c) \/ AuthorEdits(c)
                           \/ AuthorCommits(c)
       => run' = run
  BY DEF CountOpen, ClearItem, MergeRefused, Merges, ShipResets, ShipFrees, ShipParks,
         AgentCommits, ShipLocally, Merge, Dispatch, AuthorEdits, AuthorCommits
<1> QED
  BY <1>3, <1>4, <1>5, <1>6, <1>7, <1>8, <1>9, <1>10, <1>11, <1>12, <1>13, NextCases

LEMMA SettledStays ==
    ASSUME GoodInv, RunsFollow, NEW r \in Runs, Settled(r), run'[r].noticed = run[r].noticed
    PROVE  Settled(r)'
<1>1. \E i \in 1 .. Len(run'[r].findings) : ~run'[r].findings[i].open
  BY FollowedStays DEF Settled
<1>2. ASSUME NEW i \in 1 .. run[r].noticed PROVE ~run'[r].findings[i].open
  <2>1. run[r].noticed \in Nat /\ Len(run[r].findings) \in Nat /\ run[r].noticed <= Len(run[r].findings)
    BY ListOf DEF GoodInv, TypeOK
  <2>2. i \in 1 .. Len(run[r].findings) /\ ~run[r].findings[i].open
    BY <2>1 DEF Settled
  <2> QED
    BY <2>2 DEF RunsFollow, Follows
<1> QED
  BY <1>1, <1>2 DEF Settled

LEMMA AsksStays ==
    ASSUME GoodInv, RunsFollow, NEW r \in Runs, Asks(r), RaisesNone(r),
           crossed \subseteq crossed', asked \subseteq asked' \union {q \in Runs : q # r},
           human' = [at |-> "clear", run |-> r] => human = [at |-> "clear", run |-> r]
    PROVE  Asks(r)'
BY SettledStays DEF Asks, RaisesNone

LEMMA StepAsk == ASSUME ShapeInv, AskInv, Next PROVE AskInv'
<1>1. GoodInv /\ RestTyped /\ RequestInv /\ RunsFollow
  BY StepFollows, GoodInvIs DEF ShapeInv
<1> SUFFICES ASSUME NEW q \in Runs PROVE Asks(q)'
  BY DEF AskInv
<1>2. Asks(q) /\ (RaisesNone(q) \/ Raise(q))
  BY <1>1, StepRaises DEF AskInv
<1>3. CASE Raise(q)
  BY <1>1, <1>3 DEF Raise, Asks, RestTyped
<1>4. CASE RaisesNone(q) /\ asked' = asked /\ crossed \subseteq crossed' /\ human' = human
  BY <1>1, <1>2, <1>4, AsksStays
<1>5. CASE RaisesNone(q) /\ \E r \in Runs : Raise(r)
  <2>1. asked \subseteq asked' /\ crossed \subseteq crossed' /\ human' = human
    BY <1>5 DEF Raise
  <2> QED
    BY <1>1, <1>2, <1>5, <2>1, AsksStays
<1>6. CASE RaisesNone(q) /\ \E r \in Runs : \E i \in 1 .. Len(run[r].findings) : ResolveFinding(r, i)
  <2>1. asked' = asked /\ crossed' = crossed /\ human'.at = "count"
    BY <1>6 DEF ResolveFinding
  <2> QED
    BY <1>1, <1>2, <1>6, <2>1, AsksStays
<1>7. CASE RaisesNone(q) /\ CountOpen
  <2>1. asked' = asked /\ crossed' = crossed /\ run' = run
        /\ human' = [human EXCEPT !.at = IF OpenOf(human.run) = {} THEN "clear" ELSE "idle"]
    BY <1>7 DEF CountOpen
  <2>2. CASE human' = [at |-> "clear", run |-> q]
    <3>1. human.run = q /\ OpenOf(q) = {} /\ human.at = "count"
      BY <1>1, <1>7, <2>1, <2>2 DEF RestTyped, CountOpen
    <3>2. \E i \in 1 .. Len(run[q].findings) : ~run[q].findings[i].open
      BY <1>1, <3>1 DEF RequestInv
    <3>3. \A i \in 1 .. run[q].noticed : i \in 1 .. Len(run[q].findings)
      BY <1>1, ListOf DEF GoodInv, TypeOK
    <3>4. \A i \in 1 .. run[q].noticed : ~run[q].findings[i].open
      BY <3>1, <3>3 DEF OpenOf
    <3> QED
      BY <2>1, <3>2, <3>4 DEF Asks, Settled
  <2>3. CASE human' # [at |-> "clear", run |-> q]
    BY <1>1, <1>2, <1>7, <2>1, <2>3, AsksStays
  <2> QED
    BY <2>2, <2>3
<1>8. CASE RaisesNone(q) /\ ClearItem
  <2>1. asked' = asked \ {human.run} /\ crossed' = crossed /\ run' = run /\ human'.at = "idle"
        /\ human = [at |-> "clear", run |-> human.run]
    BY <1>1, <1>8 DEF ClearItem, RestTyped
  <2>2. CASE q = human.run
    BY <1>2, <2>1, <2>2 DEF Asks, Settled
  <2>3. CASE q # human.run
    BY <1>2, <2>1, <2>3 DEF Asks, Settled
  <2> QED
    BY <2>2, <2>3
<1>9. CASE RaisesNone(q) /\ Crash
  <2>1. asked' = asked /\ crossed' = crossed /\ human'.at = "idle"
    BY <1>9 DEF Crash
  <2> QED
    BY <1>1, <1>2, <1>9, <2>1, AsksStays
<1>10. \/ \E r \in Runs : \/ Moves(r) \/ Lease(r) \/ Checkout(r) \/ Resets(r) \/ Frees(r)
                          \/ AgentCommits(r)
       \/ MergeRefused \/ Merges \/ ShipResets \/ ShipFrees \/ ShipParks
       \/ \E c \in Cards :
                \/ GateRun(c) \/ ShipLocally(c) \/ ShipAsPr(c) \/ Merge(c)
                \/ Dispatch(c) \/ AuthorEdits(c) \/ AuthorCommits(c) \/ Cancel(c)
       => asked' = asked /\ crossed' = crossed /\ human' = human
  BY <1>1, MovesDo DEF Lease, Checkout, Resets, Frees, AgentCommits, MergeRefused, Merges,
         ShipResets, ShipFrees, ShipParks, GateRun, ShipLocally, ShipAsPr, Merge, Dispatch,
         AuthorEdits, AuthorCommits, Cancel, humanVars
<1> QED
  BY <1>2, <1>3, <1>4, <1>5, <1>6, <1>7, <1>8, <1>9, <1>10, NextCases

\* "findings touching intent become Needs You items": a run that did not pass has
\* its item as long as what it noticed is open (gate.rs, finish_gate_run and
\* gate.resolve_finding).
THEOREM HumanKeepsAsked == Spec => []HumanIsAsked
<1>1. Init => AskInv
  BY NoRowIs DEF Init, AskInv, Asks, Raised
<1>2. ShapeInv /\ AskInv /\ [Next]_vars => AskInv'
  <2>1. ASSUME ShapeInv, AskInv, UNCHANGED vars PROVE AskInv'
    BY <2>1 DEF AskInv, Asks, Settled, vars, humanVars
  <2> QED
    BY <2>1, StepAsk
<1>3. ShapeInv /\ AskInv => HumanIsAsked
  <2> SUFFICES ASSUME ShapeInv, AskInv, NEW r \in Runs,
                      run[r].at = "done", run[r].status \in {"escalated", "failed"}, r \notin crossed,
                      \/ \E i \in 1 .. run[r].noticed : run[r].findings[i].open
                      \/ \A i \in 1 .. Len(run[r].findings) : run[r].findings[i].open
               PROVE  r \in asked
    BY DEF HumanIsAsked
  <2>1. ~Settled(r)
    BY DEF Settled
  <2> QED
    BY <2>1 DEF AskInv, Asks, Raised
<1> QED
  BY <1>1, <1>2, <1>3, ShapeHolds, PTL DEF Spec

-----------------------------------------------------------------------------
(* Worktrees.                                                               *)

\* Nobody was disturbed before this step, if nobody is after it.
LEMMA UndisturbedBefore ==
    ASSUME GoodInv, Next, Undisturbed'
    PROVE  Undisturbed /\ \A c \in Cards : ~Cancel(c)
<1>1. counts.cancels \in Nat /\ counts.ships \in Nat /\ counts.crashes \in Nat
      /\ counts \in [ships : Nat, cancels : Nat, crashes : Nat]
  BY GoodInvIs DEF RestTyped
<1>2. counts'.cancels = 0 /\ ~stale'
  BY DEF Undisturbed
<1>3. \A c \in Cards : ~Cancel(c)
  <2> SUFFICES ASSUME NEW c \in Cards, Cancel(c) PROVE FALSE
    OBVIOUS
  <2>1. counts' = [counts EXCEPT !.cancels = @ + 1]
    BY DEF Cancel
  <2> QED
    BY <1>1, <1>2, <2>1
<1>4. CASE UNCHANGED <<counts, stale>>
  BY <1>2, <1>3, <1>4 DEF Undisturbed
<1>5. CASE \E c \in Cards : ShipLocally(c) \/ ShipAsPr(c) \/ Merge(c)
  <2>1. counts' = [counts EXCEPT !.ships = @ + 1] /\ (stale => stale')
    BY <1>5 DEF ShipLocally, ShipAsPr, Merge, Ships
  <2>2. counts'.cancels = counts.cancels
    BY <1>1, <2>1
  <2> QED
    BY <1>2, <1>3, <2>1, <2>2 DEF Undisturbed
<1>6. CASE Crash
  <2>1. counts' = [counts EXCEPT !.crashes = @ + 1] /\ stale' = stale
    BY <1>6 DEF Crash
  <2>2. counts'.cancels = counts.cancels
    BY <1>1, <2>1
  <2> QED
    BY <1>2, <1>3, <2>1, <2>2 DEF Undisturbed
<1>7. \/ CountOpen \/ ClearItem \/ MergeRefused \/ Merges \/ ShipResets \/ ShipFrees
      \/ ShipParks
      \/ \E r \in Runs :
           \/ Moves(r) \/ Lease(r) \/ Checkout(r) \/ Raise(r) \/ Resets(r) \/ Frees(r)
           \/ AgentCommits(r)
           \/ \E i \in 1 .. Len(run[r].findings) : ResolveFinding(r, i)
      \/ \E c \in Cards : GateRun(c) \/ Dispatch(c) \/ AuthorEdits(c) \/ AuthorCommits(c)
      => UNCHANGED <<counts, stale>>
  BY MovesDo DEF CountOpen, ClearItem, MergeRefused, Merges, ShipResets, ShipFrees, ShipParks,
     Lease, Checkout, Raise, Resets, Frees, AgentCommits, ResolveFinding, GateRun, Dispatch,
     AuthorEdits, AuthorCommits, shipVars
<1> QED
  BY <1>3, <1>4, <1>5, <1>6, <1>7, NextCases

\* A ship has begun to return the run's worktree, and is at it.
Returning(r) == shipper.run = r /\ shipper.at \in {"reset", "free", "park"}

\* The worktree is the run's.
Using(r) ==
    /\ run[r].slot # NoSlot
    /\ \/ run[r].at \in Held
       \/ run[r].status = "passed" /\ (r \notin returned \/ Returning(r))

\* The run's worktree is leased to its card, clean, and nobody else's.
Apart(r) ==
    Using(r) =>
        /\ row[run[r].slot] = "leased" /\ holder[run[r].slot] = run[r].card
        /\ edits[run[r].slot] = NoCard
        /\ \A c \in Cards : author[c] # run[r].slot
        /\ \A q \in Runs \ {r} : Using(q) => run[q].slot # run[r].slot

PoolInv ==
    /\ \A c \in Cards : author[c] # NoSlot => row[author[c]] = "leased"
    /\ \A s \in Slots : edits[s] # NoCard => row[s] # "available"
    /\ lost = {}

\* A merge that waits for the PR's checks is of a run not shipped yet.
MergeInv == shipper.at = "ci" => shipper.run \notin returned

ApartInv == (\A r \in Runs : Apart(r)) /\ PoolInv /\ MergeInv

\* No worktree becomes the run's.
UsesNone(r) ==
    Using(r)' => Using(r) /\ run'[r].slot = run[r].slot /\ run'[r].card = run[r].card

\* A step of a run that leaves the ships alone.
LEMMA OneUses ==
    ASSUME GoodInv, NEW r \in Runs, NEW y \in RunStates, Becomes(r, y),
           Holds(y) => /\ y.slot = run[r].slot /\ y.card = run[r].card
                       /\ run[r].at \in Held \/ (run[r].status = "passed" /\ y.at \notin Held),
           UNCHANGED <<shipper, returned>>, NEW q \in Runs
    PROVE  UsesNone(q)
<1>1. run'[r] = y /\ \A p \in Runs : p # r => run'[p] = run[p]
  BY OthersStay DEF GoodInv
<1>2. CASE q # r
  <2>1. run'[q] = run[q]
    BY <1>1, <1>2
  <2> QED
    BY <2>1 DEF UsesNone, Using, Returning
<1>3. CASE q = r
  BY <1>1, <1>3 DEF UsesNone, Using, Returning, Holds
<1> QED
  BY <1>2, <1>3

LEMMA StepUses ==
    ASSUME ShapeInv, MergeInv, Next, Undisturbed', NEW q \in Runs
    PROVE  UsesNone(q) \/ Lease(q)
<1>1. GoodInv /\ TypeOK /\ RestTyped /\ \A r \in Runs : Good(run[r])
  BY GoodInvIs DEF ShapeInv, GoodInv
<1>2. \A c \in Cards : ~Cancel(c)
  BY <1>1, UndisturbedBefore
<1>3. CASE run' = run /\ UNCHANGED <<shipper, returned>>
  BY <1>3 DEF UsesNone, Using, Returning
<1>4. CASE \E r \in Runs : Moves(r)
  BY <1>1, <1>4, MovesDo, OneUses DEF Moved, Kept, shipVars
<1>5. CASE \E r \in Runs : Lease(r)
  <2>1. PICK r \in Runs : Lease(r)
    BY <1>5
  <2>2. q # r => run'[q] = run[q]
    BY <1>1, <2>1 DEF Lease, TypeOK
  <2>3. UNCHANGED <<shipper, returned>>
    BY <2>1 DEF Lease, shipVars
  <2> QED
    BY <2>1, <2>2, <2>3 DEF UsesNone, Using, Returning
<1>6. CASE \E r \in Runs : Checkout(r)
  <2>1. PICK r \in Runs : Checkout(r)
    BY <1>6
  <2>2. PICK y \in RunStates : Passes(r, y, "checks")
    BY <1>1, <2>1, CheckoutPasses
  <2>3. run[r].at \in Held /\ UNCHANGED <<shipper, returned>>
    BY <2>1 DEF Checkout, Held, shipVars
  <2> QED
    BY <1>1, <2>2, <2>3, OneUses DEF Passes, SameRun, SameId
<1>7. CASE \E r \in Runs : Raise(r) \/ Resets(r)
  <2>1. PICK r \in Runs : Raise(r) \/ Resets(r)
    BY <1>7
  <2>2. PICK y \in RunStates : \E p \in {"reset", "done", "free"} : Passes(r, y, p)
    <3>1. \/ run[r].at = "raise" /\ Go(r, "reset")
          \/ run[r].at = "complain" /\ Go(r, "done")
          \/ run[r].at = "reset" /\ Go(r, "free")
      BY <2>1 DEF Raise, Resets
    <3> QED
      BY <1>1, <3>1, EndPasses
  <2>3. run[r].at \in Held /\ UNCHANGED <<shipper, returned>>
    BY <2>1 DEF Raise, Resets, Held, shipVars
  <2> QED
    BY <1>1, <2>2, <2>3, OneUses DEF Passes, SameRun, SameId
<1>8. CASE \E r \in Runs : Frees(r)
  <2>1. PICK r \in Runs : Frees(r)
    BY <1>8
  <2>2. PICK y \in RunStates : Passes(r, y, "done")
    BY <1>1, <2>1, EndPasses DEF Frees
  <2>3. run[r].at \in Held /\ UNCHANGED <<shipper, returned>>
    BY <2>1 DEF Frees, Held, shipVars
  <2> QED
    BY <1>1, <2>2, <2>3, OneUses DEF Passes, SameRun, SameId
<1>9. CASE \E r \in Runs : \E i \in 1 .. Len(run[r].findings) : ResolveFinding(r, i)
  BY <1>1, <1>9, ResolveMoves, OneUses DEF Kept, ResolveFinding, shipVars
<1>10. CASE \E c \in Cards : GateRun(c)
  BY <1>1, <1>10, GateRunMoves, OneUses DEF Moved, Kept, GateRun, shipVars
<1>11. CASE \E c \in Cards : ShipAsPr(c)
  <2>1. PICK c \in Cards : ShipAsPr(c)
    BY <1>11
  <2>2. PICK r \in Latest(c) :
           /\ Ships(r) /\ run[r].status = "passed"
           /\ run' = run \/ run' = [run EXCEPT ![r].pr = TRUE]
    BY <2>1 DEF ShipAsPr
  <2>3. r \in Runs /\ run[r].slot # NoSlot /\ UNCHANGED <<shipper, returned>>
    BY <2>1, <2>2, ShipOf DEF Ships, ShipAsPr
  <2>4. CASE run' = [run EXCEPT ![r].pr = TRUE]
    BY <1>1, <2>2, <2>3, <2>4, PrPasses, OneUses DEF Moved, Kept
  <2> QED
    BY <1>3, <2>2, <2>3, <2>4
<1>12. CASE \E c \in Cards : ShipLocally(c)
  <2>1. PICK c \in Cards : ShipLocally(c)
    BY <1>12
  <2>2. PICK r \in Latest(c) :
           /\ Ships(r) /\ run' = run
           /\ shipper' = [at |-> "reset", run |-> r] /\ returned' = returned \union {r}
    BY <2>1 DEF ShipLocally
  <2>3. r \notin returned
    BY <2>2 DEF Undisturbed, Ships
  <2> QED
    BY <2>2, <2>3 DEF UsesNone, Using, Returning
<1>13. CASE \E c \in Cards : Merge(c)
  <2>1. run' = run /\ returned' = returned /\ shipper'.at = "ci"
    BY <1>13 DEF Merge
  <2> QED
    BY <2>1 DEF UsesNone, Using, Returning
<1>14. CASE MergeRefused
  <2>1. run' = run /\ returned' = returned /\ shipper'.at = "idle"
    BY <1>1, <1>14 DEF MergeRefused, RestTyped
  <2> QED
    BY <2>1 DEF UsesNone, Using, Returning
<1>15. CASE Merges
  <2>1. run' = run /\ returned' = returned \union {shipper.run} /\ shipper.run \notin returned
        /\ shipper'.run = shipper.run
    BY <1>1, <1>15 DEF Merges, RestTyped, MergeInv
  <2> QED
    BY <2>1 DEF UsesNone, Using, Returning
<1>16. CASE ShipResets \/ ShipFrees \/ ShipParks
  <2>1. run' = run /\ returned' = returned /\ shipper'.run = shipper.run
        /\ shipper.at \in {"reset", "free", "park"}
    BY <1>1, <1>16 DEF ShipResets, ShipFrees, ShipParks, RestTyped
  <2> QED
    BY <2>1 DEF UsesNone, Using, Returning
<1>17. CASE Crash
  <2>1. shipper'.at = "idle" /\ returned' = returned
    BY <1>17 DEF Crash
  <2>2. SameRun(run[q], run'[q]) /\ run'[q].at \notin Held
    BY <1>1, <1>17, CrashMoves
  <2> QED
    BY <2>1, <2>2 DEF UsesNone, Using, Returning, SameRun, SameId
<1>18. \/ CountOpen \/ ClearItem \/ \E r \in Runs : AgentCommits(r)
       \/ \E c \in Cards : Dispatch(c) \/ AuthorEdits(c) \/ AuthorCommits(c)
       => run' = run /\ UNCHANGED <<shipper, returned>>
  BY DEF CountOpen, ClearItem, AgentCommits, Dispatch, AuthorEdits, AuthorCommits, shipVars
<1> QED
  BY <1>2, <1>3, <1>4, <1>5, <1>6, <1>7, <1>8, <1>9, <1>10, <1>11, <1>12, <1>13, <1>14, <1>15,
     <1>16, <1>17, <1>18, NextCases

\* After the step the worktree a run uses is leased, clean and no author's.
Safe(r) ==
    Using(r)' =>
        /\ row'[run'[r].slot] = "leased" /\ holder'[run'[r].slot] = run'[r].card
        /\ edits'[run'[r].slot] = NoCard
        /\ \A c \in Cards : author'[c] # run'[r].slot

LEMMA ApartStays ==
    ASSUME \A r \in Runs : Apart(r), \A r \in Runs : UsesNone(r) /\ Safe(r)
    PROVE  \A r \in Runs : Apart(r)'
BY DEF Apart, UsesNone, Safe

\* Where nothing of the pool changes.
LEMMA PoolStays ==
    ASSUME ApartInv, \A r \in Runs : UsesNone(r),
           UNCHANGED <<row, holder, edits, author, lost>>
    PROVE  (\A r \in Runs : Apart(r)') /\ PoolInv'
<1>1. \A r \in Runs : Safe(r)
  BY DEF ApartInv, Apart, UsesNone, Safe
<1> QED
  BY <1>1, ApartStays DEF ApartInv, PoolInv

LEMMA SlotUsed ==
    ASSUME GoodInv, NEW r \in Runs, Using(r) PROVE run[r].slot \in Slots
BY DEF GoodInv, TypeOK, RunStates, Using

LEMMA LeaseSet ==
    ASSUME RestTyped, NEW s \in Slots, NEW st, NEW c, SetLease(s, st, c)
    PROVE  \A t \in Slots : /\ row'[t] = IF t = s THEN st ELSE row[t]
                            /\ holder'[t] = IF t = s THEN c ELSE holder[t]
BY DEF RestTyped, SetLease

\* The lowest free worktree is nobody's, and nobody's work is in it.
LEMMA FreeIsNobodys ==
    ASSUME GoodInv, ApartInv, Free # {}
    PROVE  /\ Lowest(Free) \in Slots /\ Lowest(Free) # NoSlot /\ row[Lowest(Free)] = "available"
           /\ edits[Lowest(Free)] = NoCard
           /\ \A c \in Cards : author[c] # Lowest(Free)
           /\ \A r \in Runs : Using(r) => run[r].slot # Lowest(Free)
<1>1. Lowest(Free) \in Slots /\ row[Lowest(Free)] = "available"
  BY LowestIn DEF Free
<1>2. Lowest(Free) # NoSlot
  BY <1>1 DEF Slots, NoSlot
<1> QED
  BY <1>1, <1>2 DEF ApartInv, PoolInv, Apart

\* checkout --force, reset --hard and clean -fd of a worktree a run uses.
LEMMA CleanIsWiped ==
    ASSUME GoodInv, ApartInv, NEW r \in Runs, Using(r), NEW s, s = run[r].slot,
           edits' = [edits EXCEPT ![s] = NoCard], lost' = lost \union ({edits[s]} \ {NoCard})
    PROVE  edits' = edits /\ lost' = lost
<1>1. edits[s] = NoCard /\ s \in Slots
  BY SlotUsed DEF ApartInv, Apart
<1> QED
  BY <1>1, GoodInvIs DEF RestTyped

\* The end of a lease that a run used.
LEMMA LeaseEnds ==
    ASSUME GoodInv, ApartInv, NEW r \in Runs, Using(r), ~Using(r)',
           \A q \in Runs : UsesNone(q), NEW st, NEW c, SetLease(run[r].slot, st, c),
           UNCHANGED <<edits, author, lost>>
    PROVE  (\A q \in Runs : Apart(q)') /\ PoolInv'
<1> DEFINE s == run[r].slot
<1>1. s \in Slots /\ RestTyped
  BY SlotUsed, GoodInvIs
<1>2. \A t \in Slots : /\ row'[t] = IF t = s THEN st ELSE row[t]
                       /\ holder'[t] = IF t = s THEN c ELSE holder[t]
  BY <1>1, LeaseSet
<1>3. edits[s] = NoCard /\ \A a \in Cards : author[a] # s
  BY DEF ApartInv, Apart
<1>4. ASSUME NEW q \in Runs PROVE Safe(q)
  <2> SUFFICES ASSUME Using(q)' PROVE Safe(q)
    BY DEF Safe
  <2>1. q # r /\ Using(q) /\ run'[q].slot = run[q].slot /\ run'[q].card = run[q].card
    BY DEF UsesNone
  <2>2. run[q].slot \in Slots /\ run[q].slot # s
    BY <2>1, SlotUsed DEF ApartInv, Apart
  <2>3. row'[run[q].slot] = "leased" /\ holder'[run[q].slot] = run[q].card
    BY <1>2, <2>1, <2>2 DEF ApartInv, Apart
  <2> QED
    BY <2>1, <2>3 DEF Safe, ApartInv, Apart
<1>5. PoolInv'
  <2>1. ASSUME NEW a \in Cards, author[a] # NoSlot PROVE row'[author[a]] = "leased"
    <3>1. author[a] \in Slots /\ author[a] # s
      BY <1>1, <1>3, <2>1 DEF RestTyped
    <3> QED
      BY <1>2, <2>1, <3>1 DEF ApartInv, PoolInv
  <2>2. ASSUME NEW t \in Slots, edits[t] # NoCard PROVE row'[t] # "available"
    BY <1>2, <1>3, <2>2 DEF ApartInv, PoolInv
  <2> QED
    BY <2>1, <2>2 DEF ApartInv, PoolInv
<1> QED
  BY <1>4, <1>5, ApartStays DEF ApartInv

\* A new lease, of a run or an author.
LEMMA LeaseBegins ==
    ASSUME GoodInv, ApartInv, Free # {}, NEW c \in Cards \union {NoCard},
           SetLease(Lowest(Free), "leased", c), UNCHANGED <<edits, lost>>
    PROVE  /\ \A t \in Slots : /\ row'[t] = IF t = Lowest(Free) THEN "leased" ELSE row[t]
                               /\ holder'[t] = IF t = Lowest(Free) THEN c ELSE holder[t]
           /\ \A a \in Cards : author[a] # NoSlot =>
                 author[a] \in Slots /\ row'[author[a]] = "leased"
           /\ \A s \in Slots : edits'[s] # NoCard => row'[s] # "available"
           /\ lost' = {}
<1> DEFINE s == Lowest(Free)
<1>1. s \in Slots /\ RestTyped
  BY FreeIsNobodys, GoodInvIs
<1>2. \A t \in Slots : /\ row'[t] = IF t = s THEN "leased" ELSE row[t]
                       /\ holder'[t] = IF t = s THEN c ELSE holder[t]
  BY <1>1, LeaseSet
<1>3. ASSUME NEW a \in Cards, author[a] # NoSlot
      PROVE  author[a] \in Slots /\ row'[author[a]] = "leased"
  <2>1. author[a] \in Slots /\ row[author[a]] = "leased"
    BY <1>1, <1>3 DEF RestTyped, ApartInv, PoolInv
  <2> QED
    BY <1>2, <2>1
<1>4. ASSUME NEW t \in Slots, edits[t] # NoCard PROVE row'[t] # "available"
  BY <1>2, <1>4 DEF ApartInv, PoolInv
<1> QED
  BY <1>2, <1>3, <1>4 DEF ApartInv, PoolInv

LEMMA LeaseApart ==
    ASSUME GoodInv, ApartInv, NEW r \in Runs, Lease(r), \A q \in Runs : q # r => UsesNone(q)
    PROVE  (\A q \in Runs : Apart(q)') /\ PoolInv'
<1> DEFINE s == Lowest(Free)
<1>1. Free # {} /\ SetLease(s, "leased", run[r].card) /\ UNCHANGED <<edits, author, lost>>
  BY DEF Lease, treeVars
<1>2. run[r].card \in Cards \union {NoCard}
  BY DEF GoodInv, TypeOK, RunStates
<1>3. /\ \A t \in Slots : /\ row'[t] = IF t = s THEN "leased" ELSE row[t]
                          /\ holder'[t] = IF t = s THEN run[r].card ELSE holder[t]
      /\ \A a \in Cards : author[a] # NoSlot => author[a] \in Slots /\ row'[author[a]] = "leased"
      /\ \A t \in Slots : edits'[t] # NoCard => row'[t] # "available"
      /\ lost' = {}
  BY <1>1, <1>2, LeaseBegins
<1>4. PICK y \in RunStates : Becomes(r, y) /\ y.slot = s /\ y.card = run[r].card
  BY LeasePasses
<1>5. run'[r] = y /\ \A q \in Runs : q # r => run'[q] = run[q]
  BY <1>4, OthersStay DEF GoodInv
<1>6. /\ s \in Slots /\ s # NoSlot /\ edits[s] = NoCard /\ \A c \in Cards : author[c] # s
      /\ \A q \in Runs : Using(q) => run[q].slot # s
  BY <1>1, FreeIsNobodys
<1> HIDE DEF s
<1>7. ASSUME NEW q \in Runs, q # r, Using(q)'
      PROVE  /\ Using(q) /\ run'[q].slot = run[q].slot /\ run[q].slot \in Slots /\ run[q].slot # s
             /\ run'[q].card = run[q].card
  BY <1>6, <1>7, SlotUsed DEF UsesNone
<1>8. ASSUME NEW q \in Runs PROVE Safe(q)
  <2> SUFFICES ASSUME Using(q)' PROVE Safe(q)
    BY DEF Safe
  <2>1. CASE q = r
    BY <1>1, <1>3, <1>4, <1>5, <1>6, <2>1 DEF Safe
  <2>2. CASE q # r
    <3>1. row[run[q].slot] = "leased" /\ holder[run[q].slot] = run[q].card
          /\ edits[run[q].slot] = NoCard /\ \A c \in Cards : author[c] # run[q].slot
      BY <1>7, <2>2 DEF ApartInv, Apart
    <3> QED
      BY <1>1, <1>3, <1>7, <2>2, <3>1 DEF Safe
  <2> QED
    BY <2>1, <2>2
<1>9. ASSUME NEW p \in Runs, NEW q \in Runs, p # q, Using(p)', Using(q)'
      PROVE  run'[p].slot # run'[q].slot
  <2>1. CASE p = r
    BY <1>4, <1>5, <1>7, <1>9, <2>1
  <2>2. CASE q = r
    BY <1>4, <1>5, <1>7, <1>9, <2>2
  <2>3. CASE p # r /\ q # r
    BY <1>7, <1>9, <2>3 DEF ApartInv, Apart
  <2> QED
    BY <2>1, <2>2, <2>3
<1>10. \A q \in Runs : Apart(q)'
  BY <1>8, <1>9 DEF Safe, Apart
<1>11. PoolInv'
  BY <1>1, <1>3 DEF PoolInv
<1> QED
  BY <1>10, <1>11

LEMMA DispatchApart ==
    ASSUME GoodInv, ApartInv, NEW c \in Cards, Dispatch(c), \A q \in Runs : UsesNone(q)
    PROVE  (\A q \in Runs : Apart(q)') /\ PoolInv'
<1> DEFINE s == Lowest(Free)
<1>1. Free # {} /\ SetLease(s, "leased", c) /\ UNCHANGED <<edits, lost>>
      /\ author' = [author EXCEPT ![c] = s] /\ RestTyped
  BY GoodInvIs DEF Dispatch, treeVars
<1>2. /\ \A t \in Slots : /\ row'[t] = IF t = s THEN "leased" ELSE row[t]
                          /\ holder'[t] = IF t = s THEN c ELSE holder[t]
      /\ \A a \in Cards : author[a] # NoSlot => author[a] \in Slots /\ row'[author[a]] = "leased"
      /\ \A t \in Slots : edits'[t] # NoCard => row'[t] # "available"
      /\ lost' = {}
  BY <1>1, LeaseBegins
<1>3. /\ s \in Slots /\ s # NoSlot /\ edits[s] = NoCard
      /\ \A q \in Runs : Using(q) => run[q].slot # s
  BY <1>1, FreeIsNobodys
<1>4. \A a \in Cards : author'[a] = IF a = c THEN s ELSE author[a]
  BY <1>1 DEF RestTyped
<1> HIDE DEF s
<1>5. ASSUME NEW q \in Runs PROVE Safe(q)
  <2> SUFFICES ASSUME Using(q)' PROVE Safe(q)
    BY DEF Safe
  <2>1. /\ Using(q) /\ run'[q].slot = run[q].slot /\ run[q].slot \in Slots /\ run[q].slot # s
        /\ run'[q].card = run[q].card
    BY <1>3, SlotUsed DEF UsesNone
  <2>2. row[run[q].slot] = "leased" /\ holder[run[q].slot] = run[q].card
        /\ edits[run[q].slot] = NoCard /\ \A a \in Cards : author[a] # run[q].slot
    BY <2>1 DEF ApartInv, Apart
  <2> QED
    BY <1>1, <1>2, <1>4, <2>1, <2>2 DEF Safe
<1>6. PoolInv'
  <2>1. \A a \in Cards : author'[a] # NoSlot => row'[author'[a]] = "leased"
    BY <1>2, <1>3, <1>4
  <2> QED
    BY <1>2, <2>1 DEF PoolInv
<1> QED
  BY <1>5, <1>6, ApartStays DEF ApartInv

\* An author writes in its worktree, which no run uses.
LEMMA AuthorApart ==
    ASSUME GoodInv, ApartInv, NEW c \in Cards, author[c] # NoSlot, NEW e \in {c, NoCard},
           edits' = [edits EXCEPT ![author[c]] = e], UNCHANGED <<row, holder, author, lost>>,
           \A q \in Runs : UsesNone(q)
    PROVE  (\A q \in Runs : Apart(q)') /\ PoolInv'
<1>1. RestTyped /\ row[author[c]] = "leased"
  BY GoodInvIs DEF ApartInv, PoolInv
<1>2. \A t \in Slots : edits'[t] = IF t = author[c] THEN e ELSE edits[t]
  BY <1>1 DEF RestTyped
<1>3. ASSUME NEW q \in Runs PROVE Safe(q)
  <2> SUFFICES ASSUME Using(q)' PROVE Safe(q)
    BY DEF Safe
  <2>1. /\ Using(q) /\ run'[q].slot = run[q].slot /\ run[q].slot \in Slots
        /\ run'[q].card = run[q].card
    BY SlotUsed DEF UsesNone
  <2>2. row[run[q].slot] = "leased" /\ holder[run[q].slot] = run[q].card
        /\ edits[run[q].slot] = NoCard /\ \A a \in Cards : author[a] # run[q].slot
    BY <2>1 DEF ApartInv, Apart
  <2> QED
    BY <1>2, <2>1, <2>2 DEF Safe
<1>4. PoolInv'
  BY <1>1, <1>2 DEF ApartInv, PoolInv
<1> QED
  BY <1>3, <1>4, ApartStays DEF ApartInv

LEMMA StepMerge ==
    ASSUME ShapeInv, MergeInv, Next, Undisturbed' PROVE MergeInv'
<1>1. RestTyped /\ GoodInv
  BY GoodInvIs DEF ShapeInv
<1>2. CASE UNCHANGED <<shipper, returned>>
  BY <1>2 DEF MergeInv
<1>3. CASE \E c \in Cards : Merge(c)
  <2>1. PICK c \in Cards : Merge(c)
    BY <1>3
  <2>2. PICK r \in Latest(c) : Ships(r) /\ shipper' = [at |-> "ci", run |-> r] /\ returned' = returned
    BY <2>1 DEF Merge
  <2>3. r \notin returned
    BY <2>2 DEF Undisturbed, Ships
  <2> QED
    BY <2>2, <2>3 DEF MergeInv
<1>4. CASE \/ MergeRefused \/ Merges \/ ShipResets \/ ShipFrees \/ ShipParks \/ Crash
           \/ \E c \in Cards : ShipLocally(c)
  <2>1. \/ shipper'.at = "reset" \/ shipper'.at = "idle"
        \/ \E p \in {"idle", "reset", "park", "free"} : shipper' = [shipper EXCEPT !.at = p]
    <3>1. CASE Crash \/ \E c \in Cards : ShipLocally(c)
      <4>1. Crash => shipper' = [at |-> "idle", run |-> 0]
        BY DEF Crash
      <4>2. \A c \in Cards : ShipLocally(c) =>
               \E r \in Latest(c) : shipper' = [at |-> "reset", run |-> r]
        BY DEF ShipLocally
      <4> QED
        BY <3>1, <4>1, <4>2
    <3>2. CASE MergeRefused \/ ShipFrees \/ ShipParks
      BY <3>2 DEF MergeRefused, ShipFrees, ShipParks
    <3>3. CASE Merges \/ ShipResets
      BY <3>3 DEF Merges, ShipResets
    <3> QED
      BY <1>4, <3>1, <3>2, <3>3
  <2>2. shipper'.at # "ci"
    BY <1>1, <2>1 DEF RestTyped
  <2> QED
    BY <2>2 DEF MergeInv
<1>5. \/ CountOpen \/ ClearItem
      \/ \E r \in Runs :
           \/ Moves(r) \/ Lease(r) \/ Checkout(r) \/ Raise(r) \/ Resets(r) \/ Frees(r)
           \/ AgentCommits(r)
           \/ \E i \in 1 .. Len(run[r].findings) : ResolveFinding(r, i)
      \/ \E c \in Cards : \/ GateRun(c) \/ ShipAsPr(c) \/ Dispatch(c) \/ AuthorEdits(c)
                          \/ AuthorCommits(c) \/ Cancel(c)
      => UNCHANGED <<shipper, returned>>
  BY <1>1, MovesDo DEF CountOpen, ClearItem, Lease, Checkout, Raise, Resets, Frees, AgentCommits,
     ResolveFinding, GateRun, ShipAsPr, Dispatch, AuthorEdits, AuthorCommits, Cancel, shipVars
<1> QED
  BY <1>2, <1>3, <1>4, <1>5, NextCases

LEMMA StepApart ==
    ASSUME ShapeInv, ApartInv, Next, Undisturbed' PROVE ApartInv'
<1>1. GoodInv /\ RequestInv /\ RestTyped /\ MergeInv /\ \A r \in Runs : Good(run[r])
  BY GoodInvIs DEF ShapeInv, ApartInv
<1>2. \A q \in Runs : UsesNone(q) \/ Lease(q)
  BY <1>1, StepUses
<1>3. \A c \in Cards : ~Cancel(c)
  BY <1>1, UndisturbedBefore
<1>4. MergeInv'
  BY <1>1, StepMerge
<1> SUFFICES (\A q \in Runs : Apart(q)') /\ PoolInv'
  BY <1>4 DEF ApartInv
<1>5. CASE \E r \in Runs : Lease(r)
  <2>1. PICK r \in Runs : Lease(r)
    BY <1>5
  <2>2. ASSUME NEW q \in Runs, q # r PROVE UsesNone(q)
    <3>1. run'[q] = run[q] /\ UNCHANGED <<shipper, returned>>
      BY <1>1, <2>1, <2>2 DEF Lease, shipVars, GoodInv, TypeOK
    <3> QED
      BY <3>1 DEF UsesNone, Using, Returning
  <2> QED
    BY <1>1, <2>1, <2>2, LeaseApart
<1>6. CASE \A q \in Runs : ~Lease(q)
  <2>1. \A q \in Runs : UsesNone(q)
    BY <1>2, <1>6
  <2>2. CASE UNCHANGED <<row, holder, edits, author, lost>>
    BY <2>1, <2>2, PoolStays
  <2>3. CASE \E r \in Runs : Checkout(r) \/ Resets(r)
    <3>1. PICK r \in Runs : Checkout(r) \/ Resets(r)
      BY <2>3
    <3>2. Using(r)
      BY <1>1, <3>1 DEF Checkout, Resets, Using, Held, Good, Placed
    <3>3. edits' = [edits EXCEPT ![run[r].slot] = NoCard]
          /\ lost' = lost \union ({edits[run[r].slot]} \ {NoCard})
          /\ UNCHANGED <<row, holder, author>>
      BY <3>1 DEF Checkout, Resets, Wipe, slotVars
    <3>4. edits' = edits /\ lost' = lost
      BY <1>1, <3>2, <3>3, CleanIsWiped
    <3> QED
      BY <2>2, <3>3, <3>4
  <2>4. CASE \E r \in Runs : Frees(r)
    <3>1. PICK r \in Runs : Frees(r)
      BY <2>4
    <3>2. Using(r)
      BY <1>1, <3>1 DEF Frees, Using, Held, Good, Placed
    <3>3. PICK y \in RunStates : Passes(r, y, "done")
      BY <1>1, <3>1, EndPasses DEF Frees
    <3>4. run'[r] = y /\ y.at = "done" /\ y.status \in {"failed", "escalated"}
      BY <1>1, <3>1, <3>3, OthersStay DEF Passes, GoodInv, Frees, Good, Placed, SameRun, SameId
    <3>5. ~Using(r)'
      BY <3>4 DEF Using, Held, Working
    <3>6. SetLease(run[r].slot, "available", NoCard) /\ UNCHANGED <<edits, author, lost>>
      BY <3>1 DEF Frees, treeVars
    <3> QED
      BY <1>1, <2>1, <3>2, <3>5, <3>6, LeaseEnds
  <2>5. shipper.at \in {"reset", "free", "park"} => shipper.run \in Runs /\ Using(shipper.run)
    BY <1>1 DEF RequestInv, Using, Returning
  <2>6. CASE ShipResets
    <3> DEFINE r == shipper.run
    <3>1. r \in Runs /\ Using(r)
      BY <2>5, <2>6 DEF ShipResets
    <3>2. edits' = [edits EXCEPT ![run[r].slot] = NoCard]
          /\ lost' = lost \union ({edits[run[r].slot]} \ {NoCard})
          /\ UNCHANGED <<row, holder, author>>
      BY <2>6 DEF ShipResets, Wipe, slotVars
    <3>3. edits' = edits /\ lost' = lost
      BY <1>1, <3>1, <3>2, CleanIsWiped
    <3> QED
      BY <2>2, <3>2, <3>3
  <2>7. CASE ShipFrees \/ ShipParks
    <3>1. PICK r \in Runs : r = shipper.run /\ Using(r)
      BY <2>5, <2>7 DEF ShipFrees, ShipParks
    <3>2. run' = run /\ returned' = returned /\ shipper'.at = "idle"
          /\ UNCHANGED <<edits, author, lost>>
      BY <1>1, <2>7 DEF ShipFrees, ShipParks, treeVars, RestTyped
    <3>3. r \in returned /\ run[r].status = "passed" /\ run[r].at = "done"
      BY <1>1, <2>7, <3>1 DEF ShipFrees, ShipParks, RequestInv, Good, Placed
    <3>4. ~Using(r)'
      <4>1. run'[r].at \notin Held /\ r \in returned'
        BY <3>2, <3>3 DEF Held, Working
      <4>2. ~Returning(r)'
        BY <3>2 DEF Returning
      <4> QED
        BY <4>1, <4>2 DEF Using
    <3>5. \/ SetLease(run[r].slot, "available", NoCard)
          \/ SetLease(run[r].slot, "dirty", run[r].card)
      BY <2>7, <3>1 DEF ShipFrees, ShipParks
    <3>6. r \in Runs => run[r].card \in Cards \union {NoCard}
      BY <1>1 DEF GoodInv, TypeOK, RunStates
    <3> QED
      BY <1>1, <2>1, <3>1, <3>2, <3>4, <3>5, <3>6, LeaseEnds
  <2>8. CASE \E c \in Cards : Dispatch(c)
    BY <1>1, <2>1, <2>8, DispatchApart
  <2>9. CASE \E c \in Cards : AuthorEdits(c) \/ AuthorCommits(c)
    <3>1. PICK c \in Cards : AuthorEdits(c) \/ AuthorCommits(c)
      BY <2>9
    <3>2. PICK e \in {c, NoCard} : edits' = [edits EXCEPT ![author[c]] = e]
      BY <3>1 DEF AuthorEdits, AuthorCommits
    <3>3. author[c] # NoSlot /\ UNCHANGED <<row, holder, author, lost>>
      BY <3>1 DEF AuthorEdits, AuthorCommits, slotVars
    <3> QED
      BY <1>1, <2>1, <3>2, <3>3, AuthorApart
  <2>10. CASE Crash
    <3>1. UNCHANGED <<row, holder, edits, lost>> /\ \A c \in Cards : author'[c] = NoSlot
      BY <2>10 DEF Crash, slotVars, treeVars
    <3>2. \A r \in Runs : Safe(r)
      BY <2>1, <3>1 DEF Safe, UsesNone, ApartInv, Apart, Using
    <3>3. PoolInv'
      BY <3>1 DEF ApartInv, PoolInv
    <3> QED
      BY <2>1, <3>2, <3>3, ApartStays DEF ApartInv
  <2>11. \/ CountOpen \/ ClearItem \/ MergeRefused \/ Merges
         \/ \E r \in Runs :
              \/ Moves(r) \/ Raise(r) \/ AgentCommits(r)
              \/ \E i \in 1 .. Len(run[r].findings) : ResolveFinding(r, i)
         \/ \E c \in Cards : GateRun(c) \/ ShipLocally(c) \/ ShipAsPr(c) \/ Merge(c)
         => UNCHANGED <<row, holder, edits, author, lost>>
    BY <1>1, MovesDo DEF CountOpen, ClearItem, MergeRefused, Merges, Raise, AgentCommits,
       ResolveFinding, GateRun, ShipLocally, ShipAsPr, Merge, slotVars, treeVars
  <2> QED
    BY <1>3, <1>6, <2>2, <2>3, <2>4, <2>6, <2>7, <2>8, <2>9, <2>10, <2>11, NextCases
<1> QED
  BY <1>5, <1>6

-----------------------------------------------------------------------------
(* What the checks have earned.                                             *)

EarnedInv == \A r \in Runs : Deserves(r, run[r], tree[run[r].slot])

\* What was merged or pushed was checked, but for reviewers' commits and runs a
\* human resolved findings of early.
ShippedInv == \A p \in shipped : p[2] \in run[p[1]].green \union meddled \/ p[1] \in early

\* These only grow.
Grows == meddled \subseteq meddled' /\ early \subseteq early' /\ returned \subseteq returned'

LEMMA StepGrows == ASSUME Next PROVE Grows \/ \E r \in Runs : Moves(r)
BY NextCases DEF Grows, Crash, CountOpen, ClearItem, MergeRefused, Merges, ShipResets, ShipFrees,
     ShipParks, Lease, Checkout, Raise, Resets, Frees, AgentCommits, ResolveFinding, GateRun,
     ShipLocally, ShipAsPr, Merge, Dispatch, AuthorEdits, AuthorCommits, Cancel, shipVars, humanVars

\* The commit of its worktree matters from the checkout to the ship.
Minds(r, x) ==
    /\ x.slot # NoSlot /\ x.strict # "none"
    /\ x.at \in Working \union {"pass"} \/ (x.status = "passed" /\ r \notin returned)

LEMMA DeservesStays ==
    ASSUME NEW r, NEW y, NEW t, NEW u, Grows, run'[r] = y, u = tree'[y.slot], Deserves(r, y, t),
           Minds(r, y) => u = t
    PROVE  Deserves(r, run[r], tree[run[r].slot])'
<1>1. FixIsEarned(y) /\ (y.strict # "none" /\ y.slot # NoSlot => Earns(r, y, t))
  BY DEF Deserves
<1>2. ASSUME y.strict # "none", y.slot # NoSlot PROVE Earns(r, run[r], tree[run[r].slot])'
  <2>1. Earns(r, y, t)
    BY <1>1, <1>2
  <2>2. y.at \in Working \union {"pass"} => u = t
    BY <1>2 DEF Minds
  <2>3. y.status = "passed" /\ r \notin returned' => u = t
    BY <1>2 DEF Minds, Grows
  <2>4. /\ y.at = "checks" => u = y.head
        /\ y.at \in {"review", "reviewing", "autofix", "fixing"} => y.head \in y.green
        /\ y.at = "review" => u = y.head
        /\ y.at \in {"reviewing", "autofix"} => u \in {y.head} \union meddled'
        /\ y.at = "fixing" => y.base \in {y.head} \union meddled'
        /\ y.at = "recheck" => u = y.head /\ y.head # y.base
        /\ y.at = "mark" => u = y.head /\ y.head # y.base /\ y.head \in y.green
    BY <2>1, <2>2 DEF Earns, Grows, Working
  <2>5. y.at = "verdict" =>
           \/ r \in early' \/ \E i \in 1 .. Len(y.findings) : y.findings[i].open
           \/ (y.head \in y.green /\ u \in y.green \union meddled')
    BY <2>1, <2>2 DEF Earns, Grows, Working
  <2>6. (y.at = "pass" \/ y.status = "passed") /\ r \notin early' =>
           y.head \in y.green /\ (r \notin returned' => u \in y.green \union meddled')
    BY <2>1, <2>2, <2>3 DEF Earns, Grows
  <2> QED
    BY <2>4, <2>5, <2>6 DEF Earns
<1> QED
  BY <1>1, <1>2 DEF Deserves, FixIsEarned

\* A step of one run, the worktrees as they are.
LEMMA OneEarns ==
    ASSUME GoodInv, EarnedInv, Grows, NEW r \in Runs, NEW y \in RunStates, Becomes(r, y),
           tree' = tree, Deserves(r, y, tree[y.slot])
    PROVE  EarnedInv'
<1>1. run'[r] = y /\ \A q \in Runs : q # r => run'[q] = run[q]
  BY OthersStay DEF GoodInv
<1>2. ASSUME NEW q \in Runs, q # r PROVE Deserves(q, run[q], tree[run[q].slot])'
  <2>1. run'[q] = run[q] /\ Deserves(q, run[q], tree[run[q].slot])
    BY <1>1, <1>2 DEF EarnedInv
  <2> QED
    BY <2>1, DeservesStays
<1>3. Deserves(r, run[r], tree[run[r].slot])'
  BY <1>1, DeservesStays
<1> QED
  BY <1>2, <1>3 DEF EarnedInv

LEMMA NoneEarns ==
    ASSUME EarnedInv, Grows, run' = run, tree' = tree PROVE EarnedInv'
<1>1. ASSUME NEW q \in Runs PROVE Deserves(q, run[q], tree[run[q].slot])'
  <2>1. run'[q] = run[q] /\ Deserves(q, run[q], tree[run[q].slot])
    BY DEF EarnedInv
  <2> QED
    BY <2>1, DeservesStays
<1> QED
  BY <1>1 DEF EarnedInv

\* A run that minds its worktree uses it.
LEMMA MindsUses ==
    ASSUME NEW r \in Runs, Minds(r, run[r]) PROVE Using(r)
BY DEF Minds, Using, Held

\* A worktree that a run uses, or an author, is at another commit.
LEMMA TreeMoves ==
    ASSUME GoodInv, EarnedInv, ApartInv, Grows, NEW s, NEW n, tree' = [tree EXCEPT ![s] = n],
           NEW q \in Runs, run'[q] = run[q], Using(q) => run[q].slot # s
    PROVE  Deserves(q, run[q], tree[run[q].slot])'
<1>1. Deserves(q, run[q], tree[run[q].slot])
  BY DEF EarnedInv
<1>2. Minds(q, run[q]) => tree'[run[q].slot] = tree[run[q].slot]
  <2> SUFFICES ASSUME Minds(q, run[q]) PROVE tree'[run[q].slot] = tree[run[q].slot]
    OBVIOUS
  <2>1. Using(q) /\ run[q].slot \in Slots
    BY MindsUses, SlotUsed
  <2> QED
    BY <2>1, GoodInvIs DEF RestTyped
<1> QED
  BY <1>1, <1>2, DeservesStays

LEMMA UsedTreeMoves ==
    ASSUME GoodInv, EarnedInv, ApartInv, Grows, NEW r \in Runs, Using(r), NEW n,
           tree' = [tree EXCEPT ![run[r].slot] = n],
           \A q \in Runs : q # r => run'[q] = run[q],
           Deserves(r, run[r], tree[run[r].slot])'
    PROVE  EarnedInv'
<1>1. ASSUME NEW q \in Runs, q # r PROVE Deserves(q, run[q], tree[run[q].slot])'
  <2>1. Using(q) => run[q].slot # run[r].slot
    BY <1>1 DEF ApartInv, Apart
  <2> QED
    BY <1>1, <2>1, TreeMoves
<1> QED
  BY <1>1 DEF EarnedInv

LEMMA TreeAt ==
    ASSUME GoodInv, NEW s \in Slots, NEW n, tree' = [tree EXCEPT ![s] = n]
    PROVE  tree'[s] = n
BY GoodInvIs DEF RestTyped

LEMMA AgentCommitsEarns ==
    ASSUME GoodInv, EarnedInv, ApartInv, Grows, NEW r \in Runs, AgentCommits(r)
    PROVE  EarnedInv'
<1> DEFINE x == run[r]
<1>1. run' = run /\ tree' = [tree EXCEPT ![x.slot] = made + 1]
      /\ early' = early /\ returned' = returned /\ x.agent # "off"
  BY DEF AgentCommits, shipVars, humanVars
<1>2. \/ x.agent = "reviewer" /\ x.at = "reviewing"
      \/ x.agent = "fixer" /\ x.at = "fixing"
  BY <1>1 DEF GoodInv, TypeOK, RunStates, Good, Placed
<1>3. x.strict # "none" /\ x.slot # NoSlot /\ x.status = "running"
  BY <1>2 DEF GoodInv, Good, Placed, Working
<1>4. Using(r) /\ x.slot \in Slots
  <2>1. Using(r)
    BY <1>2, <1>3 DEF Using, Held, Working
  <2> QED
    BY <2>1, SlotUsed
<1>5. tree'[x.slot] = made + 1
  BY <1>1, <1>4, TreeAt
<1>6. x.agent = "reviewer" => made + 1 \in meddled'
  BY DEF AgentCommits
<1>7. Earns(r, x, tree[x.slot]) /\ FixIsEarned(x)
  BY <1>3 DEF EarnedInv, Deserves
<1>8. Deserves(r, run[r], tree[run[r].slot])'
  <2>1. FixIsEarned(run[r])'
    BY <1>1, <1>7 DEF FixIsEarned
  <2>2. Earns(r, run[r], tree[run[r].slot])'
    BY <1>1, <1>2, <1>3, <1>5, <1>6, <1>7 DEF Earns, Grows
  <2> QED
    BY <2>1, <2>2 DEF Deserves
<1> QED
  BY <1>1, <1>4, <1>8, UsedTreeMoves

LEMMA CheckoutEarns ==
    ASSUME GoodInv, EarnedInv, ApartInv, Grows, NEW r \in Runs, Checkout(r)
    PROVE  EarnedInv'
<1> DEFINE x == run[r]
<1>1. PICK y \in RunStates : Passes(r, y, "checks")
  BY CheckoutPasses
<1>2. run'[r] = y /\ \A q \in Runs : q # r => run'[q] = run[q]
  BY <1>1, OthersStay DEF GoodInv, Passes
<1>3. /\ y.at = "checks" /\ y.slot = x.slot /\ SameHead(x, y) /\ SameFindings(x, y)
      /\ y.status = "running"
  BY <1>1 DEF Passes, SameRun, SameId, Good, Placed, Working
<1>4. Using(r) /\ x.slot \in Slots
  <2>1. Using(r)
    BY DEF Checkout, Using, Held, GoodInv, Good, Placed
  <2> QED
    BY <2>1, SlotUsed
<1>5. tree' = [tree EXCEPT ![x.slot] = x.head]
  BY DEF Checkout
<1>6. tree'[x.slot] = y.head
  BY <1>3, <1>4, <1>5, TreeAt DEF SameHead
<1>7. FixIsEarned(y)
  BY <1>3 DEF EarnedInv, Deserves, FixIsEarned, SameHead, SameFindings
<1>8. Deserves(r, run[r], tree[run[r].slot])'
  BY <1>2, <1>3, <1>6, <1>7 DEF Deserves, Earns, FixIsEarned
<1> QED
  BY <1>2, <1>4, <1>5, <1>8, UsedTreeMoves

\* The end of a run's worktree, and of a shipped one.
LEMMA ResetsEarns ==
    ASSUME GoodInv, EarnedInv, ApartInv, Grows, NEW r \in Runs, Resets(r)
    PROVE  EarnedInv'
<1> DEFINE x == run[r]
<1>1. PICK y \in RunStates : Passes(r, y, "free")
  BY EndPasses DEF Resets
<1>2. run'[r] = y /\ \A q \in Runs : q # r => run'[q] = run[q]
  BY <1>1, OthersStay DEF GoodInv, Passes
<1>3. /\ y.at = "free" /\ y.slot = x.slot /\ SameHead(x, y) /\ SameFindings(x, y)
      /\ y.status \in {"failed", "escalated"}
  BY <1>1 DEF Passes, SameRun, SameId, Good, Placed
<1>4. Using(r)
  BY DEF Resets, Using, Held, GoodInv, Good, Placed
<1>5. tree' = [tree EXCEPT ![x.slot] = 0]
  BY DEF Resets, Wipe
<1>6. FixIsEarned(y)
  BY <1>3 DEF EarnedInv, Deserves, FixIsEarned, SameHead, SameFindings
<1>7. Deserves(r, run[r], tree[run[r].slot])'
  BY <1>2, <1>3, <1>6 DEF Deserves, Earns, FixIsEarned
<1> QED
  BY <1>2, <1>4, <1>5, <1>7, UsedTreeMoves

LEMMA ShipResetsEarns ==
    ASSUME ShapeInv, EarnedInv, ApartInv, Grows, ShipResets PROVE EarnedInv'
<1>1. GoodInv /\ RequestInv
  BY DEF ShapeInv
<1>2. PICK r \in Runs : r = shipper.run /\ Using(r)
  BY <1>1 DEF ShipResets, RequestInv, Using, Returning
<1>3. /\ run' = run /\ tree' = [tree EXCEPT ![run[r].slot] = 0]
      /\ r \in returned /\ run[r].status = "passed" /\ run[r].at = "done"
      /\ run[r].slot # NoSlot /\ run[r].strict # "none"
  BY <1>1, <1>2 DEF ShipResets, Wipe, RequestInv, GoodInv, Good, Placed
<1>4. Deserves(r, run[r], tree[run[r].slot])
  BY DEF EarnedInv
<1>5. ~Minds(r, run[r])
  BY <1>3 DEF Minds, Working
<1>6. Deserves(r, run[r], tree[run[r].slot])'
  BY <1>3, <1>4, <1>5, DeservesStays
<1> QED
  BY <1>1, <1>2, <1>3, <1>6, UsedTreeMoves

LEMMA ResolveEarns ==
    ASSUME GoodInv, EarnedInv, Grows, NEW r \in Runs, NEW i \in 1 .. Len(run[r].findings),
           ResolveFinding(r, i)
    PROVE  EarnedInv'
<1> DEFINE x == run[r]
<1>1. PICK y \in RunStates :
              /\ Becomes(r, y) /\ Good(y)
              /\ SameId(run[r], y) /\ SameHead(run[r], y) /\ y.at = run[r].at
              /\ Len(y.findings) = Len(run[r].findings) /\ ~y.findings[i].open
              /\ \A j \in 1 .. Len(y.findings) :
                    /\ j # i => y.findings[j] = run[r].findings[j]
                    /\ y.findings[j].fixed = run[r].findings[j].fixed
  BY ResolveMoves
<1>2. run'[r] = y /\ \A q \in Runs : q # r => run'[q] = run[q]
  BY <1>1, OthersStay DEF GoodInv
<1>3. tree' = tree /\ UNCHANGED <<meddled, returned>>
      /\ (i \in OpenOf(r) /\ x.at = "verdict" => r \in early')
  BY DEF ResolveFinding, treeVars, shipVars
<1>4. Deserves(r, x, tree[x.slot]) /\ y.slot = x.slot /\ y.status = x.status
      /\ y.strict = x.strict /\ y.head = x.head /\ y.base = x.base /\ y.green = x.green
  BY <1>1 DEF EarnedInv, SameId, SameHead
<1>5. FixIsEarned(y)
  BY <1>1, <1>4 DEF Deserves, FixIsEarned
<1>6. ASSUME y.strict # "none", y.slot # NoSlot PROVE Earns(r, run[r], tree[run[r].slot])'
  <2>1. Earns(r, x, tree[x.slot])
    BY <1>4, <1>6 DEF Deserves
  <2>2. y.at = "verdict" =>
           \/ r \in early' \/ \E j \in 1 .. Len(y.findings) : y.findings[j].open
           \/ (y.head \in y.green /\ tree[x.slot] \in y.green \union meddled)
    <3> SUFFICES ASSUME y.at = "verdict", r \notin early',
                        ~(y.head \in y.green /\ tree[x.slot] \in y.green \union meddled)
                 PROVE  \E j \in 1 .. Len(y.findings) : y.findings[j].open
      OBVIOUS
    <3>1. r \notin early /\ i \notin OpenOf(r)
      BY <1>1, <1>3 DEF Grows
    <3>2. PICK j \in 1 .. Len(x.findings) : x.findings[j].open
      BY <1>1, <1>4, <2>1, <3>1 DEF Earns
    <3>3. j # i
      BY <3>1, <3>2 DEF OpenOf
    <3> QED
      BY <1>1, <3>2, <3>3
  <2> QED
    BY <1>1, <1>2, <1>3, <1>4, <2>1, <2>2 DEF Earns, Grows
<1>7. Deserves(r, run[r], tree[run[r].slot])'
  BY <1>2, <1>5, <1>6 DEF Deserves, FixIsEarned
<1>8. ASSUME NEW q \in Runs, q # r PROVE Deserves(q, run[q], tree[run[q].slot])'
  <2>1. run'[q] = run[q] /\ Deserves(q, run[q], tree[run[q].slot])
    BY <1>2, <1>8 DEF EarnedInv
  <2> QED
    BY <1>3, <2>1, DeservesStays
<1> QED
  BY <1>7, <1>8 DEF EarnedInv

\* A run that did not pass, and one a crash left.
LEMMA DoneDeserves ==
    ASSUME NEW r, NEW x, NEW y, NEW t, NEW u, Deserves(r, x, t), SameRun(x, y),
           y.status \in {"failed", "escalated"}, y.at \in {"reset", "free", "done"}
    PROVE  Deserves(r, y, u)
BY DEF Deserves, Earns, FixIsEarned, SameRun, SameId, SameHead, SameFindings

LEMMA DeadDeserves ==
    ASSUME NEW r, NEW x, NEW y, NEW t, Deserves(r, x, t), SameRun(x, y),
           y.at \in {x.at, "dead"}
    PROVE  Deserves(r, y, t)
BY DEF Deserves, Earns, FixIsEarned, SameRun, SameId, SameHead, SameFindings

LEMMA StepEarned ==
    ASSUME ShapeInv, ApartInv, EarnedInv, Next, Undisturbed' PROVE EarnedInv'
<1>1. GoodInv /\ RestTyped /\ TypeOK /\ \A r \in Runs : Good(run[r])
  BY GoodInvIs DEF ShapeInv, GoodInv
<1>2. \A c \in Cards : ~Cancel(c)
  BY <1>1, UndisturbedBefore
<1>3. CASE \E r \in Runs : Moves(r)
  <2>1. PICK r \in Runs : Moves(r)
    BY <1>3
  <2>2. PICK y \in RunStates : Moved(r, y)
    BY <1>1, <2>1, MovesDo
  <2>3. Grows /\ tree' = tree
    BY <1>1, <2>1, MovesDo DEF Grows, treeVars, shipVars, humanVars
  <2>4. Deserves(r, y, tree[y.slot])
    BY <2>2 DEF Moved, EarnedInv
  <2> QED
    BY <1>1, <2>2, <2>3, <2>4, OneEarns DEF Moved
<1>4. CASE Grows
  <2>1. CASE run' = run /\ tree' = tree
    BY <1>4, <2>1, NoneEarns
  <2>2. CASE \E r \in Runs : Lease(r)
    <3>1. PICK r \in Runs : Lease(r)
      BY <2>2
    <3>2. PICK y \in RunStates : /\ Becomes(r, y) /\ y.at = "checkout" /\ y.status = "running"
                                 /\ SameHead(run[r], y) /\ SameFindings(run[r], y)
      BY <1>1, <3>1, LeasePasses
    <3>3. Deserves(r, y, tree[y.slot])
      BY <3>2 DEF EarnedInv, Deserves, Earns, FixIsEarned, SameHead, SameFindings
    <3>4. tree' = tree
      BY <3>1 DEF Lease, treeVars
    <3> QED
      BY <1>1, <1>4, <3>2, <3>3, <3>4, OneEarns
  <2>3. CASE \E r \in Runs : Checkout(r)
    BY <1>1, <1>4, <2>3, CheckoutEarns
  <2>4. CASE \E r \in Runs : Resets(r)
    BY <1>1, <1>4, <2>4, ResetsEarns
  <2>5. CASE \E r \in Runs : Raise(r) \/ Frees(r)
    <3>1. PICK r \in Runs : Raise(r) \/ Frees(r)
      BY <2>5
    <3>2. PICK y \in RunStates : \E p \in {"reset", "done", "free"} : Passes(r, y, p)
      <4>1. \/ run[r].at = "raise" /\ Go(r, "reset")
            \/ run[r].at = "complain" /\ Go(r, "done")
            \/ run[r].at = "free" /\ Go(r, "done")
        BY <3>1 DEF Raise, Frees
      <4> QED
        BY <1>1, <4>1, EndPasses
    <3>3. run[r].status \in {"failed", "escalated"}
      BY <1>1, <3>1 DEF Raise, Frees, Good, Placed
    <3>4. Becomes(r, y) /\ SameRun(run[r], y) /\ y.at \in {"reset", "done", "free"}
          /\ y.status \in {"failed", "escalated"}
      BY <3>2, <3>3 DEF Passes, SameRun, SameId
    <3>5. Deserves(r, y, tree[y.slot])
      BY <3>4, DoneDeserves DEF EarnedInv
    <3>6. tree' = tree
      BY <3>1 DEF Raise, Frees, treeVars
    <3> QED
      BY <1>1, <1>4, <3>4, <3>5, <3>6, OneEarns
  <2>6. CASE \E r \in Runs : AgentCommits(r)
    BY <1>1, <1>4, <2>6, AgentCommitsEarns
  <2>7. CASE \E r \in Runs : \E i \in 1 .. Len(run[r].findings) : ResolveFinding(r, i)
    BY <1>1, <1>4, <2>7, ResolveEarns
  <2>8. CASE ShipResets
    BY <1>4, <2>8, ShipResetsEarns
  <2>9. CASE \E c \in Cards : GateRun(c)
    <3>1. PICK r \in Runs, y \in RunStates : Moved(r, y)
      BY <1>1, <2>9, GateRunMoves
    <3>2. tree' = tree
      BY <2>9 DEF GateRun, treeVars
    <3>3. Deserves(r, y, tree[y.slot])
      BY <3>1 DEF Moved, EarnedInv
    <3> QED
      BY <1>1, <1>4, <3>1, <3>2, <3>3, OneEarns DEF Moved
  <2>10. CASE \E c \in Cards : ShipAsPr(c)
    <3>1. PICK c \in Cards : ShipAsPr(c)
      BY <2>10
    <3>2. PICK r \in Latest(c) :
             /\ Ships(r) /\ run[r].status = "passed"
             /\ run' = run \/ run' = [run EXCEPT ![r].pr = TRUE]
      BY <3>1 DEF ShipAsPr
    <3>3. r \in Runs /\ run[r].slot # NoSlot /\ tree' = tree
      BY <3>1, <3>2, ShipOf DEF Ships, ShipAsPr, treeVars
    <3>4. CASE run' = [run EXCEPT ![r].pr = TRUE]
      <4>1. PICK y \in RunStates : Moved(r, y)
        BY <1>1, <3>2, <3>3, <3>4, PrPasses
      <4>2. Deserves(r, y, tree[y.slot])
        BY <3>3, <4>1 DEF Moved, EarnedInv
      <4> QED
        BY <1>1, <1>4, <3>3, <4>1, <4>2, OneEarns DEF Moved
    <3> QED
      BY <2>1, <3>2, <3>3, <3>4
  <2>11. CASE \E c \in Cards : AuthorCommits(c)
    <3>1. PICK c \in Cards : AuthorCommits(c)
      BY <2>11
    <3>2. run' = run /\ tree' = [tree EXCEPT ![author[c]] = made + 1]
      BY <3>1 DEF AuthorCommits
    <3>3. ASSUME NEW q \in Runs PROVE Deserves(q, run[q], tree[run[q].slot])'
      <4>1. Using(q) => run[q].slot # author[c]
        BY DEF ApartInv, Apart
      <4> QED
        BY <1>1, <1>4, <3>2, <4>1, TreeMoves
    <3> QED
      BY <3>3 DEF EarnedInv
  <2>12. CASE Crash
    <3>1. ASSUME NEW q \in Runs PROVE Deserves(q, run[q], tree[run[q].slot])'
      <4> DEFINE y == run'[q]
      <4>1. SameRun(run[q], y) /\ y.at \in {run[q].at, "dead"} /\ y.slot = run[q].slot
        BY <1>1, <2>12, CrashMoves DEF SameRun, SameId
      <4>2. tree' = tree
        BY <2>12 DEF Crash, treeVars
      <4>3. Deserves(q, y, tree[run[q].slot])
        BY <4>1, DeadDeserves DEF EarnedInv
      <4> HIDE DEF y
      <4>4. run'[q] = y
        BY DEF y
      <4> QED
        BY <1>4, <4>1, <4>2, <4>3, <4>4, DeservesStays
    <3> QED
      BY <3>1 DEF EarnedInv
  <2>13. \/ CountOpen \/ ClearItem \/ MergeRefused \/ Merges \/ ShipFrees \/ ShipParks
         \/ \E c \in Cards : \/ ShipLocally(c) \/ Merge(c) \/ Dispatch(c) \/ AuthorEdits(c)
         => run' = run /\ tree' = tree
    BY DEF CountOpen, ClearItem, MergeRefused, Merges, ShipFrees, ShipParks, ShipLocally, Merge,
       Dispatch, AuthorEdits, treeVars
  <2> QED
    BY <1>2, <1>3, <2>1, <2>2, <2>3, <2>4, <2>5, <2>6, <2>7, <2>8, <2>9, <2>10, <2>11, <2>12,
       <2>13, NextCases
<1> QED
  BY <1>3, <1>4, StepGrows

LEMMA StepShipped ==
    ASSUME ShapeInv, EarnedInv, ShippedInv, Next, Undisturbed' PROVE ShippedInv'
<1>1. GoodInv /\ RequestInv /\ RunsFollow /\ \A r \in Runs : Good(run[r])
  BY StepFollows DEF ShapeInv, GoodInv
<1>2. Grows
  <2>1. ASSUME NEW r \in Runs, Moves(r) PROVE Grows
    BY <1>1, <2>1, MovesDo DEF Grows, shipVars, humanVars
  <2> QED
    BY <2>1, StepGrows
<1>3. ASSUME NEW p \in shipped
      PROVE  p[2] \in run'[p[1]].green \union meddled' \/ p[1] \in early'
  <2>1. p[1] \in Runs /\ run[p[1]].status = "passed"
    BY <1>1 DEF RequestInv
  <2>2. run'[p[1]].green = run[p[1]].green
    BY <1>1, <2>1 DEF RunsFollow, Follows, SameHead
  <2> QED
    BY <1>2, <2>2 DEF ShippedInv, Grows
<1>4. ASSUME NEW r \in Runs, run[r].status = "passed", run[r].slot # NoSlot, r \notin early
      PROVE  /\ run[r].head \in run[r].green
             /\ r \notin returned => tree[run[r].slot] \in run[r].green \union meddled
  <2>1. run[r].strict # "none"
    BY <1>1, <1>4 DEF Good, Placed
  <2> QED
    BY <1>4, <2>1 DEF EarnedInv, Deserves, Earns
<1>5. CASE shipped' = shipped
  BY <1>3, <1>5 DEF ShippedInv
<1>6. CASE \E c \in Cards : ShipLocally(c)
  <2>1. PICK c \in Cards : ShipLocally(c)
    BY <1>6
  <2>2. PICK r \in Latest(c) : /\ Ships(r) /\ run[r].status = "passed"
                               /\ shipped' = shipped \union {<<r, run[r].head>>}
    BY <2>1 DEF ShipLocally
  <2>3. r \in Runs /\ run[r].slot # NoSlot /\ run' = run
    BY <2>1, <2>2, ShipOf DEF Ships, ShipLocally
  <2>4. run'[r].green = run[r].green /\ (run[r].head \in run[r].green \/ r \in early')
    BY <1>2, <1>4, <2>2, <2>3 DEF Grows
  <2> QED
    BY <1>3, <2>2, <2>4 DEF ShippedInv
<1>7. CASE \E c \in Cards : ShipAsPr(c)
  <2>1. PICK c \in Cards : ShipAsPr(c)
    BY <1>7
  <2>2. PICK r \in Latest(c) : /\ Ships(r) /\ run[r].status = "passed"
                               /\ shipped' = shipped \union {<<r, tree[run[r].slot]>>}
    BY <2>1 DEF ShipAsPr
  <2>3. r \in Runs /\ run[r].slot # NoSlot /\ r \notin returned
    BY <2>2, ShipOf DEF Ships, Undisturbed
  <2>4. run'[r].green = run[r].green
    BY <1>1, <2>2, <2>3 DEF RunsFollow, Follows, SameHead
  <2>5. tree[run[r].slot] \in run'[r].green \union meddled' \/ r \in early'
    BY <1>2, <1>4, <2>2, <2>3, <2>4 DEF Grows
  <2> QED
    BY <1>3, <2>2, <2>5 DEF ShippedInv
<1>8. \/ Crash \/ CountOpen \/ ClearItem \/ MergeRefused \/ Merges \/ ShipResets \/ ShipFrees
      \/ ShipParks
      \/ \E r \in Runs :
           \/ Moves(r) \/ Lease(r) \/ Checkout(r) \/ Raise(r) \/ Resets(r) \/ Frees(r)
           \/ AgentCommits(r)
           \/ \E i \in 1 .. Len(run[r].findings) : ResolveFinding(r, i)
      \/ \E c \in Cards :
           \/ GateRun(c) \/ Merge(c) \/ Dispatch(c) \/ AuthorEdits(c) \/ AuthorCommits(c)
           \/ Cancel(c)
      => shipped' = shipped
  BY <1>1, MovesDo DEF Crash, CountOpen, ClearItem, MergeRefused, Merges, ShipResets, ShipFrees,
     ShipParks, Lease, Checkout, Raise, Resets, Frees, AgentCommits, ResolveFinding, GateRun,
     Merge, Dispatch, AuthorEdits, AuthorCommits, Cancel, shipVars
<1> QED
  BY <1>5, <1>6, <1>7, <1>8, NextCases

-----------------------------------------------------------------------------
(* The theorems.                                                            *)

\* As long as no cancel and no second ship disturbs them.
QuietInv == Undisturbed => ApartInv /\ EarnedInv /\ ShippedInv

LEMMA InitQuiet == Init => QuietInv
<1> SUFFICES ASSUME Init PROVE ApartInv /\ EarnedInv /\ ShippedInv
  BY DEF QuietInv
<1>1. \A r \in Runs : run[r].slot = NoSlot /\ Len(run[r].findings) = 0
  BY NoRowIs DEF Init
<1>2. ApartInv
  BY <1>1 DEF Init, ApartInv, Apart, Using, PoolInv, MergeInv
<1>3. EarnedInv
  BY <1>1 DEF EarnedInv, Deserves, FixIsEarned
<1> QED
  BY <1>2, <1>3 DEF Init, ShippedInv

LEMMA StepQuiet == ASSUME ShapeInv, QuietInv, [Next]_vars PROVE QuietInv'
<1>1. CASE Next
  <2> SUFFICES ASSUME Undisturbed' PROVE (ApartInv /\ EarnedInv /\ ShippedInv)'
    BY DEF QuietInv
  <2>1. ApartInv /\ EarnedInv /\ ShippedInv
    BY <1>1, UndisturbedBefore DEF QuietInv, ShapeInv
  <2> QED
    BY <1>1, <2>1, StepApart, StepEarned, StepShipped
<1>2. CASE UNCHANGED vars
  <2> USE <1>2 DEF vars, slotVars, treeVars, shipVars, humanVars
  <2>1. Undisturbed' => Undisturbed
    BY DEF Undisturbed
  <2>2. ApartInv => ApartInv'
    BY DEF ApartInv, Apart, PoolInv, MergeInv, Using, Returning
  <2>3. EarnedInv => EarnedInv'
    <3>1. Grows /\ run' = run /\ tree' = tree
      BY DEF Grows
    <3> QED
      BY <3>1, NoneEarns
  <2>4. ShippedInv => ShippedInv'
    BY DEF ShippedInv
  <2> QED
    BY <2>1, <2>2, <2>3, <2>4 DEF QuietInv
<1> QED
  BY <1>1, <1>2

LEMMA QuietHolds == Spec => []QuietInv
BY InitQuiet, StepQuiet, ShapeHolds, PTL DEF Spec

LEMMA ShippedIs == ShippedIsChecked <=> (Undisturbed => ShippedInv)
BY DEF ShippedIsChecked, ShippedInv

\* "only when every check is green and every finding resolved" of a passed run,
\* "only when the autofix earns the claim" of a fixed finding, "branches earn their
\* way out through the gate" of what is merged or pushed, and the human is asked
\* about what did not pass (gate.rs, run_pipeline, finish_gate_run, ship).
THEOREM VerdictsAreTrue == Spec => []VerdictsAreEarned
<1>1. ShapeInv /\ QuietInv => PassedIsEarned
  <2> SUFFICES ASSUME ShapeInv, QuietInv, NEW r \in Runs,
                      run[r].status = "passed", run[r].strict # "none", Undisturbed
               PROVE  /\ run[r].head \in run[r].green \/ r \in early
                      /\ \A i \in 1 .. run[r].noticed : ~run[r].findings[i].open
    BY DEF PassedIsEarned
  <2>1. run[r].slot # NoSlot /\ \A i \in 1 .. run[r].noticed : ~run[r].findings[i].open
    BY DEF ShapeInv, GoodInv, Good, Placed, Found
  <2>2. Earns(r, run[r], tree[run[r].slot])
    BY <2>1 DEF QuietInv, EarnedInv, Deserves
  <2> QED
    BY <2>1, <2>2 DEF Earns
<1>2. QuietInv => AutofixIsEarned
  BY DEF QuietInv, EarnedInv, Deserves, FixIsEarned, AutofixIsEarned
<1>3. QuietInv => ShippedIsChecked
  BY ShippedIs DEF QuietInv
<1>4. ShapeInv /\ QuietInv /\ HumanIsAsked => VerdictsAreEarned
  BY <1>1, <1>2, <1>3 DEF VerdictsAreEarned
<1> QED
  BY <1>4, ShapeHolds, QuietHolds, HumanKeepsAsked, PTL

\* "never the authoring worktree": a running gate has its worktree to itself, and
\* returning worktrees by force discards no author's work (gate.rs, checkout_head
\* and finalize_worktree).
THEOREM WorktreesAreTheGates == Spec => []WorktreesAreKept
<1>1. QuietInv => NothingDiscarded
  BY DEF QuietInv, ApartInv, PoolInv, NothingDiscarded
<1>2. ShapeInv /\ QuietInv => GateIsApart
  <2> SUFFICES ASSUME ShapeInv, QuietInv, Undisturbed PROVE GateIsApart
    BY DEF GateIsApart
  <2>1. ASSUME NEW r \in Runs, run[r].at \in Working PROVE Using(r)
    BY <2>1 DEF ShapeInv, GoodInv, Good, Placed, Using, Held
  <2>2. \A r \in Runs : Apart(r)
    BY DEF QuietInv, ApartInv
  <2> QED
    BY <2>1, <2>2 DEF GateIsApart, Apart
<1>3. ShapeInv /\ QuietInv => WorktreesAreKept
  BY <1>1, <1>2 DEF WorktreesAreKept
<1> QED
  BY <1>3, ShapeHolds, QuietHolds, PTL
==============================================================================
