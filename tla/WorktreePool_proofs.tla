-------------------------- MODULE WorktreePool_proofs --------------------------
(***************************************************************************)
(* Proofs about WorktreePool.  For every set of cards and handlers and     *)
(* every bound: the types, and that the pool can always make its next slot *)
(* as long as the daemon lives (Spec).  For requests one at a time, with   *)
(* crashes: a checkout has one owner, work is never discarded, and the     *)
(* pool implements Leases (the case of MCSpec without overlap).            *)
(***************************************************************************)
EXTENDS MC_WorktreePool, Integers, WellFoundedInduction, TLAPS

-----------------------------------------------------------------------------
(* Sets of numbers.                                                         *)

\* Some element of a set of numbers is the least ...
LEMMA LeastExists ==
    ASSUME NEW T, T \subseteq Nat, T # {}
    PROVE  \E x \in T : \A y \in T : x <= y
<1> DEFINE R == OpToRel(<, Nat)
<1>1. PICK x \in T : \A y \in T : ~(<<y, x>> \in R)
  BY NatLessThanWellFounded, WFMin
<1>2. ASSUME NEW a \in Nat, NEW b \in Nat, a < b PROVE <<a, b>> \in R
  BY <1>2 DEF OpToRel
<1> HIDE DEF R
<1>3. ASSUME NEW y \in T PROVE x <= y
  <2>1. x \in Nat /\ y \in Nat /\ ~(y < x)
    BY <1>1, <1>2
  <2> QED
    BY <2>1
<1> QED
  BY <1>3

\* ... and of a set with a bound, some element is the greatest.
LEMMA GreatestExists ==
    ASSUME NEW S, NEW n \in Nat, S \subseteq 0 .. n, S # {}
    PROVE  \E x \in S : \A y \in S : y <= x
<1> DEFINE T == {k \in 0 .. n : n - k \in S}
<1>1. ASSUME NEW y \in S PROVE n - y \in T /\ y \in 0 .. n
  <2>1. n - y \in 0 .. n /\ n - (n - y) = y
    OBVIOUS
  <2> QED
    BY <2>1
<1>2. PICK t \in T : \A y \in T : t <= y
  <2>1. T \subseteq Nat
    OBVIOUS
  <2>2. T # {}
    BY <1>1
  <2> HIDE DEF T
  <2> QED
    BY <2>1, <2>2, LeastExists
<1>3. t \in 0 .. n /\ n - t \in S
  OBVIOUS
<1>4. ASSUME NEW y \in S PROVE y <= n - t
  <2>1. t <= n - y /\ y \in 0 .. n
    BY <1>1, <1>2
  <2> HIDE DEF T
  <2> QED
    BY <1>3, <2>1
<1> QED
  BY <1>3, <1>4

\* find_available_worktree and the list of a cancel take a slot that is there.
LEMMA LowestIn == ASSUME NEW S, S \subseteq Slots, S # {} PROVE Lowest(S) \in S
<1>1. S \subseteq Nat
  BY PoolAssumption DEF Slots
<1>2. \E s \in S : \A t \in S : s <= t
  BY <1>1, LeastExists
<1> QED
  BY <1>2 DEF Lowest

\* next_worktree_slot answers with a number that no row has.
LEMMA NextSlotIsNew == NextSlot \in Nat /\ NextSlot \notin Rows
<1>1. CASE Rows = {}
  BY <1>1 DEF NextSlot
<1>2. CASE Rows # {}
  <2> DEFINE m == CHOOSE s \in Rows : \A t \in Rows : t <= s
  <2>1. Rows \subseteq 0 .. MaxSlots - 1 /\ MaxSlots \in Nat
    BY PoolAssumption DEF Rows, Slots
  <2>2. MaxSlots - 1 \in Nat
    <3>1. PICK r \in Rows : r \in 0 .. MaxSlots - 1
      BY <1>2, <2>1
    <3> QED
      BY <2>1, <3>1
  <2>3. \E s \in Rows : \A t \in Rows : t <= s
    BY <1>2, <2>1, <2>2, GreatestExists
  <2>4. m \in Rows /\ \A t \in Rows : t <= m
    BY <2>3
  <2>5. NextSlot = 1 + m
    BY <1>2 DEF NextSlot
  <2> HIDE DEF m
  <2> QED
    BY <2>1, <2>4, <2>5
<1> QED
  BY <1>1, <1>2

-----------------------------------------------------------------------------
(* Types.                                                                   *)

Plain   == [pc : {"find", "number", "kill", "list"}, card : Cards]
Slotted == [pc : {"claim", "retire", "add", "insert", "spawn"}, card : Cards, slot : Slots]
Listed  == [pc : {"return"}, card : Cards, todo : SUBSET Slots]
Held    == [pc : {"park", "ask", "reset", "free"}, card : Cards, todo : SUBSET Slots,
            slot : Slots, by : Cards \union {NoCard}]

\* What a handler holds at each of its steps.
LEMMA CallForms ==
    ASSUME TypeOK, NEW h \in Handlers
    PROVE  /\ call[h].pc \in {"find", "number", "kill", "list"} => call[h] \in Plain
           /\ call[h].pc \in {"claim", "retire", "add", "insert", "spawn"} => call[h] \in Slotted
           /\ call[h].pc = "return" => call[h] \in Listed
           /\ call[h].pc \in {"park", "ask", "reset", "free"} => call[h] \in Held
           /\ call[h].pc = "idle" => call[h] = Idle
<1>1. call[h] \in CallStates
  BY DEF TypeOK
<1>2. CASE call[h] = Idle
  BY <1>2 DEF Idle
<1>3. CASE call[h] \in Plain
  BY <1>3 DEF Plain
<1>4. CASE call[h] \in Slotted
  BY <1>4 DEF Slotted
<1>5. CASE call[h] \in Listed
  BY <1>5 DEF Listed
<1>6. CASE call[h] \in Held
  BY <1>6 DEF Held
<1> QED
  BY <1>1, <1>2, <1>3, <1>4, <1>5, <1>6 DEF CallStates, Plain, Slotted, Listed, Held

\* A handler that goes on keeps what it holds.
LEMMA GoesOn ==
    /\ \A x \in Plain, pc \in {"find", "number", "kill", "list"} :
          [x EXCEPT !.pc = pc] \in Plain /\ [x EXCEPT !.pc = pc].pc = pc
          /\ [x EXCEPT !.pc = pc].card = x.card
    /\ \A x \in Slotted, pc \in {"claim", "retire", "add", "insert", "spawn"} :
          [x EXCEPT !.pc = pc] \in Slotted /\ [x EXCEPT !.pc = pc].pc = pc
          /\ [x EXCEPT !.pc = pc].card = x.card /\ [x EXCEPT !.pc = pc].slot = x.slot
    /\ \A x \in Held, pc \in {"park", "ask", "reset", "free"} :
          [x EXCEPT !.pc = pc] \in Held /\ [x EXCEPT !.pc = pc].pc = pc
          /\ [x EXCEPT !.pc = pc].card = x.card /\ [x EXCEPT !.pc = pc].slot = x.slot
          /\ [x EXCEPT !.pc = pc].todo = x.todo /\ [x EXCEPT !.pc = pc].by = x.by
BY DEF Plain, Slotted, Held

LEMMA FormsAreStates == {Idle} \union Plain \union Slotted \union Listed \union Held = CallStates
BY DEF CallStates, Plain, Slotted, Listed, Held

LEMMA InitTyped == Init => TypeOK
<1> SUFFICES ASSUME Init PROVE TypeOK
  OBVIOUS
<1>1. call \in [Handlers -> CallStates]
  <2>1. Idle \in CallStates
    BY DEF CallStates
  <2> QED
    BY <2>1 DEF Init
<1> QED
  BY <1>1, PoolAssumption DEF Init, TypeOK

\* A handler's step leaves every handler in one of its states.
LEMMA CallTyped ==
    ASSUME TypeOK, NEW h \in Handlers, NEW x \in CallStates, call' = [call EXCEPT ![h] = x]
    PROVE  call' \in [Handlers -> CallStates]
BY DEF TypeOK

\* Going on to the next place of a request.
LEMMA GotoTyped ==
    ASSUME TypeOK, NEW h \in Handlers, NEW pc, Goto(h, pc),
           \/ call[h].pc \in {"find", "number", "kill", "list"}
              /\ pc \in {"find", "number", "kill", "list"}
           \/ call[h].pc \in {"claim", "retire", "add", "insert", "spawn"}
              /\ pc \in {"claim", "retire", "add", "insert", "spawn"}
           \/ call[h].pc \in {"park", "ask", "reset", "free"}
              /\ pc \in {"park", "ask", "reset", "free"}
    PROVE  call' \in [Handlers -> CallStates]
<1> DEFINE x == [call[h] EXCEPT !.pc = pc]
<1>1. x \in CallStates
  <2>1. x \in Plain \/ x \in Slotted \/ x \in Held
    <3>1. CASE call[h].pc \in {"find", "number", "kill", "list"}
               /\ pc \in {"find", "number", "kill", "list"}
      BY <3>1, CallForms, GoesOn
    <3>2. CASE call[h].pc \in {"claim", "retire", "add", "insert", "spawn"}
               /\ pc \in {"claim", "retire", "add", "insert", "spawn"}
      BY <3>2, CallForms, GoesOn
    <3>3. CASE call[h].pc \in {"park", "ask", "reset", "free"}
               /\ pc \in {"park", "ask", "reset", "free"}
      BY <3>3, CallForms, GoesOn
    <3> QED
      BY <3>1, <3>2, <3>3
  <2> HIDE DEF x
  <2> QED
    BY <2>1, FormsAreStates
<1>2. call' = [call EXCEPT ![h] = x]
  BY DEF Goto, TypeOK
<1> HIDE DEF x
<1> QED
  BY <1>1, <1>2, CallTyped

\* What a request carries from one place to the next.
LEMMA GotoKeeps ==
    ASSUME TypeOK, NEW h \in Handlers, NEW pc, Goto(h, pc),
           \/ call[h] \in Slotted /\ pc \in {"claim", "retire", "add", "insert", "spawn"}
           \/ call[h] \in Held /\ pc \in {"park", "ask", "reset", "free"}
    PROVE  /\ call'[h].pc = pc /\ call'[h].card = call[h].card /\ call'[h].slot = call[h].slot
           /\ call[h] \in Held => call'[h].todo = call[h].todo /\ call'[h].by = call[h].by
<1> DEFINE x == [call[h] EXCEPT !.pc = pc]
<1>1. call'[h] = x
  BY DEF Goto, TypeOK
<1>2. /\ x.pc = pc /\ x.card = call[h].card /\ x.slot = call[h].slot
      /\ call[h] \in Held => x.todo = call[h].todo /\ x.by = call[h].by
  <2>1. CASE call[h] \in Slotted /\ pc \in {"claim", "retire", "add", "insert", "spawn"}
    <3>1. x.pc = pc /\ x.card = call[h].card /\ x.slot = call[h].slot
      BY <2>1, GoesOn
    <3>2. call[h] \notin Held
      BY <2>1 DEF Slotted, Held
    <3> QED
      BY <3>1, <3>2
  <2>2. CASE call[h] \in Held /\ pc \in {"park", "ask", "reset", "free"}
    BY <2>2, GoesOn
  <2> QED
    BY <2>1, <2>2
<1> HIDE DEF x
<1> QED
  BY <1>1, <1>2

LEMMA FinishTyped ==
    ASSUME TypeOK, NEW h \in Handlers, Finish(h)
    PROVE  call' \in [Handlers -> CallStates]
BY FormsAreStates, CallTyped DEF Finish

LEMMA LeasingTyped ==
    ASSUME TypeOK, NEW h \in Handlers, Leasing(h)
    PROVE  TypeOK'
<1> USE PoolAssumption
<1>1. CASE LeaseFinds(h)
  <2> DEFINE x == IF Available = {} THEN [pc |-> "number", card |-> call[h].card]
                  ELSE [pc |-> IF Lowest(Available) \in dir THEN "claim" ELSE "retire",
                        card |-> call[h].card, slot |-> Lowest(Available)]
  <2>1. call[h] \in Plain
    BY <1>1, CallForms DEF LeaseFinds
  <2>2. Available # {} => Lowest(Available) \in Slots
    BY LowestIn DEF Available
  <2>3. x \in CallStates
    BY <2>1, <2>2, FormsAreStates DEF Plain, Slotted
  <2>4. call' = [call EXCEPT ![h] = x]
    BY <1>1 DEF LeaseFinds
  <2> HIDE DEF x
  <2>5. call' \in [Handlers -> CallStates]
    BY <2>3, <2>4, CallTyped
  <2> QED
    BY <1>1, <2>5 DEF LeaseFinds, TypeOK, rowVars, treeVars, agentVars
<1>2. CASE LeaseClaims(h)
  <2>1. call[h] \in Slotted
    BY <1>2, CallForms DEF LeaseClaims
  <2>2. call' \in [Handlers -> CallStates]
    BY <1>2, GotoTyped DEF LeaseClaims
  <2> QED
    BY <1>2, <2>1, <2>2 DEF LeaseClaims, TypeOK, Slotted, treeVars, agentVars
<1>3. CASE LeaseRetires(h)
  <2> DEFINE x == [pc |-> "number", card |-> call[h].card]
  <2>1. call[h] \in Slotted
    BY <1>3, CallForms DEF LeaseRetires
  <2>2. x \in CallStates
    BY <2>1, FormsAreStates DEF Plain, Slotted
  <2>3. call' = [call EXCEPT ![h] = x]
    BY <1>3 DEF LeaseRetires
  <2> HIDE DEF x
  <2>4. call' \in [Handlers -> CallStates]
    BY <2>2, <2>3, CallTyped
  <2> QED
    BY <1>3, <2>1, <2>4 DEF LeaseRetires, TypeOK, Slotted, treeVars, agentVars
<1>4. CASE LeaseNumbers(h)
  <2> DEFINE x == [pc |-> "add", card |-> call[h].card, slot |-> NextSlot]
  <2>1. call[h] \in Plain
    BY <1>4, CallForms DEF LeaseNumbers
  <2>2. NextSlot \in Slots
    BY <1>4, NextSlotIsNew DEF LeaseNumbers, Slots
  <2>3. x \in CallStates
    BY <2>1, <2>2, FormsAreStates DEF Plain, Slotted
  <2>4. call' = [call EXCEPT ![h] = x]
    BY <1>4 DEF LeaseNumbers
  <2> HIDE DEF x
  <2>5. call' \in [Handlers -> CallStates]
    BY <2>3, <2>4, CallTyped
  <2> QED
    BY <1>4, <2>5 DEF LeaseNumbers, TypeOK, rowVars, treeVars, agentVars
<1>5. CASE GitAdds(h)
  <2>1. call[h] \in Slotted
    BY <1>5, CallForms DEF GitAdds
  <2>2. call' \in [Handlers -> CallStates]
    BY <1>5, GotoTyped, FinishTyped DEF GitAdds
  <2> QED
    BY <1>5, <2>1, <2>2 DEF GitAdds, TypeOK, Slotted, rowVars, agentVars
<1>6. CASE LeaseInserts(h)
  <2>1. call[h] \in Slotted
    BY <1>6, CallForms DEF LeaseInserts
  <2>2. call' \in [Handlers -> CallStates]
    BY <1>6, GotoTyped DEF LeaseInserts
  <2> QED
    BY <1>6, <2>1, <2>2 DEF LeaseInserts, TypeOK, Slotted, treeVars, agentVars
<1>7. CASE Spawn(h)
  <2>1. call[h] \in Slotted
    BY <1>7, CallForms DEF Spawn
  <2>2. call' \in [Handlers -> CallStates]
    BY <1>7, FinishTyped DEF Spawn
  <2> QED
    BY <1>7, <2>1, <2>2 DEF Spawn, Launch, TypeOK, Slotted, rowVars, treeVars
<1>8. CASE SpawnFails(h)
  <2>1. call' \in [Handlers -> CallStates]
    BY <1>8, FinishTyped DEF SpawnFails
  <2> QED
    BY <1>8, <2>1 DEF SpawnFails, TypeOK, rowVars, treeVars, agentVars
<1> QED
  BY <1>1, <1>2, <1>3, <1>4, <1>5, <1>6, <1>7, <1>8 DEF Leasing

LEMMA ReturningTyped ==
    ASSUME TypeOK, NEW h \in Handlers, Returning(h)
    PROVE  TypeOK'
<1> USE PoolAssumption
<1>1. CASE CancelKills(h)
  <2>1. call' \in [Handlers -> CallStates]
    BY <1>1, GotoTyped DEF CancelKills
  <2> QED
    BY <1>1, <2>1 DEF CancelKills, TypeOK, rowVars, treeVars
<1>2. CASE CancelLists(h)
  <2> DEFINE x == [pc |-> "return", card |-> call[h].card,
                   todo |-> {s \in Slots : row[s] = "leased" /\ holder[s] = call[h].card}]
  <2>1. call[h] \in Plain
    BY <1>2, CallForms DEF CancelLists
  <2>2. x \in CallStates
    BY <2>1, FormsAreStates DEF Plain, Listed
  <2>3. call' = [call EXCEPT ![h] = x]
    BY <1>2 DEF CancelLists
  <2> HIDE DEF x
  <2>4. call' \in [Handlers -> CallStates]
    BY <2>2, <2>3, CallTyped
  <2> QED
    BY <1>2, <2>4 DEF CancelLists, TypeOK, rowVars, treeVars, agentVars
<1>3. CASE CancelDone(h)
  <2>1. call' \in [Handlers -> CallStates]
    BY <1>3, FinishTyped DEF CancelDone
  <2> QED
    BY <1>3, <2>1 DEF CancelDone, TypeOK, rowVars, treeVars, agentVars
<1>4. CASE ReleaseInspects(h)
  <2> DEFINE s == Lowest(call[h].todo)
             x == [pc |-> IF Unlanded(s) \/ s \notin dir THEN "park" ELSE "reset",
                   card |-> call[h].card, todo |-> call[h].todo \ {s}, slot |-> s,
                   by |-> holder[s]]
  <2>1. call[h] \in Listed
    BY <1>4, CallForms DEF ReleaseInspects
  <2>2. s \in Slots
    BY <1>4, <2>1, LowestIn DEF ReleaseInspects, Listed
  <2>3. call' = [call EXCEPT ![h] = x]
    BY <1>4 DEF ReleaseInspects
  <2>4. holder[s] \in Cards \union {NoCard}
    BY <2>2 DEF TypeOK
  <2>5. x \in CallStates
    <3> HIDE DEF s
    <3> QED
      BY <2>1, <2>2, <2>4, FormsAreStates DEF Listed, Held
  <2> HIDE DEF x
  <2>6. call' \in [Handlers -> CallStates]
    BY <2>3, <2>5, CallTyped
  <2> QED
    BY <1>4, <2>6 DEF ReleaseInspects, TypeOK, rowVars, treeVars, agentVars
<1>5. ASSUME call[h].pc \in {"park", "ask", "free"},
             call' = [call EXCEPT ![h] = Return(h, call[h].todo)]
      PROVE  call' \in [Handlers -> CallStates]
  <2>1. call[h] \in Held
    BY <1>5, CallForms
  <2>2. Return(h, call[h].todo) \in CallStates
    BY <2>1, FormsAreStates DEF Return, Held, Listed
  <2> QED
    BY <1>5, <2>2, CallTyped
<1>6. CASE ReleaseParks(h)
  <2>1. call[h] \in Held
    BY <1>6, CallForms DEF ReleaseParks
  <2>2. call' \in [Handlers -> CallStates]
    BY <1>5, <1>6, GotoTyped DEF ReleaseParks
  <2> QED
    BY <1>6, <2>1, <2>2 DEF ReleaseParks, TypeOK, Held, treeVars, agentVars
<1>7. CASE ReleaseAsks(h)
  <2>1. call[h] \in Held
    BY <1>7, CallForms DEF ReleaseAsks
  <2>2. call' \in [Handlers -> CallStates]
    BY <1>5, <1>7 DEF ReleaseAsks
  <2> QED
    BY <1>7, <2>1, <2>2 DEF ReleaseAsks, TypeOK, Held, rowVars, treeVars, agentVars
<1>8. CASE ReleaseResets(h)
  <2>1. call[h] \in Held
    BY <1>8, CallForms DEF ReleaseResets
  <2>2. call' \in [Handlers -> CallStates]
    BY <1>8, GotoTyped, FinishTyped DEF ReleaseResets
  <2> QED
    BY <1>8, <2>1, <2>2 DEF ReleaseResets, TypeOK, Held, rowVars, agentVars
<1>9. CASE ReleaseFrees(h)
  <2>1. call[h] \in Held
    BY <1>9, CallForms DEF ReleaseFrees
  <2>2. call' \in [Handlers -> CallStates]
    BY <1>5, <1>9 DEF ReleaseFrees
  <2> QED
    BY <1>9, <2>1, <2>2 DEF ReleaseFrees, TypeOK, Held, treeVars, agentVars
<1> QED
  BY <1>1, <1>2, <1>3, <1>4, <1>6, <1>7, <1>8, <1>9 DEF Returning
\* What the agents, the human and the daemon's end do.
Around ==
    \E s \in Slots :
       \/ AgentCommits(s) \/ Lands(s) \/ DirectoryGoes(s)
       \/ \E c \in Cards : AgentEdits(s, c) \/ AgentExits(s, c) \/ Resume(c, s)

LEMMA AroundTyped == TypeOK /\ Around => TypeOK'
<1> SUFFICES ASSUME TypeOK, Around PROVE TypeOK'
  OBVIOUS
<1>1. PICK s \in Slots :
         \/ AgentCommits(s) \/ Lands(s) \/ DirectoryGoes(s)
         \/ \E c \in Cards : AgentEdits(s, c) \/ AgentExits(s, c) \/ Resume(c, s)
  BY DEF Around
<1>2. CASE AgentCommits(s)
  BY <1>2 DEF AgentCommits, TypeOK, rowVars, agentVars
<1>3. CASE Lands(s)
  BY <1>3 DEF Lands, TypeOK, rowVars, agentVars
<1>4. CASE DirectoryGoes(s)
  BY <1>4 DEF DirectoryGoes, TypeOK, rowVars, agentVars
<1>5. ASSUME NEW c \in Cards, AgentEdits(s, c) PROVE TypeOK'
  BY <1>5 DEF AgentEdits, TypeOK, rowVars, agentVars
<1>6. ASSUME NEW c \in Cards, AgentExits(s, c) PROVE TypeOK'
  BY <1>6 DEF AgentExits, TypeOK, rowVars, treeVars
<1>7. ASSUME NEW c \in Cards, Resume(c, s) PROVE TypeOK'
  BY <1>7 DEF Resume, Launch, TypeOK, rowVars, treeVars
<1> QED
  BY <1>1, <1>2, <1>3, <1>4, <1>5, <1>6, <1>7

LEMMA DispatchTyped ==
    ASSUME TypeOK, NEW h \in Handlers, NEW c \in Cards, Dispatch(h, c) \/ Cancel(h, c)
    PROVE  TypeOK'
<1>1. CASE Dispatch(h, c)
  <2>1. PICK strategy \in Strategies : call' = [call EXCEPT ![h] = [pc |-> strategy, card |-> c]]
    BY <1>1 DEF Dispatch
  <2>2. [pc |-> strategy, card |-> c] \in CallStates
    BY PoolAssumption, FormsAreStates DEF Plain
  <2>3. call' \in [Handlers -> CallStates]
    BY <2>1, <2>2, CallTyped
  <2> QED
    BY <1>1, <2>3, PoolAssumption DEF Dispatch, TypeOK, rowVars, treeVars, agentVars
<1>2. CASE Cancel(h, c)
  <2>1. [pc |-> "kill", card |-> c] \in CallStates
    BY FormsAreStates DEF Plain
  <2>2. call' \in [Handlers -> CallStates]
    BY <1>2, <2>1, CallTyped DEF Cancel
  <2> QED
    BY <1>2, <2>2 DEF Cancel, TypeOK, rowVars, treeVars, agentVars
<1> QED
  BY <1>1, <1>2

LEMMA CrashTyped == TypeOK /\ Crash => TypeOK'
<1> SUFFICES ASSUME TypeOK, Crash PROVE TypeOK'
  OBVIOUS
<1>1. call' \in [Handlers -> CallStates]
  BY FormsAreStates DEF Crash
<1> QED
  BY <1>1, PoolAssumption DEF Crash, TypeOK, rowVars, treeVars

\* The steps, told apart once and for all.
LEMMA Steps ==
    ASSUME [Next]_vars
    PROVE  \/ Crash \/ Around \/ UNCHANGED vars
           \/ \E h \in Handlers :
                 Leasing(h) \/ Returning(h) \/ \E c \in Cards : Dispatch(h, c) \/ Cancel(h, c)
BY DEF Next, Around

LEMMA StepTyped == TypeOK /\ [Next]_vars => TypeOK'
<1> SUFFICES ASSUME TypeOK, [Next]_vars PROVE TypeOK'
  OBVIOUS
<1>1. CASE UNCHANGED vars
  BY <1>1 DEF vars, rowVars, treeVars, agentVars, TypeOK
<1> QED
  BY <1>1, Steps, CrashTyped, AroundTyped, LeasingTyped, ReturningTyped, DispatchTyped

\* Every variable keeps its type, for any cards, handlers and bounds.
THEOREM PoolTypeCorrect == Spec => []TypeOK
BY InitTyped, StepTyped, PTL DEF Spec

-----------------------------------------------------------------------------
(* The next slot can be made.                                               *)

\* A directory has a row, or the handler that made it is about to insert one.
DirsHaveRows ==
    crashes = 0 => \A s \in dir :
        row[s] # "none" \/ \E h \in Handlers : call[h].pc = "insert" /\ call[h].slot = s

LEMMA CreateInit == Init => DirsHaveRows
BY DEF Init, DirsHaveRows

\* Directories and rows stay when no handler about to insert a row moves.
LEMMA DirsFrame ==
    ASSUME DirsHaveRows, crashes' = crashes, dir' \subseteq dir,
           \A s \in dir : row'[s] # "none" \/ row'[s] = row[s],
           \A h \in Handlers : call[h].pc = "insert" => call'[h] = call[h]
    PROVE  DirsHaveRows'
BY DEF DirsHaveRows

\* A handler's step, unless it made a directory or inserts a row.
LEMMA DirsFrameStep ==
    ASSUME DirsHaveRows, TypeOK, crashes' = crashes, dir' \subseteq dir,
           \A s \in dir : row'[s] # "none" \/ row'[s] = row[s],
           NEW h \in Handlers, call[h].pc # "insert",
           NEW x, call' = [call EXCEPT ![h] = x]
    PROVE  DirsHaveRows'
<1>1. \A g \in Handlers : call[g].pc = "insert" => call'[g] = call[g]
  BY DEF TypeOK
<1> QED
  BY <1>1, DirsFrame

LEMMA CreateLeasing ==
    ASSUME TypeOK, DirsHaveRows, NEW h \in Handlers, Leasing(h)
    PROVE  DirsHaveRows'
<1>1. CASE LeaseFinds(h)
  BY <1>1, DirsFrameStep DEF LeaseFinds, rowVars, treeVars, TypeOK
<1>2. CASE LeaseClaims(h) \/ LeaseRetires(h)
  <2>1. \A s \in dir : row'[s] # "none" \/ row'[s] = row[s]
    BY <1>2 DEF LeaseClaims, LeaseRetires, TypeOK
  <2>2. call[h].pc # "insert" /\ crashes' = crashes /\ dir' = dir
    BY <1>2 DEF LeaseClaims, LeaseRetires, treeVars
  <2> QED
    BY <1>2, <2>1, <2>2, DirsFrameStep DEF LeaseClaims, LeaseRetires, Goto
<1>3. CASE LeaseNumbers(h)
  BY <1>3, DirsFrameStep DEF LeaseNumbers, rowVars, treeVars
<1>4. CASE GitAdds(h)
  <2>1. CASE call[h].slot \in dir
    BY <1>4, <2>1, DirsFrameStep DEF GitAdds, Finish, rowVars
  <2>2. CASE call[h].slot \notin dir
    <3> DEFINE x == [call[h] EXCEPT !.pc = "insert"]
    <3>1. call[h] \in Slotted /\ call[h].pc = "add"
      BY <1>4, CallForms DEF GitAdds
    <3>2. x.pc = "insert" /\ x.slot = call[h].slot
      BY <3>1, GoesOn
    <3>3. call' = [call EXCEPT ![h] = x] /\ dir' = dir \union {call[h].slot}
      BY <1>4, <2>2 DEF GitAdds, Goto
    <3>4. row' = row /\ crashes' = crashes
      BY <1>4 DEF GitAdds, rowVars
    <3> HIDE DEF x
    <3>5. call'[h] = x /\ \A g \in Handlers : call[g].pc = "insert" => call'[g] = call[g]
      BY <3>1, <3>3 DEF TypeOK
    <3> QED
      BY <3>2, <3>3, <3>4, <3>5 DEF DirsHaveRows
  <2> QED
    BY <2>1, <2>2
<1>5. CASE LeaseInserts(h)
  <2>1. call[h] \in Slotted
    BY <1>5, CallForms DEF LeaseInserts
  <2>2. row'[call[h].slot] = "leased" /\ \A s \in Slots : row'[s] # "none" \/ row'[s] = row[s]
    BY <1>5, <2>1 DEF LeaseInserts, TypeOK, Slotted
  <2>3. \A g \in Handlers : g # h => call'[g] = call[g]
    BY <1>5 DEF LeaseInserts, Goto, TypeOK
  <2>4. dir' = dir /\ crashes' = crashes /\ dir \subseteq Slots
    BY <1>5 DEF LeaseInserts, treeVars, TypeOK
  <2> QED
    BY <2>2, <2>3, <2>4 DEF DirsHaveRows
<1>6. CASE Spawn(h) \/ SpawnFails(h)
  BY <1>6, DirsFrameStep DEF Spawn, SpawnFails, Finish, rowVars, treeVars
<1> QED
  BY <1>1, <1>2, <1>3, <1>4, <1>5, <1>6 DEF Leasing

LEMMA CreateReturning ==
    ASSUME TypeOK, DirsHaveRows, NEW h \in Handlers, Returning(h)
    PROVE  DirsHaveRows'
<1>1. call[h].pc # "insert" /\ crashes' = crashes
  BY DEF Returning, CancelKills, CancelLists, CancelDone, ReleaseInspects, ReleaseParks,
         ReleaseAsks, ReleaseResets, ReleaseFrees
<1>2. dir' = dir
  BY DEF Returning, CancelKills, CancelLists, CancelDone, ReleaseInspects, ReleaseParks,
         ReleaseAsks, ReleaseResets, ReleaseFrees, treeVars
<1>3. \A s \in dir : row'[s] # "none" \/ row'[s] = row[s]
  BY DEF Returning, CancelKills, CancelLists, CancelDone, ReleaseInspects, ReleaseParks,
         ReleaseAsks, ReleaseResets, ReleaseFrees, rowVars, TypeOK
<1>4. \A g \in Handlers : g # h => call'[g] = call[g]
  BY DEF Returning, CancelKills, CancelLists, CancelDone, ReleaseInspects, ReleaseParks,
         ReleaseAsks, ReleaseResets, ReleaseFrees, Goto, Finish, TypeOK
<1> QED
  BY <1>1, <1>2, <1>3, <1>4, DirsFrame

LEMMA CreateStep == TypeOK /\ DirsHaveRows /\ [Next]_vars => DirsHaveRows'
<1> SUFFICES ASSUME TypeOK, DirsHaveRows, [Next]_vars PROVE DirsHaveRows'
  OBVIOUS
<1>1. CASE UNCHANGED vars
  BY <1>1, DirsFrame DEF vars, rowVars, treeVars
<1>2. CASE Crash
  BY <1>2 DEF Crash, DirsHaveRows, TypeOK
<1>3. CASE Around
  <2>1. call' = call /\ crashes' = crashes /\ row' = row /\ dir' \subseteq dir
    BY <1>3 DEF Around, AgentCommits, Lands, DirectoryGoes, AgentEdits, AgentExits, Resume,
                rowVars, treeVars
  <2> QED
    BY <2>1, DirsFrame
<1>4. ASSUME NEW h \in Handlers, NEW c \in Cards, Dispatch(h, c) \/ Cancel(h, c)
      PROVE  DirsHaveRows'
  <2>1. call[h].pc # "insert" /\ crashes' = crashes /\ row' = row /\ dir' = dir
    BY <1>4 DEF Dispatch, Cancel, rowVars, treeVars
  <2>2. \A g \in Handlers : g # h => call'[g] = call[g]
    BY <1>4 DEF Dispatch, Cancel, TypeOK
  <2> QED
    BY <2>1, <2>2, DirsFrame
<1> QED
  BY <1>1, <1>2, <1>3, <1>4, Steps, CreateLeasing, CreateReturning

LEMMA CreateHolds == TypeOK /\ DirsHaveRows => CanCreate
<1> SUFFICES ASSUME TypeOK, DirsHaveRows, crashes = 0, \A h \in Handlers : call[h] = Idle,
                    NextSlot \in dir
             PROVE  FALSE
  BY DEF CanCreate
<1>1. row[NextSlot] # "none"
  BY DEF DirsHaveRows, Idle
<1>2. NextSlot \in Rows
  BY <1>1 DEF Rows, TypeOK
<1> QED
  BY <1>2, NextSlotIsNew

\* As long as the daemon lives, the directory of the next new slot is free
\* whenever no request is under way, whatever requests overlapped before.
THEOREM NextSlotIsFree == Spec => []CanCreate
<1>1. Spec => [](TypeOK /\ DirsHaveRows)
  BY InitTyped, StepTyped, CreateInit, CreateStep, PTL DEF Spec
<1> QED
  BY <1>1, CreateHolds, PTL

-----------------------------------------------------------------------------
(* Requests one at a time.                                                  *)

Alone == \A g, h \in Handlers : call[g] # Idle /\ call[h] # Idle => g = h

NoAgents(c)  == \A s \in Slots : c \notin agents[s]
HeldBy(s, c) == row[s] = "leased" /\ holder[s] = c

\* What a handler still knows of the rows and the checkouts when it acts on
\* what it read before.
Sound(x) ==
    /\ x.pc \in {"claim", "retire"} => row[x.slot] = "available"
    /\ x.pc \in {"add", "insert"} => row[x.slot] = "none"
    /\ x.pc = "spawn" => HeldBy(x.slot, x.card)
    /\ x.pc \in {"list", "return", "park", "ask", "reset", "free"} => NoAgents(x.card)
    /\ x.pc \in {"return", "park", "ask", "reset", "free"} =>
          \A s \in x.todo : HeldBy(s, x.card)
    /\ x.pc \in {"park", "ask", "reset", "free"} => x.slot \notin x.todo
    /\ x.pc \in {"park", "reset", "free"} => HeldBy(x.slot, x.card) /\ x.by = x.card
    /\ x.pc \in {"reset", "free"} => ~Unlanded(x.slot)
    /\ x.pc = "ask" => row[x.slot] = "dirty"

SerialInv ==
    /\ Alone
    /\ \A h \in Handlers : Sound(call[h])
    /\ AgentsHoldLease /\ WorkIsHeld /\ NothingDiscarded
    /\ ParkedIsAsked

LEMMA SerialInit == Init => SerialInv
<1> SUFFICES ASSUME Init PROVE SerialInv
  OBVIOUS
<1>1. \A h \in Handlers : Sound(call[h])
  BY DEF Init, Sound, Idle
<1> QED
  BY <1>1 DEF Init, SerialInv, Alone, AgentsHoldLease, WorkIsHeld, NothingDiscarded, ParkedIsAsked

\* While a request is under way there is no other: what is left to show of its
\* step is about this request and about the rows, checkouts and agents.
LEMMA SerialFrame ==
    ASSUME Alone, OneAtATime, NEW h \in Handlers, call[h] # Idle \/ call'[h] # Idle,
           \A g \in Handlers : g # h => call'[g] = call[g],
           Sound(call[h])', AgentsHoldLease', WorkIsHeld', NothingDiscarded', ParkedIsAsked'
    PROVE  SerialInv'
<1>1. Alone'
  BY DEF OneAtATime, Alone
<1>2. ASSUME NEW g \in Handlers, g # h PROVE Sound(call[g])'
  <2>1. call'[g] = Idle
    BY <1>1, <1>2 DEF Alone
  <2> QED
    BY <2>1 DEF Sound, Idle
<1> QED
  BY <1>1, <1>2 DEF SerialInv

\* A parked slot was asked about, but by the request that is about to ask.
Asked == crashes = 0 => \A s \in Slots : row[s] = "dirty" => s \in asked

LEMMA AllAsked ==
    ASSUME Alone, ParkedIsAsked, NEW h \in Handlers, call[h] # Idle, call[h].pc # "ask"
    PROVE  Asked
<1>1. \A g \in Handlers : call[g].pc # "ask"
  BY DEF Alone, Idle
<1> QED
  BY <1>1 DEF ParkedIsAsked, Asked

LEMMA NoneParks ==
    ASSUME Asked, crashes' = crashes, asked \subseteq asked',
           \A s \in Slots : row'[s] = "dirty" => row[s] = "dirty"
    PROVE  ParkedIsAsked'
BY DEF Asked, ParkedIsAsked

LEMMA SerialLeasing ==
    ASSUME TypeOK, SerialInv, OneAtATime, NEW h \in Handlers, Leasing(h)
    PROVE  SerialInv'
<1>1. /\ call[h] # Idle /\ call[h].pc # "ask" /\ crashes' = crashes /\ asked' = asked
      /\ edits' = edits /\ commits' = commits /\ lost' = lost
  BY DEF Leasing, LeaseFinds, LeaseClaims, LeaseRetires, LeaseNumbers, GitAdds, LeaseInserts,
         Spawn, SpawnFails, Idle, treeVars
<1>2. \A g \in Handlers : g # h => call'[g] = call[g]
  BY DEF Leasing, LeaseFinds, LeaseClaims, LeaseRetires, LeaseNumbers, GitAdds, LeaseInserts,
         Spawn, SpawnFails, Goto, Finish, TypeOK
<1>3. /\ Alone /\ Asked /\ AgentsHoldLease /\ WorkIsHeld /\ NothingDiscarded /\ Sound(call[h])
      /\ NothingDiscarded'
  BY <1>1, AllAsked DEF SerialInv, NothingDiscarded
<1>4. SUFFICES Sound(call[h])' /\ AgentsHoldLease' /\ WorkIsHeld'
               /\ \A s \in Slots : row'[s] = "dirty" => row[s] = "dirty"
  BY <1>1, <1>2, <1>3, SerialFrame, NoneParks
<1>5. CASE LeaseFinds(h)
  <2>1. row' = row /\ holder' = holder /\ agents' = agents
    BY <1>5 DEF LeaseFinds, rowVars, agentVars
  <2>2. CASE Available = {}
    <3>1. call'[h].pc = "number"
      BY <1>5, <2>2 DEF LeaseFinds, TypeOK
    <3> QED
      BY <1>1, <1>3, <2>1, <3>1 DEF Sound, AgentsHoldLease, WorkIsHeld
  <2>3. CASE Available # {}
    <3>1. call'[h].pc \in {"claim", "retire"} /\ call'[h].slot = Lowest(Available)
      BY <1>5, <2>3 DEF LeaseFinds, TypeOK
    <3>2. row[Lowest(Available)] = "available"
      BY <2>3, LowestIn DEF Available
    <3> QED
      BY <1>1, <1>3, <2>1, <3>1, <3>2 DEF Sound, AgentsHoldLease, WorkIsHeld
  <2> QED
    BY <2>2, <2>3
<1>6. CASE LeaseClaims(h) \/ LeaseInserts(h)
  <2> DEFINE s == call[h].slot  c == call[h].card
  <2>1. call[h] \in Slotted
    BY <1>6, CallForms DEF LeaseClaims, LeaseInserts
  <2>2. s \in Slots /\ row[s] \in {"available", "none"}
    BY <1>3, <1>6, <2>1 DEF Sound, LeaseClaims, LeaseInserts, Slotted
  <2>3. row' = [row EXCEPT ![s] = "leased"] /\ holder' = [holder EXCEPT ![s] = c]
        /\ agents' = agents
    BY <1>6 DEF LeaseClaims, LeaseInserts, agentVars
  <2>4. call'[h].pc = "spawn" /\ call'[h].slot = s /\ call'[h].card = c
    BY <1>6, <2>1, GotoKeeps DEF LeaseClaims, LeaseInserts
  <2> HIDE DEF s, c
  <2>5. row'[s] = "leased" /\ holder'[s] = c
    BY <2>2, <2>3 DEF TypeOK
  <2> QED
    BY <1>1, <1>3, <2>2, <2>3, <2>4, <2>5 DEF Sound, AgentsHoldLease, WorkIsHeld, HeldBy, TypeOK
<1>7. CASE LeaseRetires(h)
  <2> DEFINE s == call[h].slot
  <2>1. call[h] \in Slotted
    BY <1>7, CallForms DEF LeaseRetires
  <2>2. s \in Slots /\ row[s] = "available"
    BY <1>3, <1>7, <2>1 DEF Sound, LeaseRetires, Slotted
  <2>3. row' = [row EXCEPT ![s] = "retired"] /\ holder' = [holder EXCEPT ![s] = NoCard]
        /\ agents' = agents /\ call'[h].pc = "number"
    BY <1>7 DEF LeaseRetires, agentVars, TypeOK
  <2> HIDE DEF s
  <2> QED
    BY <1>1, <1>3, <2>2, <2>3 DEF Sound, AgentsHoldLease, WorkIsHeld, TypeOK
<1>8. CASE LeaseNumbers(h)
  <2>1. row' = row /\ holder' = holder /\ agents' = agents
    BY <1>8 DEF LeaseNumbers, rowVars, agentVars
  <2>2. call'[h].pc = "add" /\ call'[h].slot = NextSlot /\ NextSlot \in Slots
    BY <1>8, NextSlotIsNew, PoolAssumption DEF LeaseNumbers, TypeOK, Slots
  <2>3. row[NextSlot] = "none"
    BY <2>2, NextSlotIsNew DEF Rows
  <2> QED
    BY <1>1, <1>3, <2>1, <2>2, <2>3 DEF Sound, AgentsHoldLease, WorkIsHeld
<1>9. CASE GitAdds(h)
  <2>1. row' = row /\ holder' = holder /\ agents' = agents
    BY <1>9 DEF GitAdds, rowVars, agentVars
  <2>2. call[h] \in Slotted /\ row[call[h].slot] = "none"
    BY <1>3, <1>9, CallForms DEF GitAdds, Sound
  <2>3. \/ call'[h].pc = "idle"
        \/ call'[h].pc = "insert" /\ call'[h].slot = call[h].slot
    <3>1. Finish(h) => call'[h].pc = "idle"
      BY DEF Finish, Idle, TypeOK
    <3> QED
      BY <1>9, <2>2, <3>1, GotoKeeps DEF GitAdds
  <2> QED
    BY <1>1, <1>3, <2>1, <2>2, <2>3 DEF Sound, AgentsHoldLease, WorkIsHeld
<1>10. CASE Spawn(h)
  <2> DEFINE s == call[h].slot  c == call[h].card
  <2>1. call[h] \in Slotted /\ call[h].pc = "spawn"
    BY <1>10, CallForms DEF Spawn
  <2>2. s \in Slots /\ row[s] = "leased" /\ holder[s] = c
    BY <1>3, <2>1 DEF Sound, HeldBy, Slotted
  <2>3. row' = row /\ holder' = holder /\ agents' = [agents EXCEPT ![s] = @ \union {c}]
        /\ call'[h].pc = "idle"
    BY <1>10 DEF Spawn, Launch, Finish, Idle, rowVars, TypeOK
  <2> HIDE DEF s, c
  <2> QED
    BY <1>1, <1>3, <2>2, <2>3 DEF Sound, AgentsHoldLease, WorkIsHeld, TypeOK
<1>11. CASE SpawnFails(h)
  <2>1. row' = row /\ holder' = holder /\ agents' = agents /\ call'[h].pc = "idle"
    BY <1>11 DEF SpawnFails, Finish, Idle, rowVars, agentVars, TypeOK
  <2> QED
    BY <1>1, <1>3, <2>1 DEF Sound, AgentsHoldLease, WorkIsHeld
<1> QED
  BY <1>5, <1>6, <1>7, <1>8, <1>9, <1>10, <1>11 DEF Leasing

LEMMA SerialReturning ==
    ASSUME TypeOK, SerialInv, OneAtATime, NEW h \in Handlers, Returning(h)
    PROVE  SerialInv'
<1> DEFINE c == call[h].card  s == call[h].slot  todo == call[h].todo
<1>1. call[h] # Idle /\ crashes' = crashes /\ asked \subseteq asked' /\ commits' = commits
  BY DEF Returning, CancelKills, CancelLists, CancelDone, ReleaseInspects, ReleaseParks,
         ReleaseAsks, ReleaseResets, ReleaseFrees, Idle, treeVars
<1>2. \A g \in Handlers : g # h => call'[g] = call[g]
  BY DEF Returning, CancelKills, CancelLists, CancelDone, ReleaseInspects, ReleaseParks,
         ReleaseAsks, ReleaseResets, ReleaseFrees, Goto, Finish, TypeOK
<1>3. /\ Alone /\ ParkedIsAsked /\ AgentsHoldLease /\ WorkIsHeld /\ NothingDiscarded
      /\ Sound(call[h]) /\ (call[h].pc # "ask" => Asked)
  BY <1>1, AllAsked DEF SerialInv
<1>4. SUFFICES Sound(call[h])' /\ AgentsHoldLease' /\ WorkIsHeld' /\ NothingDiscarded'
               /\ ParkedIsAsked'
  BY <1>1, <1>2, <1>3, SerialFrame
<1>5. CASE CancelKills(h)
  <2>1. call[h] \in Plain /\ call[h].pc = "kill"
    BY <1>5, CallForms DEF CancelKills
  <2>2. call'[h].pc = "list" /\ call'[h].card = c
    <3> DEFINE x == [call[h] EXCEPT !.pc = "list"]
    <3>1. call'[h] = x
      BY <1>5 DEF CancelKills, Goto, TypeOK
    <3>2. x.pc = "list" /\ x.card = c
      BY <2>1, GoesOn
    <3> HIDE DEF x
    <3> QED
      BY <3>1, <3>2
  <2>3. row' = row /\ holder' = holder /\ edits' = edits /\ lost' = lost
        /\ agents' = [t \in Slots |-> agents[t] \ {c}]
    BY <1>5 DEF CancelKills, rowVars, treeVars
  <2> HIDE DEF c
  <2>4. Sound(call[h])'
    BY <2>2, <2>3 DEF Sound, NoAgents
  <2> QED
    BY <1>1, <1>3, <2>1, <2>3, <2>4, NoneParks
       DEF AgentsHoldLease, WorkIsHeld, NothingDiscarded, TypeOK
<1>6. CASE CancelLists(h)
  <2>1. call[h] \in Plain /\ call[h].pc = "list" /\ NoAgents(c)
    BY <1>3, <1>6, CallForms DEF CancelLists, Sound
  <2>2. call'[h].pc = "return" /\ call'[h].card = c
        /\ call'[h].todo = {t \in Slots : row[t] = "leased" /\ holder[t] = c}
    BY <1>6 DEF CancelLists, TypeOK
  <2>3. row' = row /\ holder' = holder /\ edits' = edits /\ lost' = lost /\ agents' = agents
    BY <1>6 DEF CancelLists, rowVars, treeVars, agentVars
  <2> HIDE DEF c
  <2>4. Sound(call[h])'
    BY <2>1, <2>2, <2>3 DEF Sound, NoAgents, HeldBy
  <2> QED
    BY <1>1, <1>3, <2>1, <2>3, <2>4, NoneParks
       DEF AgentsHoldLease, WorkIsHeld, NothingDiscarded, TypeOK
<1>7. CASE CancelDone(h)
  <2>1. call'[h].pc = "idle" /\ call[h].pc = "return"
    BY <1>7 DEF CancelDone, Finish, Idle, TypeOK
  <2>2. row' = row /\ holder' = holder /\ edits' = edits /\ lost' = lost /\ agents' = agents
    BY <1>7 DEF CancelDone, rowVars, treeVars, agentVars
  <2> QED
    BY <1>1, <1>3, <2>1, <2>2, NoneParks
       DEF Sound, AgentsHoldLease, WorkIsHeld, NothingDiscarded
<1>8. CASE ReleaseInspects(h)
  <2> DEFINE t == Lowest(todo)
  <2>1. call[h] \in Listed /\ call[h].pc = "return" /\ todo # {}
    BY <1>8, CallForms DEF ReleaseInspects
  <2>2. t \in todo /\ todo \subseteq Slots
    BY <2>1, LowestIn DEF Listed
  <2>3. NoAgents(c) /\ \A r \in todo : HeldBy(r, c)
    BY <1>3, <2>1 DEF Sound
  <2>4. /\ call'[h].pc = IF Unlanded(t) \/ t \notin dir THEN "park" ELSE "reset"
        /\ call'[h].card = c /\ call'[h].todo = todo \ {t}
        /\ call'[h].slot = t /\ call'[h].by = holder[t]
    BY <1>8 DEF ReleaseInspects, TypeOK
  <2>5. row' = row /\ holder' = holder /\ edits' = edits /\ lost' = lost /\ agents' = agents
    BY <1>8 DEF ReleaseInspects, rowVars, treeVars, agentVars
  <2> HIDE DEF c, todo, t
  <2>6. Sound(call[h])'
    <3>1. call'[h].pc \in {"park", "reset"} /\ (call'[h].pc = "reset" => ~Unlanded(t))
      BY <2>4
    <3> QED
      BY <1>1, <2>2, <2>3, <2>4, <2>5, <3>1 DEF Sound, NoAgents, HeldBy, Unlanded
  <2> QED
    BY <1>1, <1>3, <2>1, <2>5, <2>6, NoneParks DEF AgentsHoldLease, WorkIsHeld, NothingDiscarded
<1>9. ASSUME call' = [call EXCEPT ![h] = Return(h, todo)]
      PROVE  call'[h].pc = "return" /\ call'[h].card = c /\ call'[h].todo = todo
  BY <1>9 DEF Return, TypeOK
<1>10. ASSUME call[h].pc \in {"park", "ask", "reset", "free"}
       PROVE  /\ call[h] \in Held /\ s \in Slots /\ c \in Cards /\ todo \subseteq Slots
              /\ NoAgents(c) /\ s \notin todo /\ \A r \in todo : HeldBy(r, c)
              /\ call[h].pc # "ask" => HeldBy(s, c) /\ call[h].by = c /\ agents[s] = {}
  <2>1. call[h] \in Held
    BY <1>10, CallForms
  <2>2. s \in Slots /\ c \in Cards /\ todo \subseteq Slots
    BY <2>1 DEF Held
  <2>3. /\ NoAgents(c) /\ s \notin todo /\ \A r \in todo : HeldBy(r, c)
        /\ call[h].pc # "ask" => HeldBy(s, c) /\ call[h].by = c
    BY <1>3, <1>10 DEF Sound
  <2> HIDE DEF c, s, todo
  <2>4. HeldBy(s, c) => agents[s] = {}
    BY <1>3, <2>2, <2>3 DEF NoAgents, HeldBy, AgentsHoldLease
  <2> QED
    BY <2>1, <2>2, <2>3, <2>4
<1>11. CASE ReleaseParks(h)
  <2>1. call[h].pc = "park"
    BY <1>11 DEF ReleaseParks
  <2>2. call[h].by # NoCard
    BY <1>10, <2>1, PoolAssumption
  <2>3. call'[h].pc = "ask" /\ call'[h].card = c /\ call'[h].slot = s /\ call'[h].todo = todo
    BY <1>10, <1>11, <2>1, <2>2, GotoKeeps DEF ReleaseParks
  <2>4. row' = [row EXCEPT ![s] = "dirty"] /\ holder' = [holder EXCEPT ![s] = c]
        /\ edits' = edits /\ lost' = lost /\ agents' = agents /\ asked' = asked
    BY <1>10, <1>11, <2>1 DEF ReleaseParks, treeVars, agentVars
  <2>5. /\ s \in Slots /\ c \in Cards /\ todo \subseteq Slots /\ agents[s] = {}
        /\ NoAgents(c) /\ s \notin todo /\ HeldBy(s, c) /\ \A r \in todo : HeldBy(r, c)
    BY <1>10, <2>1
  <2> HIDE DEF c, s, todo
  <2>6. Sound(call[h])'
    BY <2>3, <2>4, <2>5 DEF Sound, NoAgents, HeldBy, TypeOK
  <2>7. AgentsHoldLease' /\ WorkIsHeld' /\ NothingDiscarded'
    BY <1>1, <1>3, <2>4, <2>5 DEF AgentsHoldLease, WorkIsHeld, NothingDiscarded, HeldBy, TypeOK
  <2>8. ParkedIsAsked'
    BY <1>1, <1>3, <2>1, <2>3, <2>4 DEF ParkedIsAsked, Asked, TypeOK
  <2> QED
    BY <2>6, <2>7, <2>8
<1>12. CASE ReleaseAsks(h)
  <2>1. call[h].pc = "ask" /\ row[s] = "dirty"
    BY <1>3, <1>12 DEF ReleaseAsks, Sound
  <2>2. call'[h].pc = "return" /\ call'[h].card = c /\ call'[h].todo = todo
    BY <1>9, <1>12 DEF ReleaseAsks
  <2>3. row' = row /\ holder' = holder /\ edits' = edits /\ lost' = lost /\ agents' = agents
        /\ asked' = asked \union {s}
    BY <1>12 DEF ReleaseAsks, rowVars, treeVars, agentVars
  <2>4. NoAgents(c) /\ \A r \in todo : HeldBy(r, c)
    BY <1>10, <2>1
  <2>5. \A g \in Handlers : call[g].pc = "ask" => g = h
    BY <1>1, <1>3 DEF Alone, Idle
  <2>6. ParkedIsAsked'
    BY <1>1, <1>3, <2>3, <2>5 DEF ParkedIsAsked
  <2> HIDE DEF c, s, todo
  <2>7. Sound(call[h])'
    BY <2>2, <2>3, <2>4 DEF Sound, NoAgents, HeldBy
  <2> QED
    BY <1>1, <1>3, <2>3, <2>6, <2>7 DEF AgentsHoldLease, WorkIsHeld, NothingDiscarded
<1>13. CASE ReleaseResets(h)
  <2>1. call[h].pc = "reset"
    BY <1>13 DEF ReleaseResets
  <2>2. edits[s] = {} /\ commits[s] = {}
    BY <1>3, <2>1 DEF Sound, Unlanded
  <2>3. row' = row /\ holder' = holder /\ agents' = agents /\ edits' = edits /\ lost' = lost
    <3>1. row' = row /\ holder' = holder /\ agents' = agents
      BY <1>13 DEF ReleaseResets, rowVars, agentVars
    <3>2. CASE edits' = [edits EXCEPT ![s] = {}] /\ lost' = lost \union edits[s]
      <4> HIDE DEF s
      <4> QED
        BY <2>2, <3>1, <3>2 DEF TypeOK
    <3>3. CASE UNCHANGED <<edits, lost>>
      BY <3>1, <3>3
    <3> QED
      BY <1>13, <3>2, <3>3 DEF ReleaseResets
  <2>4. \/ call'[h].pc = "idle"
        \/ call'[h].pc = "free" /\ call'[h].card = c /\ call'[h].slot = s
           /\ call'[h].todo = todo /\ call'[h].by = call[h].by
    <3>1. Finish(h) => call'[h].pc = "idle"
      BY DEF Finish, Idle, TypeOK
    <3> QED
      BY <1>10, <1>13, <2>1, <3>1, GotoKeeps DEF ReleaseResets
  <2>5. /\ NoAgents(c) /\ s \notin todo /\ \A r \in todo : HeldBy(r, c)
        /\ HeldBy(s, c) /\ call[h].by = c
    BY <1>10, <2>1
  <2> HIDE DEF c, s, todo
  <2>6. Sound(call[h])'
    BY <1>1, <2>2, <2>3, <2>4, <2>5 DEF Sound, NoAgents, HeldBy, Unlanded
  <2> QED
    BY <1>1, <1>3, <2>1, <2>3, <2>6, NoneParks DEF AgentsHoldLease, WorkIsHeld, NothingDiscarded
<1>14. CASE ReleaseFrees(h)
  <2>1. call[h].pc = "free"
    BY <1>14 DEF ReleaseFrees
  <2>2. edits[s] = {} /\ commits[s] = {}
    BY <1>3, <2>1 DEF Sound, Unlanded
  <2>3. row' = [row EXCEPT ![s] = "available"] /\ holder' = [holder EXCEPT ![s] = NoCard]
        /\ edits' = edits /\ lost' = lost /\ agents' = agents
    BY <1>14 DEF ReleaseFrees, treeVars, agentVars
  <2>4. call'[h].pc = "return" /\ call'[h].card = c /\ call'[h].todo = todo
    BY <1>9, <1>14 DEF ReleaseFrees
  <2>5. /\ s \in Slots /\ todo \subseteq Slots /\ agents[s] = {}
        /\ NoAgents(c) /\ s \notin todo /\ \A r \in todo : HeldBy(r, c)
    BY <1>10, <2>1
  <2> HIDE DEF c, s, todo
  <2>6. Sound(call[h])'
    BY <2>3, <2>4, <2>5 DEF Sound, NoAgents, HeldBy, TypeOK
  <2>7. AgentsHoldLease' /\ WorkIsHeld' /\ NothingDiscarded'
    BY <1>1, <1>3, <2>2, <2>3, <2>5 DEF AgentsHoldLease, WorkIsHeld, NothingDiscarded, TypeOK
  <2>8. \A r \in Slots : row'[r] = "dirty" => row[r] = "dirty"
    BY <2>3 DEF TypeOK
  <2> QED
    BY <1>1, <1>3, <2>1, <2>6, <2>7, <2>8, NoneParks
<1> QED
  BY <1>5, <1>6, <1>7, <1>8, <1>11, <1>12, <1>13, <1>14 DEF Returning

LEMMA SerialRequest ==
    ASSUME TypeOK, SerialInv, OneAtATime, NEW h \in Handlers, NEW c \in Cards,
           Dispatch(h, c) \/ Cancel(h, c)
    PROVE  SerialInv'
<1>1. call[h].pc = "idle" /\ crashes' = crashes /\ asked' = asked
      /\ row' = row /\ holder' = holder /\ agents' = agents
      /\ edits' = edits /\ commits' = commits /\ lost' = lost
  BY DEF Dispatch, Cancel, rowVars, treeVars, agentVars
<1>2. \A g \in Handlers : g # h => call'[g] = call[g]
  BY DEF Dispatch, Cancel, TypeOK
<1>3. call'[h].pc \in {"find", "number", "kill"}
  BY PoolAssumption DEF Dispatch, Cancel, TypeOK
<1>4. call'[h] # Idle /\ Sound(call[h])'
  BY <1>3 DEF Idle, Sound
<1>5. \A g \in Handlers : call[g].pc # "ask"
  <2>1. \A g \in Handlers : g # h => call'[g] = Idle
    BY <1>4 DEF OneAtATime
  <2> QED
    BY <1>1, <1>2, <2>1 DEF Idle
<1>6. AgentsHoldLease' /\ WorkIsHeld' /\ NothingDiscarded' /\ ParkedIsAsked'
  BY <1>1, <1>5 DEF SerialInv, AgentsHoldLease, WorkIsHeld, NothingDiscarded, ParkedIsAsked
<1> QED
  BY <1>2, <1>4, <1>6, SerialFrame DEF SerialInv

LEMMA SerialAround ==
    ASSUME TypeOK, SerialInv, OneAtATime, Around
    PROVE  SerialInv'
<1>1. call' = call /\ crashes' = crashes /\ asked' = asked /\ row' = row /\ holder' = holder
      /\ lost' = lost /\ \A s \in Slots : agents'[s] \subseteq agents[s]
  BY DEF Around, AgentCommits, Lands, DirectoryGoes, AgentEdits, AgentExits, Resume,
         rowVars, treeVars, OneAtATime
\* Work is done by an agent of the checkout.
<1>2. ASSUME NEW s \in Slots
      PROVE  /\ edits'[s] \union commits'[s] \subseteq edits[s] \union commits[s] \union agents[s]
             /\ agents[s] = {} => edits'[s] \subseteq edits[s] /\ commits'[s] \subseteq commits[s]
  <2>1. PICK t \in Slots :
           \/ AgentCommits(t) \/ Lands(t) \/ DirectoryGoes(t)
           \/ \E c \in Cards : AgentEdits(t, c) \/ AgentExits(t, c) \/ Resume(c, t)
    BY DEF Around
  <2>2. CASE AgentCommits(t)
    BY <2>2 DEF AgentCommits, TypeOK
  <2>3. CASE Lands(t)
    BY <2>3 DEF Lands, TypeOK
  <2>4. CASE DirectoryGoes(t)
    BY <2>4 DEF DirectoryGoes
  <2>5. ASSUME NEW c \in Cards, AgentEdits(t, c) PROVE <1>2!2
    BY <2>5 DEF AgentEdits, TypeOK
  <2>6. ASSUME NEW c \in Cards, AgentExits(t, c) \/ Resume(c, t) PROVE <1>2!2
    BY <2>6 DEF AgentExits, Resume, treeVars
  <2> QED
    BY <2>1, <2>2, <2>3, <2>4, <2>5, <2>6
<1>3. /\ Alone /\ ParkedIsAsked /\ AgentsHoldLease /\ WorkIsHeld /\ NothingDiscarded
  BY DEF SerialInv
<1>4. AgentsHoldLease' /\ WorkIsHeld'
  BY <1>1, <1>2, <1>3 DEF AgentsHoldLease, WorkIsHeld
<1>5. Alone' /\ NothingDiscarded' /\ ParkedIsAsked'
  BY <1>1, <1>3 DEF Alone, NothingDiscarded, ParkedIsAsked
<1>6. ASSUME NEW h \in Handlers PROVE Sound(call[h])'
  <2>1. Sound(call[h])
    BY DEF SerialInv
  <2>2. NoAgents(call[h].card) => NoAgents(call[h].card)'
    BY <1>1 DEF NoAgents
  <2>3. call[h].pc \in {"reset", "free"} => ~Unlanded(call[h].slot)'
    <3>1. SUFFICES ASSUME call[h].pc \in {"reset", "free"} PROVE ~Unlanded(call[h].slot)'
      OBVIOUS
    <3>2. call[h].slot \in Slots
      BY <3>1, CallForms DEF Held
    <3>3. /\ HeldBy(call[h].slot, call[h].card) /\ NoAgents(call[h].card)
          /\ ~Unlanded(call[h].slot)
      BY <2>1, <3>1 DEF Sound
    <3>4. agents[call[h].slot] = {}
      BY <1>3, <3>2, <3>3 DEF AgentsHoldLease, HeldBy, NoAgents
    <3> QED
      BY <1>1, <1>2, <3>2, <3>3, <3>4 DEF Unlanded
  <2> QED
    BY <1>1, <2>1, <2>2, <2>3 DEF Sound, HeldBy
<1> QED
  BY <1>4, <1>5, <1>6 DEF SerialInv

LEMMA SerialStep ==
    ASSUME TypeOK, SerialInv, Next, OneAtATime
    PROVE  SerialInv'
<1>1. CASE Crash
  <2>1. /\ row' = row /\ holder' = holder /\ edits' = edits /\ commits' = commits
        /\ lost' = lost /\ crashes' # 0
        /\ \A h \in Handlers : call'[h] = Idle
        /\ \A s \in Slots : agents'[s] = {}
    BY <1>1 DEF Crash, rowVars, treeVars, TypeOK
  <2> QED
    BY <2>1 DEF SerialInv, Alone, Sound, Idle, AgentsHoldLease, WorkIsHeld, NothingDiscarded,
                ParkedIsAsked
<1>2. CASE UNCHANGED vars
  BY <1>2 DEF vars, rowVars, treeVars, agentVars, SerialInv, Alone, Sound, NoAgents, HeldBy,
              Unlanded, AgentsHoldLease, WorkIsHeld, NothingDiscarded, ParkedIsAsked
<1> QED
  BY <1>1, <1>2, Steps, SerialLeasing, SerialReturning, SerialRequest, SerialAround

\* The inductive invariant of MCSpec.
PoolInv == TypeOK /\ overlap \in BOOLEAN /\ (~overlap => SerialInv)

LEMMA PoolInvariant == MCSpec => []PoolInv
<1> DEFINE N == UNCHANGED overlap /\ Next /\ IF overlap THEN OneCard ELSE OneAtATime
<1>1. overlap \in BOOLEAN /\ Init => PoolInv
  BY InitTyped, SerialInit DEF PoolInv
<1>2. PoolInv /\ [N]_<<overlap, vars>> => PoolInv'
  <2> SUFFICES ASSUME PoolInv, [N]_<<overlap, vars>> PROVE PoolInv'
    OBVIOUS
  <2>1. TypeOK' /\ overlap' = overlap
    BY StepTyped DEF PoolInv
  <2>2. CASE N
    BY <2>1, <2>2, SerialStep DEF PoolInv
  <2>3. CASE UNCHANGED <<overlap, vars>>
    BY <2>1, <2>3
       DEF vars, rowVars, treeVars, agentVars, PoolInv, SerialInv, Alone, Sound, NoAgents, HeldBy,
           Unlanded, AgentsHoldLease, WorkIsHeld, NothingDiscarded, ParkedIsAsked
  <2> QED
    BY <2>2, <2>3
<1> QED
  BY <1>1, <1>2, PTL DEF MCSpec

\* With requests one at a time no two cards' agents run in one checkout, and an
\* agent runs only where its card holds the lease, crashes included.
THEOREM OneOwnerAlone == MCSpec => []ExclusiveAlone
<1>1. PoolInv => ExclusiveAlone
  BY DEF PoolInv, SerialInv, ExclusiveAlone, OneOwner, AgentsHoldLease, TypeOK
<1> QED
  BY <1>1, PoolInvariant, PTL

\* With requests one at a time no return discards work, a checkout with unlanded
\* work stays with the card whose work it is, and a parked one has its item.
THEOREM WorkStaysAlone == MCSpec => []WorkIsSafeAlone
<1>1. PoolInv => WorkIsSafeAlone
  BY DEF PoolInv, SerialInv, WorkIsSafeAlone
<1> QED
  BY <1>1, PoolInvariant, PTL

-----------------------------------------------------------------------------
(* The pool implements Leases, requests one at a time.                      *)

\* What Leases calls the owner of a checkout, the parked ones and the work.
Owner  == [s \in Slots |-> IF overlap \/ row[s] \notin {"leased", "dirty"}
                           THEN NoCard ELSE holder[s]]
Parked == {s \in Slots : ~overlap /\ row[s] = "dirty"}
Undone == {s \in Slots : ~overlap /\ Unlanded(s)}

\* A step of Leases, in these terms.
LEMMA PromiseSteps ==
    ASSUME NEW s \in Slots,
           \/ /\ Owner[s] = NoCard /\ Parked' = Parked /\ Undone' = Undone
              /\ \E c \in Cards : Owner' = [Owner EXCEPT ![s] = c]
           \/ /\ Owner[s] # NoCard /\ s \notin Parked /\ s \notin Undone
              /\ Owner' = [Owner EXCEPT ![s] = NoCard] /\ Parked' = Parked /\ Undone' = Undone
           \/ /\ Owner[s] # NoCard /\ Parked' = Parked \union {s}
              /\ Owner' = Owner /\ Undone' = Undone
           \/ /\ Owner[s] # NoCard /\ Undone' = Undone \union {s}
              /\ Owner' = Owner /\ Parked' = Parked
           \/ Undone' = Undone \ {s} /\ Owner' = Owner /\ Parked' = Parked
    PROVE  PromiseAlone!Next
BY DEF PromiseAlone!Next, PromiseAlone!Acquire, PromiseAlone!Return, PromiseAlone!Park,
       PromiseAlone!Work, PromiseAlone!Land, Owner, Parked, Undone

LEMMA PromiseStutters ==
    ASSUME Owner' = Owner, Parked' = Parked, Undone' = Undone
    PROVE  UNCHANGED PromiseAlone!vars
BY DEF PromiseAlone!vars, Owner, Parked, Undone

LEMMA PromiseInit == Init => PromiseAlone!Init
<1> SUFFICES ASSUME Init PROVE PromiseAlone!Init
  OBVIOUS
<1>1. Owner = [s \in Slots |-> NoCard] /\ Parked = {} /\ Undone = {}
  BY DEF Init, Owner, Parked, Undone, Unlanded
<1> QED
  BY <1>1 DEF PromiseAlone!Init, Owner, Parked, Undone

LEMMA PromiseStep ==
    ASSUME PoolInv, ~overlap, overlap' = overlap, Next, OneAtATime
    PROVE  [PromiseAlone!Next]_(PromiseAlone!vars)
<1>1. TypeOK /\ SerialInv
  BY DEF PoolInv
<1>2. /\ Alone /\ AgentsHoldLease /\ WorkIsHeld
      /\ \A h \in Handlers : Sound(call[h])
  BY <1>1 DEF SerialInv
\* A step that leaves the rows and the work alone, or changes neither an owner,
\* nor what is parked, nor where there is work.
<1>3. ASSUME \A s \in Slots : /\ row'[s] = row[s] /\ holder'[s] = holder[s]
                              /\ Unlanded(s)' <=> Unlanded(s)
      PROVE  UNCHANGED PromiseAlone!vars
  <2>1. Owner' = Owner /\ Parked' = Parked /\ Undone' = Undone
    BY <1>3 DEF Owner, Parked, Undone
  <2> QED
    BY <2>1, PromiseStutters
<1>4. ASSUME row' = row, holder' = holder, edits' = edits, commits' = commits
      PROVE  UNCHANGED PromiseAlone!vars
  BY <1>3, <1>4 DEF Unlanded
<1>5. CASE Crash \/ UNCHANGED vars
  BY <1>4, <1>5 DEF Crash, vars, rowVars, treeVars
<1>6. ASSUME NEW h \in Handlers, NEW c \in Cards, Dispatch(h, c) \/ Cancel(h, c)
      PROVE  UNCHANGED PromiseAlone!vars
  BY <1>4, <1>6 DEF Dispatch, Cancel, rowVars, treeVars
<1>7. CASE Around
  <2>1. PICK s \in Slots :
           \/ AgentCommits(s) \/ Lands(s) \/ DirectoryGoes(s)
           \/ \E c \in Cards : AgentEdits(s, c) \/ AgentExits(s, c) \/ Resume(c, s)
    BY <1>7 DEF Around
  <2>2. row' = row /\ holder' = holder
    BY <1>7 DEF Around, AgentCommits, Lands, DirectoryGoes, AgentEdits, AgentExits, Resume, rowVars
  <2>3. Owner' = Owner /\ Parked' = Parked
    BY <2>2 DEF Owner, Parked
  <2>4. CASE AgentCommits(s)
    <3>1. \A t \in Slots : Unlanded(t)' <=> Unlanded(t)
      BY <1>1, <2>4 DEF AgentCommits, Unlanded, TypeOK
    <3> QED
      BY <1>3, <2>2, <3>1
  <2>5. CASE Lands(s)
    <3>1. CASE edits[s] # {}
      <4>1. \A t \in Slots : Unlanded(t)' <=> Unlanded(t)
        BY <1>1, <2>5, <3>1 DEF Lands, Unlanded, TypeOK
      <4> QED
        BY <1>3, <2>2, <4>1
    <3>2. CASE edits[s] = {}
      <4>1. Undone' = Undone \ {s}
        BY <1>1, <2>5, <3>2 DEF Lands, Undone, Unlanded, TypeOK
      <4> QED
        BY <2>3, <4>1, PromiseSteps
    <3> QED
      BY <3>1, <3>2
  <2>6. ASSUME NEW c \in Cards, AgentEdits(s, c) PROVE PromiseAlone!Next
    <3>1. Undone' = Undone \union {s}
      BY <1>1, <2>6 DEF AgentEdits, Undone, Unlanded, TypeOK
    <3>2. Owner[s] # NoCard
      BY <1>2, <2>6, PoolAssumption DEF AgentEdits, AgentsHoldLease, Owner
    <3> QED
      BY <2>3, <3>1, <3>2, PromiseSteps
  <2>7. CASE DirectoryGoes(s)
    BY <1>4, <2>2, <2>7 DEF DirectoryGoes
  <2>8. ASSUME NEW c \in Cards, AgentExits(s, c) \/ Resume(c, s)
        PROVE  UNCHANGED PromiseAlone!vars
    BY <1>4, <2>2, <2>8 DEF AgentExits, Resume, treeVars
  <2> QED
    BY <2>1, <2>4, <2>5, <2>6, <2>7, <2>8
<1>8. ASSUME NEW h \in Handlers, Leasing(h)
      PROVE  [PromiseAlone!Next]_(PromiseAlone!vars)
  <2>1. edits' = edits /\ commits' = commits
    BY <1>8 DEF Leasing, LeaseFinds, LeaseClaims, LeaseRetires, LeaseNumbers, GitAdds,
                LeaseInserts, Spawn, SpawnFails, treeVars
  <2>2. CASE LeaseClaims(h) \/ LeaseInserts(h)
    <3> DEFINE s == call[h].slot  c == call[h].card
    <3>1. call[h] \in Slotted
      BY <1>1, <2>2, CallForms DEF LeaseClaims, LeaseInserts
    <3>2. s \in Slots /\ c \in Cards /\ row[s] \in {"available", "none"}
      BY <1>2, <2>2, <3>1 DEF Sound, LeaseClaims, LeaseInserts, Slotted
    <3>3. row' = [row EXCEPT ![s] = "leased"] /\ holder' = [holder EXCEPT ![s] = c]
      BY <2>2 DEF LeaseClaims, LeaseInserts
    <3> HIDE DEF s, c
    <3>4. Owner[s] = NoCard /\ Owner' = [Owner EXCEPT ![s] = c]
      BY <1>1, <3>2, <3>3 DEF Owner, TypeOK
    <3>5. Parked' = Parked /\ Undone' = Undone
      BY <1>1, <2>1, <3>2, <3>3 DEF Parked, Undone, Unlanded, TypeOK
    <3> QED
      BY <3>2, <3>4, <3>5, PromiseSteps
  <2>3. CASE LeaseRetires(h)
    <3> DEFINE s == call[h].slot
    <3>1. call[h] \in Slotted
      BY <1>1, <2>3, CallForms DEF LeaseRetires
    <3>2. s \in Slots /\ row[s] = "available"
      BY <1>2, <2>3, <3>1 DEF Sound, LeaseRetires, Slotted
    <3>3. row' = [row EXCEPT ![s] = "retired"] /\ holder' = [holder EXCEPT ![s] = NoCard]
      BY <2>3 DEF LeaseRetires
    <3> HIDE DEF s
    <3>4. Owner' = Owner /\ Parked' = Parked /\ Undone' = Undone
      BY <1>1, <2>1, <3>2, <3>3 DEF Owner, Parked, Undone, Unlanded, TypeOK
    <3> QED
      BY <3>4, PromiseStutters
  <2>4. CASE LeaseFinds(h) \/ LeaseNumbers(h) \/ GitAdds(h) \/ Spawn(h) \/ SpawnFails(h)
    BY <1>4, <2>1, <2>4 DEF LeaseFinds, LeaseNumbers, GitAdds, Spawn, SpawnFails, rowVars
  <2> QED
    BY <1>8, <2>2, <2>3, <2>4 DEF Leasing
<1>9. ASSUME NEW h \in Handlers, Returning(h)
      PROVE  [PromiseAlone!Next]_(PromiseAlone!vars)
  <2> DEFINE s == call[h].slot  c == call[h].card
  <2>1. CASE CancelKills(h) \/ CancelLists(h) \/ CancelDone(h) \/ ReleaseInspects(h)
             \/ ReleaseAsks(h)
    BY <1>4, <2>1 DEF CancelKills, CancelLists, CancelDone, ReleaseInspects, ReleaseAsks,
                      rowVars, treeVars
  <2>2. ASSUME call[h].pc \in {"park", "reset", "free"}
        PROVE  s \in Slots /\ c \in Cards /\ row[s] = "leased" /\ holder[s] = c
               /\ call[h].by = c /\ (call[h].pc \in {"reset", "free"} => ~Unlanded(s))
    BY <1>1, <1>2, <2>2, CallForms DEF Sound, HeldBy, Held
  <2>3. CASE ReleaseParks(h)
    <3>1. s \in Slots /\ c \in Cards /\ row[s] = "leased" /\ holder[s] = c
      BY <2>2, <2>3 DEF ReleaseParks
    <3>2. row' = [row EXCEPT ![s] = "dirty"] /\ holder' = [holder EXCEPT ![s] = c]
          /\ edits' = edits /\ commits' = commits
      BY <2>2, <2>3 DEF ReleaseParks, treeVars
    <3> HIDE DEF s, c
    <3>3. Owner[s] # NoCard /\ Owner' = Owner /\ Parked' = Parked \union {s} /\ Undone' = Undone
      BY <1>1, <3>1, <3>2, PoolAssumption DEF Owner, Parked, Undone, Unlanded, TypeOK
    <3> QED
      BY <3>1, <3>3, PromiseSteps
  <2>4. CASE ReleaseResets(h)
    <3>1. s \in Slots /\ edits[s] = {}
      BY <2>2, <2>4 DEF ReleaseResets, Unlanded
    <3>2. row' = row /\ holder' = holder /\ commits' = commits
          /\ (edits' = [edits EXCEPT ![s] = {}] \/ edits' = edits)
      BY <2>4 DEF ReleaseResets, rowVars
    <3> HIDE DEF s
    <3>3. edits' = edits
      BY <1>1, <3>1, <3>2 DEF TypeOK
    <3> QED
      BY <1>4, <3>2, <3>3
  <2>5. CASE ReleaseFrees(h)
    <3>1. s \in Slots /\ c \in Cards /\ row[s] = "leased" /\ holder[s] = c /\ ~Unlanded(s)
      BY <2>2, <2>5 DEF ReleaseFrees
    <3>2. row' = [row EXCEPT ![s] = "available"] /\ holder' = [holder EXCEPT ![s] = NoCard]
          /\ edits' = edits /\ commits' = commits
      BY <2>5 DEF ReleaseFrees, treeVars
    <3> HIDE DEF s, c
    <3>3. Owner[s] # NoCard /\ s \notin Parked /\ s \notin Undone
      BY <3>1, PoolAssumption DEF Owner, Parked, Undone
    <3>4. Owner' = [Owner EXCEPT ![s] = NoCard] /\ Parked' = Parked /\ Undone' = Undone
      BY <1>1, <3>1, <3>2 DEF Owner, Parked, Undone, Unlanded, TypeOK
    <3> QED
      BY <3>1, <3>3, <3>4, PromiseSteps
  <2> QED
    BY <1>9, <2>1, <2>3, <2>4, <2>5 DEF Returning
<1> QED
  BY <1>5, <1>6, <1>7, <1>8, <1>9, Steps

\* With requests one at a time every step of the pool, crashes included, is a
\* step of Leases or none of its business.
THEOREM PoolKeepsPromise == MCSpec => KeepsPromiseAlone
<1> DEFINE N == UNCHANGED overlap /\ Next /\ IF overlap THEN OneCard ELSE OneAtATime
<1>1. PoolInv /\ [N]_<<overlap, vars>> => [PromiseAlone!Next]_(PromiseAlone!vars)
  <2> SUFFICES ASSUME PoolInv, [N]_<<overlap, vars>>
               PROVE  [PromiseAlone!Next]_(PromiseAlone!vars)
    OBVIOUS
  <2>1. CASE UNCHANGED <<overlap, vars>>
    <3>1. Owner' = Owner /\ Parked' = Parked /\ Undone' = Undone
      BY <2>1 DEF vars, rowVars, treeVars, Owner, Parked, Undone, Unlanded
    <3> QED
      BY <3>1, PromiseStutters
  <2>2. CASE N /\ overlap
    <3>1. Owner' = Owner /\ Parked' = Parked /\ Undone' = Undone
      BY <2>2 DEF Owner, Parked, Undone
    <3> QED
      BY <3>1, PromiseStutters
  <2>3. CASE N /\ ~overlap
    BY <2>3, PromiseStep
  <2> QED
    BY <2>1, <2>2, <2>3 DEF PoolInv
<1> QED
  BY <1>1, PoolInvariant, PromiseInit, PTL DEF MCSpec, KeepsPromiseAlone, PromiseAlone!Spec
===============================================================================
