---------------------------- MODULE Desktop_proofs ----------------------------
(***************************************************************************)
(* Proofs about the conversations of clients with the daemon: the event    *)
(* stream, for any number of writers and clients, any capacity of the      *)
(* channel and any page size; a terminal, for any ring, queue and chunk    *)
(* size; and the phone's queue, for any set of items.  With Board_proofs   *)
(* they make up what MC_Desktop checks: the parts share no variable, so    *)
(* its invariant is the conjunction of theirs.                             *)
(*                                                                         *)
(* The stream's argument is Accounted: at a live forwarder, every          *)
(* committed event is at or below its high-water mark, still with its      *)
(* writer, or ahead of it in the broadcast.  An event the forwarder passes *)
(* over was therefore broadcast, or left unsent, behind a later one.       *)
(*                                                                         *)
(* The terminal's is that of a pipeline: an attach request is on its way   *)
(* with nothing behind it but keys and everything before it cleared        *)
(* (Asked), or its answer is and the chunks behind it follow on (Answered),*)
(* or the screen shows it and the rest follows on (Showing).               *)
(*                                                                         *)
(* The phone's is that a load under way, or the screen, knows every item   *)
(* that has been open for as long as the connection is up.                 *)
(***************************************************************************)
EXTENDS MC_Desktop, Board_proofs, SequenceTheorems, WellFoundedInduction, TLAPS

-----------------------------------------------------------------------------
(* The event stream.                                                         *)


\* Writers hold and broadcast committed events only.
LogInv ==
    /\ \A w \in Writers : \A e \in pending[w] : 1 <= e /\ e <= log
    /\ \A i \in 1 .. Len(sent) : 1 <= sent[i] /\ sent[i] <= log

\* Behind a later broadcast there are overtaken events only.
OrderInv ==
    /\ \A w \in Writers : \A e \in pending[w] : \A i \in 1 .. Len(sent) :
          e < sent[i] => e \in overtaken
    /\ \A i, j \in 1 .. Len(sent) : i < j /\ sent[j] < sent[i] => sent[j] \in overtaken

\* The forwarder's position and mark.
MarkOf(c) ==
    /\ seen[c] <= log
    /\ at[c] # "off" => pos[c] <= Len(sent) + 1 /\ last[c] <= log /\ seen[c] <= last[c]

MarkInv == \A c \in Clients : MarkOf(c)

\* An event is accounted for: behind the mark, not broadcast yet, or ahead.
AccountedFor(c, e) ==
    \/ e <= last[c]
    \/ e \in Pending
    \/ \E i \in pos[c] .. Len(sent) : sent[i] = e

Accounted ==
    \A c \in Clients : at[c] = "live" => \A e \in 1 .. log : AccountedFor(c, e)

\* What is on the wire ascends from the cursor to the mark.
WireOf(c) ==
    /\ at[c] = "off" => wire[c] = <<>>
    /\ \A i \in 1 .. Len(wire[c]) : seen[c] < wire[c][i] /\ wire[c][i] <= last[c]
    /\ \A i, j \in 1 .. Len(wire[c]) : i < j => wire[c][i] < wire[c][j]

WireInv == \A c \in Clients : WireOf(c)

\* Up to the cursor nothing is missing, and up to the mark it is on the wire.
KeptFor(c, e) ==
    /\ e <= seen[c] => e \in got[c] \union overtaken
    /\ at[c] # "off" /\ e <= last[c] =>
         \/ e <= seen[c]
         \/ e \in overtaken
         \/ \E i \in 1 .. Len(wire[c]) : wire[c][i] = e

KeptInv == \A c \in Clients : \A e \in Nat \ {0} : KeptFor(c, e)

IInv == TypeOK /\ LogInv /\ OrderInv /\ MarkInv /\ Accounted /\ WireInv /\ KeptInv

-----------------------------------------------------------------------------
(* Types of one client's state, the rows of a page, one forwarding step.     *)

\* The types of one client's state and of the broadcast sequence.
LEMMA Typed ==
    ASSUME TypeOK, NEW c \in Clients
    PROVE  /\ seen[c] \in Nat /\ last[c] \in Nat /\ pos[c] \in Nat \ {0} /\ log \in Nat
           /\ wire[c] \in Seq(Nat) /\ Len(wire[c]) \in Nat
           /\ \A i \in 1 .. Len(wire[c]) : wire[c][i] \in Nat
           /\ sent \in Seq(Nat) /\ Len(sent) \in Nat
           /\ \A i \in 1 .. Len(sent) : sent[i] \in Nat
<1>1. wire[c] \in Seq(Nat) /\ sent \in Seq(Nat)
  BY DEF TypeOK
<1>2. /\ seen[c] \in Nat /\ last[c] \in Nat /\ pos[c] \in Nat \ {0} /\ log \in Nat
  BY BoundAssumption DEF TypeOK
<1> QED
  BY <1>1, <1>2

\* The rows of a page are the events behind the mark, one after the other.
LEMMA PageRows ==
    ASSUME TypeOK, NEW c \in Clients, last[c] < log
    PROVE  /\ Page(c) \in Seq(Nat)
           /\ Len(Page(c)) \in 1 .. log - last[c]
           /\ \A i \in 1 .. Len(Page(c)) : Page(c)[i] = last[c] + i
<1> DEFINE n == IF log - last[c] < PageSize THEN log - last[c] ELSE PageSize
<1>1. n \in 1 .. log - last[c] /\ last[c] \in Nat
  BY PageAssumption, BoundAssumption DEF TypeOK
<1>2. Page(c) = [i \in 1 .. n |-> last[c] + i]
  BY DEF Page
<1> HIDE DEF n
<1> QED
  BY <1>1, <1>2

\* A received event is skipped, or appended above the mark.
LEMMA Forwarding ==
    ASSUME TypeOK, NEW c \in Clients, ReceiveLive(c)
    PROVE  /\ pos[c] \in 1 .. Len(sent) /\ sent[pos[c]] \in Nat
           /\ \/ sent[pos[c]] <= last[c] /\ UNCHANGED <<last, wire>>
              \/ /\ last[c] < sent[pos[c]]
                 /\ last' = [last EXCEPT ![c] = sent[pos[c]]]
                 /\ wire' = [wire EXCEPT ![c] = Append(wire[c], sent[pos[c]])]
<1>1. pos[c] \in 1 .. Len(sent)
  BY Typed DEF ReceiveLive
<1>2. sent[pos[c]] \in Nat /\ last[c] \in Nat
  BY <1>1, Typed
<1>3. CASE sent[pos[c]] <= last[c]
  BY <1>1, <1>2, <1>3 DEF ReceiveLive, Forward
<1>4. CASE ~ (sent[pos[c]] <= last[c])
  BY <1>1, <1>2, <1>4 DEF ReceiveLive, Forward
<1> QED
  BY <1>3, <1>4

-----------------------------------------------------------------------------
(* Every step keeps every part of the invariant.                             *)

\* TypeOK is kept: marks and cursors stay within the log.
LEMMA TypeStep ==
    TypeOK /\ LogInv /\ MarkInv /\ [Next]_vars => TypeOK'
<1> SUFFICES ASSUME TypeOK, LogInv, MarkInv, [Next]_vars PROVE TypeOK'
  OBVIOUS
<1> USE CapacityAssumption, PageAssumption, BoundAssumption
       DEF TypeOK, LogInv, MarkInv, MarkOf, logVars, streamVars, clientVars
<1>1. ASSUME Restart
      PROVE  TypeOK'
  BY <1>1 DEF Restart
<1>2. ASSUME NEW w \in Writers, Commit(w)
      PROVE  TypeOK'
  BY <1>2 DEF Commit
<1>3. ASSUME NEW w \in Writers, Broadcast(w)
      PROVE  TypeOK'
  <2>1. PICK e \in pending[w] : sent' = Append(sent, e)
                            /\ pending' = [pending EXCEPT ![w] = pending[w] \ {e}]
                            /\ overtaken' = overtaken \union {f \in Pending : f < e}
    BY <1>3 DEF Broadcast
  <2>2. e \in Nat /\ Pending \subseteq Nat
    BY DEF Pending
  <2>3. sent' \in Seq(Nat)
    BY <2>1, <2>2, AppendProperties
  <2> QED
    BY <1>3, <2>1, <2>2, <2>3 DEF Broadcast
<1>4. ASSUME NEW c \in Clients, Subscribe(c)
      PROVE  TypeOK'
  <2>1. seen[c] \in 0 .. MaxEvents
    OBVIOUS
  <2> QED
    BY <1>4, <2>1 DEF Subscribe
<1>5. ASSUME NEW c \in Clients, SendPage(c)
      PROVE  TypeOK'
  <2>1. last[c] < log
    BY <1>5 DEF SendPage
  <2>0. Page(c) \in Seq(Nat) /\ Len(Page(c)) \in 1 .. log - last[c]
    BY ONLY TypeOK, <2>1, PageRows
  <2>2. /\ last[c] + Len(Page(c)) \in 0 .. MaxEvents
        /\ wire[c] \o Page(c) \in Seq(Nat)
    BY <2>0, BoundAssumption, ConcatProperties
  <2> QED
    BY <1>5, <2>2 DEF SendPage
<1>6. ASSUME NEW c \in Clients, GoLive(c)
      PROVE  TypeOK'
  BY <1>6 DEF GoLive
<1>7. ASSUME NEW c \in Clients, ReceiveLive(c)
      PROVE  TypeOK'
  <2>1. pos[c] \in 1 .. Len(sent)
    BY <1>7 DEF ReceiveLive
  <2>2. sent[pos[c]] \in 0 .. MaxEvents
    BY <2>1
  <2>3. Append(wire[c], sent[pos[c]]) \in Seq(Nat)
    BY ONLY TypeOK, <2>2, BoundAssumption, Typed, AppendProperties
  <2>4. last' \in [Clients -> 0 .. MaxEvents] /\ wire' \in [Clients -> Seq(Nat)]
    <3>1. CASE UNCHANGED <<last, wire>>
      BY <3>1
    <3>2. CASE /\ last' = [last EXCEPT ![c] = sent[pos[c]]]
               /\ wire' = [wire EXCEPT ![c] = Append(wire[c], sent[pos[c]])]
      BY <2>2, <2>3, <3>2
    <3> QED
      BY ONLY TypeOK, <1>7, Forwarding, <3>1, <3>2
  <2>5. pos' \in [Clients -> Nat \ {0}]
    BY <1>7 DEF ReceiveLive
  <2> QED
    BY <1>7, <2>4, <2>5 DEF ReceiveLive
<1>8. ASSUME NEW c \in Clients, Lagged(c)
      PROVE  TypeOK'
  <2>1. Len(sent) \in Nat /\ pos[c] \in Nat \ {0}
    OBVIOUS
  <2>2. Len(sent) - (pos[c] - 1) > Capacity
    BY <1>8 DEF Lagged, Lag
  <2>3. Len(sent) - Capacity + 1 \in Nat \ {0}
    BY ONLY <2>1, <2>2, CapacityAssumption
  <2> QED
    BY <1>8, <2>3 DEF Lagged
<1>9. ASSUME NEW c \in Clients, ClientReceives(c)
      PROVE  TypeOK'
  <2>1. wire[c] \in Seq(Nat) /\ wire[c] # <<>>
    BY <1>9 DEF ClientReceives
  <2>2. Head(wire[c]) \in Nat /\ Tail(wire[c]) \in Seq(Nat)
    BY ONLY <2>1, HeadTailProperties
  <2> QED
    BY <1>9, <2>2 DEF ClientReceives
<1>10. ASSUME NEW c \in Clients, Disconnect(c)
      PROVE  TypeOK'
  BY <1>10 DEF Disconnect
<1>11. CASE UNCHANGED vars
  BY <1>11 DEF vars
<1> QED
  BY ONLY [Next]_vars, <1>1, <1>2, <1>3, <1>4, <1>5, <1>6, <1>7, <1>8, <1>9, <1>10, <1>11
  DEF Next, Forwarder

\* LogInv is kept: nothing is broadcast that is not committed.
LEMMA LogStep ==
    TypeOK /\ LogInv /\ [Next]_vars => LogInv'
<1> SUFFICES ASSUME TypeOK, LogInv, [Next]_vars PROVE LogInv'
  OBVIOUS
<1> USE CapacityAssumption, PageAssumption, BoundAssumption
       DEF TypeOK, LogInv, logVars, streamVars, clientVars
<1>1. ASSUME Restart
      PROVE  LogInv'
  BY <1>1 DEF Restart
<1>2. ASSUME NEW w \in Writers, Commit(w)
      PROVE  LogInv'
  BY <1>2 DEF Commit
<1>3. ASSUME NEW w \in Writers, Broadcast(w)
      PROVE  LogInv'
  BY <1>3 DEF Broadcast, Pending
<1>4. ASSUME NEW c \in Clients, Subscribe(c)
      PROVE  LogInv'
  BY <1>4 DEF Subscribe
<1>5. ASSUME NEW c \in Clients, SendPage(c)
      PROVE  LogInv'
  BY <1>5 DEF SendPage
<1>6. ASSUME NEW c \in Clients, GoLive(c)
      PROVE  LogInv'
  BY <1>6 DEF GoLive
<1>7. ASSUME NEW c \in Clients, ReceiveLive(c)
      PROVE  LogInv'
  BY <1>7 DEF ReceiveLive, Forward, Lag
<1>8. ASSUME NEW c \in Clients, Lagged(c)
      PROVE  LogInv'
  BY <1>8 DEF Lagged, Lag
<1>9. ASSUME NEW c \in Clients, ClientReceives(c)
      PROVE  LogInv'
  BY <1>9 DEF ClientReceives
<1>10. ASSUME NEW c \in Clients, Disconnect(c)
      PROVE  LogInv'
  BY <1>10 DEF Disconnect
<1>11. CASE UNCHANGED vars
  BY <1>11 DEF vars
<1> QED
  BY ONLY [Next]_vars, <1>1, <1>2, <1>3, <1>4, <1>5, <1>6, <1>7, <1>8, <1>9, <1>10, <1>11
  DEF Next, Forwarder

\* OrderInv is kept: Broadcast records whom it overtakes.
LEMMA OrderStep ==
    TypeOK /\ LogInv /\ OrderInv /\ [Next]_vars => OrderInv'
<1> SUFFICES ASSUME TypeOK, LogInv, OrderInv, [Next]_vars PROVE OrderInv'
  OBVIOUS
<1> USE CapacityAssumption, PageAssumption, BoundAssumption
       DEF TypeOK, LogInv, OrderInv, logVars, streamVars, clientVars
<1>1. ASSUME Restart
      PROVE  OrderInv'
  BY <1>1 DEF Restart
<1>2. ASSUME NEW w \in Writers, Commit(w)
      PROVE  OrderInv'
  BY <1>2 DEF Commit
<1>3. ASSUME NEW w \in Writers, Broadcast(w)
      PROVE  OrderInv'
  BY <1>3 DEF Broadcast, Pending
<1>4. ASSUME NEW c \in Clients, Subscribe(c)
      PROVE  OrderInv'
  BY <1>4 DEF Subscribe
<1>5. ASSUME NEW c \in Clients, SendPage(c)
      PROVE  OrderInv'
  BY <1>5 DEF SendPage
<1>6. ASSUME NEW c \in Clients, GoLive(c)
      PROVE  OrderInv'
  BY <1>6 DEF GoLive
<1>7. ASSUME NEW c \in Clients, ReceiveLive(c)
      PROVE  OrderInv'
  BY <1>7 DEF ReceiveLive, Forward, Lag
<1>8. ASSUME NEW c \in Clients, Lagged(c)
      PROVE  OrderInv'
  BY <1>8 DEF Lagged, Lag
<1>9. ASSUME NEW c \in Clients, ClientReceives(c)
      PROVE  OrderInv'
  BY <1>9 DEF ClientReceives
<1>10. ASSUME NEW c \in Clients, Disconnect(c)
      PROVE  OrderInv'
  BY <1>10 DEF Disconnect
<1>11. CASE UNCHANGED vars
  BY <1>11 DEF vars
<1> QED
  BY ONLY [Next]_vars, <1>1, <1>2, <1>3, <1>4, <1>5, <1>6, <1>7, <1>8, <1>9, <1>10, <1>11
  DEF Next, Forwarder

\* MarkInv is kept: the cursor follows the mark, the mark the log.
LEMMA MarkStep ==
    TypeOK /\ LogInv /\ WireInv /\ MarkInv /\ [Next]_vars => MarkInv'
<1> SUFFICES ASSUME TypeOK, LogInv, WireInv, MarkInv, [Next]_vars, NEW d \in Clients
             PROVE  MarkOf(d)'
  BY DEF MarkInv
<1>0. MarkOf(d)
  BY DEF MarkInv
<1> USE CapacityAssumption, PageAssumption, BoundAssumption
       DEF TypeOK, LogInv, MarkOf, logVars, streamVars, clientVars
<1>1. ASSUME Restart
      PROVE  MarkOf(d)'
  BY <1>0, <1>1 DEF Restart
<1>2. ASSUME NEW w \in Writers, Commit(w)
      PROVE  MarkOf(d)'
  BY <1>0, <1>2 DEF Commit
<1>3. ASSUME NEW w \in Writers, Broadcast(w)
      PROVE  MarkOf(d)'
  BY <1>0, <1>3 DEF Broadcast, Pending
<1>4. ASSUME NEW c \in Clients, Subscribe(c)
      PROVE  MarkOf(d)'
  <2>1. /\ UNCHANGED <<seen, log, sent>> /\ seen[d] <= log /\ seen[d] \in Nat /\ Len(sent) \in Nat
    BY <1>0, <1>4 DEF Subscribe
  <2> QED
    BY <1>0, <1>4, <2>1 DEF Subscribe
<1>5. ASSUME NEW c \in Clients, SendPage(c)
      PROVE  MarkOf(d)'
  <2>1. last[c] < log
    BY <1>5 DEF SendPage
  <2>2. Len(Page(c)) \in 1 .. log - last[c]
    BY <2>1, PageRows
  <2> QED
    BY <1>0, <1>5, <2>2 DEF SendPage
<1>6. ASSUME NEW c \in Clients, GoLive(c)
      PROVE  MarkOf(d)'
  BY <1>0, <1>6 DEF GoLive
<1>7. ASSUME NEW c \in Clients, ReceiveLive(c)
      PROVE  MarkOf(d)'
  <2>1. pos[c] \in 1 .. Len(sent)
    BY <1>7, Forwarding
  <2>2. sent[pos[c]] \in 1 .. log
    <3>1. sent[pos[c]] \in Nat /\ log \in Nat
      BY ONLY TypeOK, <1>7, Forwarding, Typed
    <3>2. 1 <= sent[pos[c]] /\ sent[pos[c]] <= log
      BY ONLY LogInv, <2>1 DEF LogInv
    <3> QED
      BY ONLY <3>1, <3>2
  <2>3. pos[c] + 1 <= Len(sent) + 1
    BY <2>1
  <2>4. CASE UNCHANGED last
    BY <1>0, <1>7, <2>3, <2>4 DEF ReceiveLive
  <2>5. CASE last[c] < sent[pos[c]] /\ last' = [last EXCEPT ![c] = sent[pos[c]]]
    <3>1. seen[c] <= last[c] /\ seen[c] \in Nat /\ last[c] \in Nat
      BY <1>7, Typed DEF ReceiveLive, MarkInv
    <3>2. last'[c] = sent[pos[c]] /\ pos'[c] = pos[c] + 1 /\ seen[c] <= sent[pos[c]]
      <4>1. last'[c] = sent[pos[c]] /\ pos'[c] = pos[c] + 1
        BY <1>7, <2>5 DEF ReceiveLive
      <4> QED
        BY ONLY <2>2, <2>5, <3>1, <4>1
    <3>3. UNCHANGED <<seen, log, at, sent>>
      BY <1>7 DEF ReceiveLive
    <3>4. CASE d = c
      BY <1>0, <2>2, <2>3, <3>2, <3>3, <3>4
    <3>5. CASE d # c
      BY <1>0, <1>7, <2>5, <3>3, <3>5 DEF ReceiveLive
    <3> QED
      BY <3>4, <3>5
  <2> QED
    BY <1>7, <2>4, <2>5, Forwarding
<1>8. ASSUME NEW c \in Clients, Lagged(c)
      PROVE  MarkOf(d)'
  <2>1. Len(sent) - Capacity + 1 <= Len(sent) + 1
    BY Typed
  <2>2. UNCHANGED <<seen, log, last, sent>> /\ at[c] = "live"
    BY <1>8 DEF Lagged
  <2>3. CASE d = c
    BY <1>0, <1>8, <2>1, <2>2, <2>3 DEF Lagged
  <2>4. CASE d # c
    BY <1>0, <1>8, <2>2, <2>4 DEF Lagged
  <2> QED
    BY <2>3, <2>4
<1>9. ASSUME NEW c \in Clients, ClientReceives(c)
      PROVE  MarkOf(d)'
  <2>1. wire[c] \in Seq(Nat) /\ wire[c] # <<>>
    BY <1>9 DEF ClientReceives
  <2>2. 1 \in 1 .. Len(wire[c]) /\ Head(wire[c]) = wire[c][1] /\ Len(wire[c]) \in Nat
    BY <2>1
  <2>3. at[c] # "off"
    BY <2>1 DEF WireInv, WireOf
  <2>4. Head(wire[c]) <= last[c]
    BY <2>2 DEF WireInv, WireOf
  <2>5. Head(wire[c]) \in Nat
    BY <2>1, HeadTailProperties
  <2>6. last[c] <= log /\ last[c] \in Nat /\ log \in Nat
    BY <2>3, Typed DEF MarkInv
  <2>7. seen'[c] = Head(wire[c]) /\ UNCHANGED <<at, last, pos, log, sent>>
    BY <1>9 DEF ClientReceives
  <2>8. CASE d = c
    BY <1>0, <2>3, <2>4, <2>5, <2>6, <2>7, <2>8
  <2>9. CASE d # c
    BY <1>0, <1>9, <2>7, <2>9 DEF ClientReceives
  <2> QED
    BY <2>8, <2>9
<1>10. ASSUME NEW c \in Clients, Disconnect(c)
      PROVE  MarkOf(d)'
  BY <1>0, <1>10 DEF Disconnect
<1>11. CASE UNCHANGED vars
  BY <1>0, <1>11 DEF vars
<1> QED
  BY ONLY [Next]_vars, <1>1, <1>2, <1>3, <1>4, <1>5, <1>6, <1>7, <1>8, <1>9, <1>10, <1>11
  DEF Next, Forwarder

\* Accounted is kept: the forwarder passes over nothing it has not delivered.
LEMMA AccountStep ==
    TypeOK /\ LogInv /\ MarkInv /\ Accounted /\ [Next]_vars => Accounted'
<1> SUFFICES ASSUME TypeOK, LogInv, MarkInv, Accounted, [Next]_vars,
                    NEW d \in Clients, at'[d] = "live", NEW e \in 1 .. log'
             PROVE  AccountedFor(d, e)'
  BY DEF Accounted
<1>0. at[d] = "live" /\ e \in 1 .. log => AccountedFor(d, e)
  BY DEF Accounted
<1> USE DEF AccountedFor, Pending, logVars, streamVars, clientVars
<1>1. ASSUME Restart
      PROVE  AccountedFor(d, e)'
  BY <1>0, <1>1 DEF Restart, TypeOK, MarkInv, MarkOf
<1>2. ASSUME NEW w \in Writers, Commit(w)
      PROVE  AccountedFor(d, e)'
  <2>1. at[d] = "live" /\ UNCHANGED <<last, pos, sent>>
    BY <1>2 DEF Commit
  <2>2. CASE e \in 1 .. log
    BY <1>0, <1>2, <2>1, <2>2 DEF Commit, TypeOK
  <2>3. CASE e \notin 1 .. log
    BY <1>2, <2>3, BoundAssumption DEF Commit, TypeOK
  <2> QED
    BY <2>2, <2>3
<1>3. ASSUME NEW w \in Writers, Broadcast(w)
      PROVE  AccountedFor(d, e)'
  <2>1. PICK b \in pending[w] : sent' = Append(sent, b)
                            /\ pending' = [pending EXCEPT ![w] = pending[w] \ {b}]
    BY <1>3 DEF Broadcast
  <2>2. /\ UNCHANGED <<last, pos, at, log>>
        /\ pos[d] \in 1 .. Len(sent) + 1
    BY <1>3, Typed DEF Broadcast, MarkInv, MarkOf
  <2>3. AccountedFor(d, e)
    BY <1>0, <2>2
  <2>4. b \in Nat
    BY <2>1 DEF TypeOK
  <2>5. /\ Len(sent') = Len(sent) + 1 /\ sent'[Len(sent) + 1] = b
        /\ \A i \in 1 .. Len(sent) : sent'[i] = sent[i]
    BY <2>1, <2>4, Typed, AppendProperties
  <2>6. CASE e = b
    BY <2>2, <2>5, <2>6, Typed
  <2>7. CASE e \in Pending /\ e # b
    <3>1. PICK v \in Writers : e \in pending[v]
      BY <2>7
    <3>2. e \in pending'[v]
      BY <2>1, <2>7, <3>1 DEF TypeOK
    <3> QED
      BY <3>2
  <2>8. CASE \E i \in pos[d] .. Len(sent) : sent[i] = e
    BY <2>2, <2>5, <2>8, Typed
  <2> QED
    BY <2>2, <2>3, <2>6, <2>7, <2>8
<1>4. ASSUME NEW c \in Clients, Subscribe(c)
      PROVE  AccountedFor(d, e)'
  BY <1>0, <1>4 DEF Subscribe, TypeOK, MarkInv, MarkOf
<1>5. ASSUME NEW c \in Clients, SendPage(c)
      PROVE  AccountedFor(d, e)'
  BY <1>0, <1>5 DEF SendPage, TypeOK, MarkInv, MarkOf
<1>6. ASSUME NEW c \in Clients, GoLive(c)
      PROVE  AccountedFor(d, e)'
  BY <1>0, <1>6 DEF GoLive, TypeOK, MarkInv, MarkOf
<1>7. ASSUME NEW c \in Clients, ReceiveLive(c)
      PROVE  AccountedFor(d, e)'
  <2>1. CASE d = c
    <3>1. UNCHANGED <<at, pending, sent, log>> /\ pos'[c] = pos[c] + 1
      BY <1>7 DEF ReceiveLive, TypeOK
    <3>2. AccountedFor(c, e)
      BY <1>0, <2>1, <3>1
    <3>3. sent[pos[c]] \in Nat
      BY ONLY TypeOK, <1>7, Forwarding
    <3>4. last[c] <= last'[c] /\ sent[pos[c]] <= last'[c] /\ last'[c] \in Nat
      <4>1. last[c] \in Nat
        BY Typed
      <4>2. CASE sent[pos[c]] <= last[c] /\ UNCHANGED last
        BY <4>1, <4>2
      <4>3. CASE last[c] < sent[pos[c]] /\ last' = [last EXCEPT ![c] = sent[pos[c]]]
        <5>1. last'[c] = sent[pos[c]]
          BY <4>3 DEF TypeOK
        <5> QED
          BY ONLY <3>3, <4>1, <4>3, <5>1
      <4> QED
        BY ONLY TypeOK, <1>7, Forwarding, <4>2, <4>3
    <3>5. last[c] \in Nat /\ pos[c] \in Nat
      BY Typed
    <3>6. CASE e <= last[c]
      BY <2>1, <3>4, <3>5, <3>6
    <3>7. CASE e \in Pending
      BY <2>1, <3>1, <3>7
    <3>8. CASE \E i \in pos[c] .. Len(sent) : sent[i] = e
      BY <2>1, <3>1, <3>4, <3>5, <3>8
    <3> QED
      BY <3>2, <3>6, <3>7, <3>8
  <2>2. CASE d # c
    BY <1>0, <1>7, <2>2 DEF ReceiveLive, Forward, TypeOK
  <2> QED
    BY <2>1, <2>2
<1>8. ASSUME NEW c \in Clients, Lagged(c)
      PROVE  AccountedFor(d, e)'
  BY <1>0, <1>8 DEF Lagged, Lag, TypeOK, MarkInv, MarkOf
<1>9. ASSUME NEW c \in Clients, ClientReceives(c)
      PROVE  AccountedFor(d, e)'
  BY <1>0, <1>9 DEF ClientReceives, TypeOK, MarkInv, MarkOf
<1>10. ASSUME NEW c \in Clients, Disconnect(c)
      PROVE  AccountedFor(d, e)'
  BY <1>0, <1>10 DEF Disconnect, TypeOK, MarkInv, MarkOf
<1>11. CASE UNCHANGED vars
  BY <1>0, <1>11 DEF vars, TypeOK, MarkInv, MarkOf
<1> QED
  BY ONLY [Next]_vars, <1>1, <1>2, <1>3, <1>4, <1>5, <1>6, <1>7, <1>8, <1>9, <1>10, <1>11
  DEF Next, Forwarder

\* WireInv is kept: what is appended lies above the mark.
LEMMA WireStep ==
    TypeOK /\ MarkInv /\ WireInv /\ [Next]_vars => WireInv'
<1> SUFFICES ASSUME TypeOK, MarkInv, WireInv, [Next]_vars, NEW d \in Clients
             PROVE  WireOf(d)'
  BY DEF WireInv
<1>0. WireOf(d)
  BY DEF WireInv
<1> USE DEF WireOf, logVars, streamVars, clientVars
<1>1. ASSUME Restart
      PROVE  WireOf(d)'
  BY <1>0, <1>1 DEF Restart, TypeOK, MarkInv, MarkOf
<1>2. ASSUME NEW w \in Writers, Commit(w)
      PROVE  WireOf(d)'
  BY <1>0, <1>2 DEF Commit, TypeOK, MarkInv, MarkOf
<1>3. ASSUME NEW w \in Writers, Broadcast(w)
      PROVE  WireOf(d)'
  BY <1>0, <1>3 DEF Broadcast, Pending, TypeOK, MarkInv, MarkOf
<1>4. ASSUME NEW c \in Clients, Subscribe(c)
      PROVE  WireOf(d)'
  <2>1. wire[c] = <<>>
    BY <1>4 DEF Subscribe, WireInv
  <2>2. Len(wire[c]) = 0
    BY <2>1
  <2>3. CASE d = c
    <3>1. UNCHANGED wire /\ at'[c] = "replay"
      BY <1>4 DEF Subscribe, TypeOK
    <3> QED
      BY <2>2, <2>3, <3>1
  <2>4. CASE d # c
    BY <1>0, <1>4, <2>4 DEF Subscribe, TypeOK
  <2> QED
    BY <2>3, <2>4
<1>5. ASSUME NEW c \in Clients, SendPage(c)
      PROVE  WireOf(d)'
  <2>1. last[c] < log
    BY <1>5 DEF SendPage
  <2>2. /\ Page(c) \in Seq(Nat) /\ Len(Page(c)) \in Nat
        /\ \A i \in 1 .. Len(Page(c)) : Page(c)[i] = last[c] + i
    BY ONLY TypeOK, <2>1, PageRows, Typed
  <2>2a. Len(Page(c)) \in Nat
    BY <2>2
  <2>3. CASE d # c
    BY <1>0, <1>5, <2>3 DEF SendPage, TypeOK
  <2>4. CASE d = c
    <3>0. last[c] \in Nat /\ seen[c] \in Nat /\ Len(wire[c]) \in Nat
      BY Typed
    <3>1. wire'[c] = wire[c] \o Page(c)
      BY <1>5 DEF SendPage, TypeOK
    <3>2. /\ Len(wire'[c]) = Len(wire[c]) + Len(Page(c))
          /\ \A i \in 1 .. Len(wire[c]) + Len(Page(c)) :
                wire'[c][i] = IF i <= Len(wire[c]) THEN wire[c][i] ELSE Page(c)[i - Len(wire[c])]
      BY <2>2, <3>1, Typed, ConcatProperties
    <3>3. /\ \A i \in 1 .. Len(wire[c]) : wire'[c][i] = wire[c][i]
          /\ \A i \in 1 .. Len(Page(c)) : wire'[c][Len(wire[c]) + i] = last[c] + i
      <4>1. ASSUME NEW i \in 1 .. Len(wire[c])
            PROVE  wire'[c][i] = wire[c][i]
        <5>1. i \in 1 .. Len(wire[c]) + Len(Page(c)) /\ i <= Len(wire[c])
          BY <2>2, Typed
        <5> QED
          BY <3>2, <5>1
      <4>2. ASSUME NEW i \in 1 .. Len(Page(c))
            PROVE  wire'[c][Len(wire[c]) + i] = last[c] + i
        <5>1. /\ Len(wire[c]) + i \in 1 .. Len(wire[c]) + Len(Page(c))
              /\ ~ (Len(wire[c]) + i <= Len(wire[c])) /\ (Len(wire[c]) + i) - Len(wire[c]) = i
          BY <2>2, Typed
        <5> QED
          BY <2>2, <3>2, <5>1
      <4> QED
        BY <4>1, <4>2
    <3>4. last'[c] = last[c] + Len(Page(c)) /\ UNCHANGED <<seen, got, overtaken, at>> /\ at[c] # "off"
      BY <1>5 DEF SendPage, TypeOK
    <3>5. seen[c] <= last[c]
      BY <3>4 DEF MarkInv, MarkOf
    <3>6. ASSUME NEW i \in 1 .. Len(wire'[c])
          PROVE  \/ i \in 1 .. Len(wire[c])
                 \/ \E k \in 1 .. Len(Page(c)) : i = Len(wire[c]) + k /\ wire'[c][i] = last[c] + k
      <4>1. CASE i <= Len(wire[c])
        BY <3>2, <4>1, Typed
      <4>2. CASE ~ (i <= Len(wire[c]))
        <5>0. Len(wire[c]) \in Nat /\ i \in 1 .. Len(wire[c]) + Len(Page(c))
          BY <3>2, Typed
        <5>1. i - Len(wire[c]) \in 1 .. Len(Page(c)) /\ i = Len(wire[c]) + (i - Len(wire[c]))
          BY <2>2, <4>2, <5>0
        <5> QED
          BY <3>3, <5>1
      <4> QED
        BY <4>1, <4>2
    <3>7. ASSUME NEW i \in 1 .. Len(wire[c])
          PROVE  /\ seen[c] < wire[c][i] /\ wire[c][i] <= last[c] /\ wire[c][i] \in Nat
                 /\ wire'[c][i] = wire[c][i]
      BY <1>0, <2>4, <3>3, Typed
    <3>8. ASSUME NEW i \in 1 .. Len(wire'[c])
          PROVE  seen'[c] < wire'[c][i] /\ wire'[c][i] <= last'[c]
      <4>1. CASE i \in 1 .. Len(wire[c])
        <5>1. seen[c] < wire'[c][i] /\ wire'[c][i] <= last[c] /\ wire'[c][i] \in Nat
          BY <3>7, <4>1
        <5> QED
          BY <2>2, <3>0, <3>4, <5>1
      <4>2. CASE \E k \in 1 .. Len(Page(c)) : i = Len(wire[c]) + k /\ wire'[c][i] = last[c] + k
        BY ONLY <2>2a, <3>0, <3>4, <3>5, <4>2
      <4> QED
        BY <3>6, <4>1, <4>2
    <3>9. ASSUME NEW i \in 1 .. Len(wire'[c]), NEW j \in 1 .. Len(wire'[c]), i < j
          PROVE  wire'[c][i] < wire'[c][j]
      <4>1. CASE j \in 1 .. Len(wire[c])
        <5>1. i \in 1 .. Len(wire[c])
          BY <3>9, <4>1, Typed
        <5> QED
          BY <1>0, <2>4, <3>7, <3>9, <4>1, <5>1
      <4>2. ASSUME NEW k \in 1 .. Len(Page(c)), j = Len(wire[c]) + k, wire'[c][j] = last[c] + k
            PROVE  wire'[c][i] < wire'[c][j]
        <5>1. CASE i \in 1 .. Len(wire[c])
          <6>1. wire'[c][i] <= last[c] /\ wire'[c][i] \in Nat
            BY <3>7, <5>1
          <6> QED
            BY ONLY <2>2a, <3>0, <4>2, <6>1
        <5>2. CASE \E m \in 1 .. Len(Page(c)) : i = Len(wire[c]) + m /\ wire'[c][i] = last[c] + m
          BY ONLY <2>2a, <3>0, <3>9, <4>2, <5>2
        <5> QED
          BY <3>6, <5>1, <5>2
      <4> QED
        BY <3>6, <4>1, <4>2
    <3> QED
      BY <2>4, <3>4, <3>8, <3>9
  <2> QED
    BY <2>3, <2>4
<1>6. ASSUME NEW c \in Clients, GoLive(c)
      PROVE  WireOf(d)'
  BY <1>0, <1>6 DEF GoLive, TypeOK, MarkInv, MarkOf
<1>7. ASSUME NEW c \in Clients, ReceiveLive(c)
      PROVE  WireOf(d)'
  <2>1. CASE d # c
    BY <1>0, <1>7, <2>1 DEF ReceiveLive, Forward, TypeOK
  <2>2. CASE sent[pos[c]] <= last[c]
    BY <1>0, <1>7, <2>2 DEF ReceiveLive, Forward
  <2>3. CASE d = c /\ ~ (sent[pos[c]] <= last[c])
    <3>1. UNCHANGED <<seen, got, at, overtaken>> /\ at[c] = "live" /\ pos[c] \in 1 .. Len(sent)
      BY <1>7, Forwarding DEF ReceiveLive
    <3>2. last'[c] = sent[pos[c]] /\ wire'[c] = Append(wire[c], sent[pos[c]])
      BY <1>7, <2>3, Forwarding DEF TypeOK
    <3>3. sent[pos[c]] \in Nat
      BY <1>7, Forwarding
    <3>4. /\ Len(wire'[c]) = Len(wire[c]) + 1 /\ wire'[c][Len(wire[c]) + 1] = sent[pos[c]]
          /\ \A i \in 1 .. Len(wire[c]) : wire'[c][i] = wire[c][i]
      BY <3>2, <3>3, Typed, AppendProperties
    <3>5. last[c] < sent[pos[c]]
      BY <2>3, <3>3, Typed
    <3>6. seen[c] <= last[c]
      BY <3>1 DEF MarkInv, MarkOf
    <3>7. ASSUME NEW i \in 1 .. Len(wire'[c])
          PROVE  i \in 1 .. Len(wire[c]) \/ i = Len(wire[c]) + 1
      BY <3>4, Typed
    <3>8. ASSUME NEW i \in 1 .. Len(wire[c])
          PROVE  wire'[c][i] = wire[c][i] /\ seen[c] < wire[c][i] /\ wire[c][i] < sent[pos[c]]
      <4>1. /\ seen[c] < wire[c][i] /\ wire[c][i] <= last[c] /\ wire[c][i] \in Nat
            /\ wire'[c][i] = wire[c][i]
        BY <1>0, <2>3, <3>4, Typed
      <4>2. last[c] \in Nat
        BY Typed
      <4> QED
        BY <3>3, <3>5, <4>1, <4>2
    <3>9. ASSUME NEW i \in 1 .. Len(wire'[c])
          PROVE  seen'[c] < wire'[c][i] /\ wire'[c][i] <= last'[c]
      <4>1. CASE i \in 1 .. Len(wire[c])
        <5>1. wire'[c][i] < sent[pos[c]] /\ seen[c] < wire'[c][i] /\ wire'[c][i] \in Nat
          BY <3>8, <4>1, Typed
        <5> QED
          BY <3>1, <3>2, <3>3, <5>1
      <4>2. CASE i = Len(wire[c]) + 1
        BY <3>1, <3>2, <3>3, <3>4, <3>5, <3>6, <4>2, Typed
      <4> QED
        BY <3>7, <4>1, <4>2
    <3>10. ASSUME NEW i \in 1 .. Len(wire'[c]), NEW j \in 1 .. Len(wire'[c]), i < j
           PROVE  wire'[c][i] < wire'[c][j]
      <4>1. i \in 1 .. Len(wire[c])
        BY <3>4, <3>10, Typed
      <4>2. CASE j \in 1 .. Len(wire[c])
        BY <1>0, <2>3, <3>4, <3>10, <4>1, <4>2
      <4>3. CASE j = Len(wire[c]) + 1
        BY <3>4, <3>8, <4>1, <4>3
      <4> QED
        BY <3>7, <4>2, <4>3
    <3> QED
      BY <2>3, <3>1, <3>9, <3>10
  <2> QED
    BY <2>1, <2>2, <2>3
<1>8. ASSUME NEW c \in Clients, Lagged(c)
      PROVE  WireOf(d)'
  BY <1>0, <1>8 DEF Lagged, Lag, TypeOK, MarkInv, MarkOf
<1>9. ASSUME NEW c \in Clients, ClientReceives(c)
      PROVE  WireOf(d)'
  <2>1. CASE d # c
    BY <1>0, <1>9, <2>1 DEF ClientReceives, TypeOK
  <2>2. CASE d = c
    <3>1. wire[c] # <<>> /\ wire'[c] = Tail(wire[c])
      BY <1>9 DEF ClientReceives, TypeOK
    <3>2. /\ Len(wire'[c]) = Len(wire[c]) - 1 /\ Len(wire[c]) \in Nat \ {0}
          /\ \A i \in 1 .. Len(wire[c]) - 1 : wire'[c][i] = wire[c][i + 1]
      BY <3>1, Typed, HeadTailProperties
    <3>3. /\ seen'[c] = wire[c][1] /\ got'[c] = got[c] \union {wire[c][1]}
          /\ UNCHANGED <<at, last, overtaken>>
      BY <1>9, <3>1, Typed DEF ClientReceives, TypeOK
    <3>4. at[c] # "off"
      BY <1>0, <2>2, <3>1
    <3>5. ASSUME NEW i \in 1 .. Len(wire'[c])
          PROVE  i + 1 \in 1 .. Len(wire[c]) /\ 1 \in 1 .. Len(wire[c]) /\ 1 < i + 1 /\ wire'[c][i] = wire[c][i + 1]
      BY <3>2
    <3>6. ASSUME NEW i \in 1 .. Len(wire'[c]), NEW j \in 1 .. Len(wire'[c]), i < j
          PROVE  wire'[c][i] < wire'[c][j]
      <4>1. /\ i + 1 \in 1 .. Len(wire[c]) /\ j + 1 \in 1 .. Len(wire[c])
            /\ wire'[c][i] = wire[c][i + 1] /\ wire'[c][j] = wire[c][j + 1]
        BY <3>5
      <4>2. i + 1 < j + 1
        BY <3>2, <3>6
      <4> QED
        BY <1>0, <2>2, <4>1, <4>2
    <3> QED
      BY <1>0, <2>2, <3>3, <3>4, <3>5, <3>6
  <2> QED
    BY <2>1, <2>2
<1>10. ASSUME NEW c \in Clients, Disconnect(c)
      PROVE  WireOf(d)'
  BY <1>0, <1>10 DEF Disconnect, TypeOK, MarkInv, MarkOf
<1>11. CASE UNCHANGED vars
  BY <1>0, <1>11 DEF vars, TypeOK, MarkInv, MarkOf
<1> QED
  BY ONLY [Next]_vars, <1>1, <1>2, <1>3, <1>4, <1>5, <1>6, <1>7, <1>8, <1>9, <1>10, <1>11
  DEF Next, Forwarder

\* KeptInv is kept: where the mark leaps, what lies between was overtaken.
LEMMA KeptStep ==
    TypeOK /\ LogInv /\ OrderInv /\ MarkInv /\ Accounted /\ WireInv /\ KeptInv /\ [Next]_vars => KeptInv'
<1> SUFFICES ASSUME TypeOK, LogInv, OrderInv, MarkInv, Accounted, WireInv, KeptInv, [Next]_vars,
                    NEW d \in Clients, NEW e \in Nat \ {0}
             PROVE  KeptFor(d, e)'
  BY DEF KeptInv
<1>0. KeptFor(d, e) /\ WireOf(d)
  BY DEF KeptInv, WireInv
<1> USE DEF WireOf, KeptFor, logVars, streamVars, clientVars
<1>1. ASSUME Restart
      PROVE  KeptFor(d, e)'
  BY <1>0, <1>1 DEF Restart, TypeOK, MarkInv, MarkOf
<1>2. ASSUME NEW w \in Writers, Commit(w)
      PROVE  KeptFor(d, e)'
  BY <1>0, <1>2 DEF Commit, TypeOK, MarkInv, MarkOf
<1>3. ASSUME NEW w \in Writers, Broadcast(w)
      PROVE  KeptFor(d, e)'
  BY <1>0, <1>3 DEF Broadcast, Pending, TypeOK, MarkInv, MarkOf
<1>4. ASSUME NEW c \in Clients, Subscribe(c)
      PROVE  KeptFor(d, e)'
  BY <1>0, <1>4 DEF Subscribe, TypeOK, MarkInv, MarkOf
<1>5. ASSUME NEW c \in Clients, SendPage(c)
      PROVE  KeptFor(d, e)'
  <2>1. last[c] < log
    BY <1>5 DEF SendPage
  <2>2. /\ Page(c) \in Seq(Nat) /\ Len(Page(c)) \in Nat
        /\ \A i \in 1 .. Len(Page(c)) : Page(c)[i] = last[c] + i
    BY ONLY TypeOK, <2>1, PageRows, Typed
  <2>2a. Len(Page(c)) \in Nat
    BY <2>2
  <2>3. CASE d # c
    BY <1>0, <1>5, <2>3 DEF SendPage, TypeOK
  <2>4. CASE d = c
    <3>0. last[c] \in Nat /\ seen[c] \in Nat /\ Len(wire[c]) \in Nat
      BY Typed
    <3>1. wire'[c] = wire[c] \o Page(c)
      BY <1>5 DEF SendPage, TypeOK
    <3>2. /\ Len(wire'[c]) = Len(wire[c]) + Len(Page(c))
          /\ \A i \in 1 .. Len(wire[c]) + Len(Page(c)) :
                wire'[c][i] = IF i <= Len(wire[c]) THEN wire[c][i] ELSE Page(c)[i - Len(wire[c])]
      BY <2>2, <3>1, Typed, ConcatProperties
    <3>3. /\ \A i \in 1 .. Len(wire[c]) : wire'[c][i] = wire[c][i]
          /\ \A i \in 1 .. Len(Page(c)) : wire'[c][Len(wire[c]) + i] = last[c] + i
      <4>1. ASSUME NEW i \in 1 .. Len(wire[c])
            PROVE  wire'[c][i] = wire[c][i]
        <5>1. i \in 1 .. Len(wire[c]) + Len(Page(c)) /\ i <= Len(wire[c])
          BY <2>2, Typed
        <5> QED
          BY <3>2, <5>1
      <4>2. ASSUME NEW i \in 1 .. Len(Page(c))
            PROVE  wire'[c][Len(wire[c]) + i] = last[c] + i
        <5>1. /\ Len(wire[c]) + i \in 1 .. Len(wire[c]) + Len(Page(c))
              /\ ~ (Len(wire[c]) + i <= Len(wire[c])) /\ (Len(wire[c]) + i) - Len(wire[c]) = i
          BY <2>2, Typed
        <5> QED
          BY <2>2, <3>2, <5>1
      <4> QED
        BY <4>1, <4>2
    <3>4. last'[c] = last[c] + Len(Page(c)) /\ UNCHANGED <<seen, got, overtaken, at>> /\ at[c] # "off"
      BY <1>5 DEF SendPage, TypeOK
    <3>5. e <= seen[c] => e \in got[c] \union overtaken
      BY <1>0, <2>4
    <3>6. CASE e <= last[c]
      <4>1. ASSUME NEW i \in 1 .. Len(wire[c])
            PROVE  i \in 1 .. Len(wire'[c]) /\ wire'[c][i] = wire[c][i]
        BY <2>2, <3>2, <3>3, Typed
      <4> QED
        BY <1>0, <2>4, <3>4, <3>6, <4>1
    <3>7. CASE last[c] < e /\ e <= last'[c]
      <4>1. e - last[c] \in 1 .. Len(Page(c)) /\ last[c] + (e - last[c]) = e
        BY <2>2, <3>4, <3>7, Typed
      <4>2. Len(wire[c]) + (e - last[c]) \in 1 .. Len(wire'[c])
        <5> DEFINE k == e - last[c]
        <5>1. k \in 1 .. Len(Page(c))
          BY <4>1
        <5> HIDE DEF k
        <5>2. Len(wire[c]) + k \in 1 .. Len(wire'[c])
          BY <2>2, <3>2, <5>1, Typed
        <5> QED
          BY <5>2 DEF k
      <4>3. wire'[c][Len(wire[c]) + (e - last[c])] = e
        BY <3>3, <4>1
      <4> QED
        BY <2>4, <3>4, <3>5, <4>2, <4>3
    <3>8. CASE last'[c] < e
      BY <2>2, <2>4, <3>4, <3>5, <3>8, Typed
    <3> QED
      BY <2>2, <3>4, <3>6, <3>7, <3>8, Typed
  <2> QED
    BY <2>3, <2>4
<1>6. ASSUME NEW c \in Clients, GoLive(c)
      PROVE  KeptFor(d, e)'
  BY <1>0, <1>6 DEF GoLive, TypeOK, MarkInv, MarkOf
<1>7. ASSUME NEW c \in Clients, ReceiveLive(c)
      PROVE  KeptFor(d, e)'
  <2>1. CASE d # c
    BY <1>0, <1>7, <2>1 DEF ReceiveLive, Forward, TypeOK
  <2>2. CASE sent[pos[c]] <= last[c]
    BY <1>0, <1>7, <2>2 DEF ReceiveLive, Forward
  <2>3. CASE d = c /\ ~ (sent[pos[c]] <= last[c])
    <3>1. UNCHANGED <<seen, got, at, overtaken>> /\ at[c] = "live" /\ pos[c] \in 1 .. Len(sent)
      BY <1>7, Forwarding DEF ReceiveLive
    <3>2. last'[c] = sent[pos[c]] /\ wire'[c] = Append(wire[c], sent[pos[c]])
      BY <1>7, <2>3, Forwarding DEF TypeOK
    <3>3. sent[pos[c]] \in Nat
      BY <1>7, Forwarding
    <3>4. /\ Len(wire'[c]) = Len(wire[c]) + 1 /\ wire'[c][Len(wire[c]) + 1] = sent[pos[c]]
          /\ \A i \in 1 .. Len(wire[c]) : wire'[c][i] = wire[c][i]
      BY <3>2, <3>3, Typed, AppendProperties
    <3>5. last[c] < sent[pos[c]]
      BY <2>3, <3>3, Typed
    <3>6. CASE e <= last[c]
      <4>1. ASSUME NEW i \in 1 .. Len(wire[c])
            PROVE  i \in 1 .. Len(wire'[c]) /\ wire'[c][i] = wire[c][i]
        <5>1. i \in 1 .. Len(wire'[c])
          BY <3>4, Typed
        <5> QED
          BY <3>4, <5>1
      <4> QED
        BY <1>0, <2>3, <3>1, <3>6, <4>1
    <3>7. CASE last[c] < e /\ e < sent[pos[c]]
      <4>1. e \in 1 .. log /\ ~ (e <= last[c])
        BY <3>1, <3>3, <3>7, Typed DEF LogInv
      <4>2. AccountedFor(c, e)
        BY <3>1, <4>1 DEF Accounted
      <4>3. ASSUME e \in Pending
            PROVE  e \in overtaken
        BY <3>1, <3>7, <4>3 DEF Pending, OrderInv
      <4>4. ASSUME \E i \in pos[c] .. Len(sent) : sent[i] = e
            PROVE  e \in overtaken
        <5>1. PICK i \in pos[c] .. Len(sent) : sent[i] = e
          BY <4>4
        <5>2. i \in 1 .. Len(sent) /\ pos[c] < i
          BY <3>1, <3>3, <3>7, <5>1, Typed
        <5> QED
          BY <3>1, <3>7, <5>1, <5>2 DEF OrderInv
      <4>5. e \in overtaken
        BY ONLY <4>1, <4>2, <4>3, <4>4 DEF AccountedFor
      <4> QED
        BY <2>3, <3>1, <4>5
    <3>8. CASE e = sent[pos[c]]
      <4>1. Len(wire[c]) + 1 \in 1 .. Len(wire'[c])
        BY <3>4, Typed
      <4> QED
        BY <1>0, <2>3, <3>1, <3>4, <3>8, <4>1
    <3>9. CASE sent[pos[c]] < e
      BY <1>0, <2>3, <3>1, <3>2, <3>3, <3>5, <3>9, Typed
    <3> QED
      BY <3>3, <3>6, <3>7, <3>8, <3>9, Typed
  <2> QED
    BY <2>1, <2>2, <2>3
<1>8. ASSUME NEW c \in Clients, Lagged(c)
      PROVE  KeptFor(d, e)'
  BY <1>0, <1>8 DEF Lagged, Lag, TypeOK, MarkInv, MarkOf
<1>9. ASSUME NEW c \in Clients, ClientReceives(c)
      PROVE  KeptFor(d, e)'
  <2>1. CASE d # c
    BY <1>0, <1>9, <2>1 DEF ClientReceives, TypeOK
  <2>2. CASE d = c
    <3>1. wire[c] # <<>> /\ wire'[c] = Tail(wire[c])
      BY <1>9 DEF ClientReceives, TypeOK
    <3>2. /\ Len(wire'[c]) = Len(wire[c]) - 1 /\ Len(wire[c]) \in Nat \ {0}
          /\ \A i \in 1 .. Len(wire[c]) - 1 : wire'[c][i] = wire[c][i + 1]
      BY <3>1, Typed, HeadTailProperties
    <3>3. /\ seen'[c] = wire[c][1] /\ got'[c] = got[c] \union {wire[c][1]}
          /\ UNCHANGED <<at, last, overtaken>>
      BY <1>9, <3>1, Typed DEF ClientReceives, TypeOK
    <3>4. at[c] # "off"
      BY <1>0, <2>2, <3>1
    <3>5. 1 \in 1 .. Len(wire[c])
      BY <3>2
    <3>6. ASSUME NEW i \in 1 .. Len(wire[c]), wire[c][i] = e, i # 1
          PROVE  \E k \in 1 .. Len(wire'[c]) : wire'[c][k] = e
      <4>1. i - 1 \in 1 .. Len(wire'[c]) /\ i - 1 \in 1 .. Len(wire[c]) - 1 /\ (i - 1) + 1 = i
        BY <3>2, <3>6
      <4>2. wire'[c][i - 1] = e
        BY <3>2, <3>6, <4>1
      <4> QED
        BY <4>1, <4>2
    <3>7. ASSUME NEW i \in 1 .. Len(wire[c]), wire[c][i] = e, i # 1
          PROVE  wire[c][1] < e
      <4>1. 1 < i
        BY <3>2, <3>7
      <4> QED
        BY <1>0, <2>2, <3>5, <3>7, <4>1
    <3>8. seen[c] < wire[c][1] /\ wire[c][1] <= last[c] /\ wire[c][1] \in Nat
      BY <1>0, <2>2, <3>5, Typed
    <3>9. e <= last[c] => \/ e \in got[c] \union overtaken
                          \/ \E i \in 1 .. Len(wire[c]) : wire[c][i] = e
      BY <1>0, <2>2, <3>4
    <3>10. e <= seen'[c] => e \in got'[c] \union overtaken'
      BY <3>3, <3>7, <3>8, <3>9, Typed
    <3>11. e <= last'[c] => \/ e <= seen'[c]
                            \/ e \in overtaken'
                            \/ \E i \in 1 .. Len(wire'[c]) : wire'[c][i] = e
      <4>1. CASE \E i \in 1 .. Len(wire[c]) : wire[c][i] = e
        <5>1. PICK i \in 1 .. Len(wire[c]) : wire[c][i] = e
          BY <4>1
        <5>2. CASE i = 1
          BY <3>3, <3>8, <5>1, <5>2
        <5>3. CASE i # 1
          BY <3>6, <5>1, <5>3
        <5> QED
          BY <5>2, <5>3
      <4>2. CASE e <= seen[c]
        BY <3>3, <3>8, <4>2, Typed
      <4> QED
        BY <1>0, <2>2, <3>3, <3>4, <4>1, <4>2
    <3> QED
      BY <2>2, <3>3, <3>10, <3>11
  <2> QED
    BY <2>1, <2>2
<1>10. ASSUME NEW c \in Clients, Disconnect(c)
      PROVE  KeptFor(d, e)'
  BY <1>0, <1>10 DEF Disconnect, TypeOK, MarkInv, MarkOf
<1>11. CASE UNCHANGED vars
  BY <1>0, <1>11 DEF vars, TypeOK, MarkInv, MarkOf
<1> QED
  BY ONLY [Next]_vars, <1>1, <1>2, <1>3, <1>4, <1>5, <1>6, <1>7, <1>8, <1>9, <1>10, <1>11
  DEF Next, Forwarder

-----------------------------------------------------------------------------
(* The theorems.                                                            *)

\* The conjunction of the parts is inductive.
LEMMA IInvStart == Init => IInv
<1> SUFFICES ASSUME Init PROVE IInv
  OBVIOUS
<1>1. TypeOK
  BY BoundAssumption DEF Init, TypeOK
<1>2. LogInv /\ OrderInv /\ MarkInv
  BY BoundAssumption DEF Init, LogInv, OrderInv, MarkInv, MarkOf
<1>3. Accounted /\ WireInv /\ KeptInv
  BY DEF Init, Accounted, WireInv, WireOf, KeptInv, KeptFor
<1> QED
  BY <1>1, <1>2, <1>3 DEF IInv

LEMMA IInvStep == IInv /\ [Next]_vars => IInv'
  BY TypeStep, LogStep, OrderStep, MarkStep, AccountStep, WireStep, KeptStep DEF IInv

LEMMA Invariant == Spec => []IInv
  BY IInvStart, IInvStep, PTL DEF Spec

\* Every variable keeps its type (EventStream!TypeOK): marks and cursors never
\* pass the end of the log, positions never fall behind the first broadcast.
THEOREM TypeCorrect == Spec => []TypeOK
<1>1. IInv => TypeOK
  BY DEF IInv
<1> QED
  BY <1>1, Invariant, PTL

\* Nothing is delivered twice or out of order (EventStream!NoDuplicates), over
\* the seams of replay, live tail, gap recovery and reconnection.
THEOREM DeliveredInOrder == Spec => []NoDuplicates
<1>1. IInv => NoDuplicates
  <2> SUFFICES ASSUME IInv, NEW c \in Clients PROVE Increasing(<<seen[c]>> \o wire[c])
    BY DEF NoDuplicates
  <2>0. TypeOK /\ WireOf(c)
    BY DEF IInv, WireInv
  <2>1. /\ <<seen[c]>> \in Seq(Nat) /\ Len(<<seen[c]>>) = 1 /\ <<seen[c]>>[1] = seen[c]
        /\ wire[c] \in Seq(Nat) /\ Len(wire[c]) \in Nat
    BY <2>0, Typed
  <2> DEFINE s == <<seen[c]>> \o wire[c]
  <2>2. /\ Len(s) = 1 + Len(wire[c])
        /\ \A i \in 1 .. 1 + Len(wire[c]) :
              s[i] = IF i <= 1 THEN <<seen[c]>>[i] ELSE wire[c][i - 1]
    BY <2>1, ConcatProperties
  <2>3. s[1] = seen[c] /\ \A i \in 2 .. Len(s) : s[i] = wire[c][i - 1]
    BY <2>1, <2>2
  <2> HIDE DEF s
  <2>4. ASSUME NEW i \in 1 .. Len(s), NEW j \in 1 .. Len(s), i < j
        PROVE  s[i] < s[j]
    <3>1. j \in 2 .. Len(s) /\ j - 1 \in 1 .. Len(wire[c]) /\ s[j] = wire[c][j - 1]
      BY <2>1, <2>2, <2>3, <2>4
    <3>2. CASE i = 1
      BY <2>0, <2>3, <3>1, <3>2 DEF WireOf
    <3>3. CASE i # 1
      <4>1. i - 1 \in 1 .. Len(wire[c]) /\ i - 1 < j - 1 /\ s[i] = wire[c][i - 1]
        BY <2>1, <2>2, <2>3, <2>4, <3>3
      <4> QED
        BY <2>0, <3>1, <4>1 DEF WireOf
    <3> QED
      BY <3>2, <3>3
  <2> QED
    BY <2>4 DEF s, Increasing
<1> QED
  BY <1>1, Invariant, PTL

\* A cursor passes only what was received or what a later broadcast overtook
\* (EventStream!OnlyOvertakenLost): replay, paging, lag, lost connections and
\* restarts lose nothing.
THEOREM LostOnlyWhenOvertaken == Spec => []OnlyOvertakenLost
<1>1. IInv => OnlyOvertakenLost
  <2> SUFFICES ASSUME IInv, NEW c \in Clients, NEW e \in 1 .. seen[c]
               PROVE  e \in got[c] \union overtaken
    BY DEF OnlyOvertakenLost
  <2>1. seen[c] \in Nat
    BY Typed DEF IInv
  <2>2. e \in Nat \ {0} /\ e <= seen[c]
    BY <2>1
  <2> QED
    BY <2>2 DEF IInv, KeptInv, KeptFor
<1> QED
  BY <1>1, Invariant, PTL

-----------------------------------------------------------------------------
(* The abstract promise.                                                    *)

\* The stream implements Timeline (EventStream!KeepsPromise): every step of
\* store, forwarders, connections and clients is one of the log growing, an
\* event being overtaken, a client reading on, or none of these.
THEOREM StreamKeepsPromise == Spec => KeepsPromise
<1>1. Init => Promise!Init
  BY DEF Init, Promise!Init
<1>2. IInv /\ [Next]_vars => [Promise!Next]_<<log, seen, overtaken>>
  <2> SUFFICES ASSUME IInv, [Next]_vars
               PROVE  [Promise!Next]_<<log, seen, overtaken>>
    OBVIOUS
  <2>0. TypeOK /\ log \in Nat
    BY BoundAssumption DEF IInv, TypeOK
  <2>1. ASSUME NEW v \in Writers, Commit(v)
        PROVE  Promise!Next
    BY <2>0, <2>1 DEF Commit, clientVars, Promise!Next, Promise!Commit
  <2>2. ASSUME NEW c \in Clients, ClientReceives(c)
        PROVE  Promise!Next
    <3>1. /\ wire[c] \in Seq(Nat) /\ wire[c] # <<>> /\ Head(wire[c]) = wire[c][1]
          /\ seen' = [seen EXCEPT ![c] = wire[c][1]] /\ UNCHANGED <<log, overtaken>>
      BY <2>0, <2>2, Typed DEF ClientReceives, logVars
    <3>2. 1 \in 1 .. Len(wire[c]) /\ Len(wire[c]) \in Nat /\ wire[c][1] \in Nat /\ seen[c] \in Nat
      BY <2>0, <3>1, Typed
    <3>3. WireOf(c) /\ MarkOf(c)
      BY DEF IInv, WireInv, MarkInv
    <3>4. at[c] # "off" /\ seen[c] < wire[c][1] /\ wire[c][1] <= last[c] /\ last[c] <= log
      BY <3>1, <3>2, <3>3 DEF WireOf, MarkOf
    <3>5. last[c] \in Nat
      BY <2>0, Typed
    <3>6. ASSUME NEW f \in seen[c] + 1 .. wire[c][1] - 1
          PROVE  f \in overtaken
      <4>1. f \in Nat \ {0} /\ seen[c] < f /\ f < wire[c][1] /\ f <= last[c]
        BY <3>2, <3>4, <3>5
      <4>2. KeptFor(c, f)
        BY <4>1 DEF IInv, KeptInv
      <4>3. ASSUME NEW i \in 1 .. Len(wire[c]), wire[c][i] = f
            PROVE  FALSE
        <5>1. i # 1 /\ 1 < i
          BY <3>2, <4>1, <4>3
        <5>2. wire[c][1] < wire[c][i]
          BY <3>2, <3>3, <5>1 DEF WireOf
        <5> QED
          BY <3>2, <4>1, <4>3, <5>2
      <4> QED
        BY <3>2, <3>4, <4>1, <4>2, <4>3 DEF KeptFor
    <3>7. wire[c][1] \in seen[c] + 1 .. log
      BY <2>0, <3>2, <3>4, <3>5
    <3> QED
      BY <3>1, <3>6, <3>7 DEF Promise!Next, Promise!Receive
  <2>3. CASE Restart
    BY <2>3 DEF Restart, clientVars
  <2>4. ASSUME NEW v \in Writers, Broadcast(v)
        PROVE  Promise!Next
    <3>1. PICK e \in pending[v] : overtaken' = overtaken \union {f \in Pending : f < e}
      BY <2>4 DEF Broadcast
    <3>2. e \in Nat /\ e <= log
      BY <2>0, <3>1 DEF IInv, LogInv, TypeOK
    <3>3. \A f \in Pending : f \in Nat /\ 1 <= f
      BY <2>0 DEF IInv, LogInv, TypeOK, Pending
    <3>4. overtaken \subseteq overtaken' /\ overtaken' \ overtaken \subseteq 1 .. log - 1
      BY <2>0, <3>1, <3>2, <3>3
    <3>5. UNCHANGED <<log, seen>>
      BY <2>4 DEF Broadcast, clientVars
    <3> QED
      BY <3>4, <3>5 DEF Promise!Next, Promise!Overtake
  <2>5. ASSUME NEW c \in Clients, Subscribe(c) \/ Forwarder(c) \/ Disconnect(c)
        PROVE  UNCHANGED <<log, seen, overtaken>>
    BY <2>5 DEF Subscribe, Forwarder, SendPage, GoLive, ReceiveLive, Lagged, Disconnect,
                logVars, clientVars
  <2>6. CASE UNCHANGED vars
    BY <2>6 DEF vars, logVars, clientVars
  <2> QED
    BY ONLY [Next]_vars, <2>1, <2>2, <2>3, <2>4, <2>5, <2>6 DEF Next
<1> QED
  BY <1>1, <1>2, Invariant, PTL DEF Spec, KeepsPromise, Promise!Spec

-----------------------------------------------------------------------------
(* A single writer.                                                         *)

NoneLate == overtaken = {}

\* With one writer no broadcast is ever overtaken, ...
LEMMA NoneOvertaken ==
    ASSUME NEW w, Writers = {w}
    PROVE  Spec => []NoneLate
<1>1. Init => NoneLate
  BY DEF Init, NoneLate
<1>2. TypeOK /\ NoneLate /\ [Next]_vars => NoneLate'
  <2> SUFFICES ASSUME TypeOK, NoneLate, [Next]_vars PROVE NoneLate'
    OBVIOUS
  <2> USE DEF NoneLate
  <2>1. ASSUME NEW v \in Writers, Broadcast(v)
        PROVE  NoneLate'
    <3>1. PICK e \in pending[v] : /\ \A f \in pending[v] : e <= f
                                  /\ overtaken' = overtaken \union {f \in Pending : f < e}
      BY <2>1 DEF Broadcast
    <3>2. Pending = pending[v] /\ pending[v] \subseteq Nat
      BY DEF Pending, TypeOK
    <3> QED
      BY <3>1, <3>2
  <2>2. ASSUME NEW v \in Writers, Commit(v)
        PROVE  NoneLate'
    BY <2>2 DEF Commit
  <2>3. CASE Restart
    BY <2>3 DEF Restart
  <2>4. ASSUME NEW c \in Clients, Subscribe(c) \/ Forwarder(c) \/ ClientReceives(c) \/ Disconnect(c)
        PROVE  NoneLate'
    BY <2>4 DEF Subscribe, Forwarder, SendPage, GoLive, ReceiveLive, Lagged, ClientReceives,
                Disconnect, logVars
  <2>5. CASE UNCHANGED vars
    BY <2>5 DEF vars, logVars
  <2> QED
    BY ONLY [Next]_vars, <2>1, <2>2, <2>3, <2>4, <2>5 DEF Next
<1>3. IInv => TypeOK
  BY DEF IInv
<1> QED
  BY <1>1, <1>2, <1>3, Invariant, PTL DEF Spec

\* ... and a client's cursor passes nothing it did not get (EventStream!
\* NothingLost), which the comment of start_event_stream says of any writers.
THEOREM SingleWriterLosesNothing ==
    ASSUME NEW w, Writers = {w}
    PROVE  Spec => []NothingLost
<1>1. OnlyOvertakenLost /\ NoneLate => NothingLost
  BY DEF OnlyOvertakenLost, NoneLate, NothingLost
<1> QED
  BY <1>1, LostOnlyWhenOvertaken, NoneOvertaken, PTL


-----------------------------------------------------------------------------
(* The terminal.                                                             *)

Attaches == [kind : {"attach"}, pane : 1 .. MaxPanes]
Detaches == [kind : {"detach"}]
Typings  == [kind : {"key"}, key : 1 .. MaxKeys]
Requests == Attaches \cup Detaches \cup Typings

Replays  == [kind : {"attached"}, pane : 1 .. MaxPanes, upto : 0 .. MaxBytes]
Outputs  == [kind : {"output"}, chunk : Bytes \X Bytes]
Repaints == [kind : {"repaint"}, upto : 0 .. MaxBytes]
Messages == Replays \cup Outputs \cup Repaints

\* The types, with those of the requests and messages in full.
TermTyped ==
    /\ printed \in 0 .. MaxBytes /\ ring \in Seq(Bytes) /\ chunks \in Seq(Bytes \X Bytes)
    /\ watchers \in 0 .. 2 /\ handling \in {"idle", "swap"}
    /\ fwd \in 0 .. Len(chunks) + 1 /\ oldFwd \in 0 .. Len(chunks) + 1 /\ Len(chunks) <= printed
    /\ toDaemon \in Seq(Requests) /\ toClient \in Seq(Messages)
    /\ socket \in {"open", "closed"} /\ losses \in Nat /\ reattached \in Nat
    /\ losses + reattached <= MaxTroubles
    /\ pane \in {"none", "mounted", "waiting", "replaying", "live", "failed"}
    /\ opened \in 0 .. MaxPanes /\ (pane # "none" => opened # 0)
    /\ shown \in Screens /\ disturbed \in BOOLEAN
    /\ typed \in 0 .. MaxKeys /\ held \in Seq(1 .. MaxKeys) /\ console \in Seq(1 .. MaxKeys)

\* The connection's end at the daemon: a forwarder waits to be replaced only
\* inside an attach, and with the socket everything on it is gone.
ServerOK ==
    /\ WatchersCounted
    /\ (oldFwd # Nobody) <=> (handling = "swap")
    /\ handling = "swap" => fwd # Nobody
    /\ socket = "closed" => toDaemon = << >> /\ toClient = << >> /\ fwd = Nobody /\ oldFwd = Nobody

\* The first byte of a chunk that was sent, or will be.
FirstOf(n) == IF n <= Len(chunks) THEN chunks[n][1] ELSE printed + 1

\* The chunks follow one another.
ChunksOK == \A n \in 1 .. Len(chunks) : chunks[n][2] + 1 = FirstOf(n + 1)

\* Before the j-th request is served, every forwarder and every attach before it
\* is met by a detach.
Cleared(j) ==
    /\ fwd # Nobody => \E d \in 1 .. j - 1 : toDaemon[d].kind = "detach"
    /\ \A i \in 1 .. j - 1 : toDaemon[i].kind = "attach" =>
          \E d \in i + 1 .. j - 1 : toDaemon[d].kind = "detach"

\* A pane that has not asked yet finds the connection cleared when it does, and
\* requests and answers bear the numbers of panes opened so far.
AskOK ==
    /\ pane \in {"none", "mounted", "failed"} => Cleared(Len(toDaemon) + 1)
    /\ \A i \in 1 .. Len(toDaemon) : toDaemon[i].kind = "attach" =>
          toDaemon[i].pane <= opened /\ (pane \in {"mounted", "failed"} => toDaemon[i].pane < opened)
    /\ \A i \in 1 .. Len(toClient) : toClient[i].kind = "attached" =>
          toClient[i].pane <= opened /\ (pane \in {"mounted", "failed"} => toClient[i].pane < opened)

OnlyKeysAfter(j) == \A i \in j + 1 .. Len(toDaemon) : toDaemon[i].kind = "key"

\* The messages after the k-th up to the i-th are output.
Plain(k, i) == \A m \in k + 1 .. i : toClient[m].kind = "output"

\* After the k-th message, and a screen that ends with byte b, come chunks that
\* go on from there, up to where the forwarder goes on, unless it lags.
LastByte(k, b, i) == IF i = k THEN b ELSE toClient[i].chunk[2]

Follows(k, b) ==
    /\ \A i \in k + 1 .. Len(toClient) : toClient[i].kind # "attached"
    /\ \A i \in k + 1 .. Len(toClient) :
          Plain(k, i) => toClient[i].chunk[1] = LastByte(k, b, i - 1) + 1
    /\ fwd # Nobody /\ Plain(k, Len(toClient)) => FirstOf(fwd) = LastByte(k, b, Len(toClient)) + 1

\* The pane's request is on its way, behind whatever clears the connection ...
Asked ==
    /\ \E j \in 1 .. Len(toDaemon) :
          /\ toDaemon[j].kind = "attach" /\ toDaemon[j].pane = opened
          /\ OnlyKeysAfter(j) /\ Cleared(j)
          /\ \A i \in 1 .. j - 1 : toDaemon[i].kind = "attach" => toDaemon[i].pane < opened
    /\ \A i \in 1 .. Len(toClient) : toClient[i].kind = "attached" => toClient[i].pane < opened

\* ... or its answer is, and what comes behind it follows on ...
Answered ==
    /\ OnlyKeysAfter(0) /\ oldFwd = Nobody
    /\ \E k \in 1 .. Len(toClient) :
          /\ toClient[k].kind = "attached" /\ toClient[k].pane = opened
          /\ \A i \in 1 .. k - 1 : toClient[i].kind = "attached" => toClient[i].pane < opened
          /\ Follows(k, toClient[k].upto)

\* ... or the screen shows it.
Showing == OnlyKeysAfter(0) /\ oldFwd = Nobody /\ shown # Garbled /\ Follows(0, shown)

ScreenOK ==
    ~disturbed =>
        /\ pane = "waiting" => Asked \/ Answered
        /\ pane \in {"replaying", "live"} => Showing

IsKey(i) == toDaemon[i].kind = "key"

\* Keys that arrived, are on their way and wait for the replay, in this order.
KeysOK ==
    /\ held # << >> => pane = "replaying"
    /\ \A i, j \in 1 .. Len(console) : i < j => console[i] < console[j]
    /\ \A i, j \in 1 .. Len(toDaemon) : IsKey(i) /\ IsKey(j) /\ i < j => toDaemon[i].key < toDaemon[j].key
    /\ \A i, j \in 1 .. Len(held) : i < j => held[i] < held[j]
    /\ \A i \in 1 .. Len(console), j \in 1 .. Len(toDaemon) : IsKey(j) => console[i] < toDaemon[j].key
    /\ \A i \in 1 .. Len(console), j \in 1 .. Len(held) : console[i] < held[j]
    /\ \A i \in 1 .. Len(toDaemon), j \in 1 .. Len(held) : IsKey(i) => toDaemon[i].key < held[j]
    /\ \A i \in 1 .. Len(console) : console[i] <= typed
    /\ \A i \in 1 .. Len(toDaemon) : IsKey(i) => toDaemon[i].key <= typed
    /\ \A i \in 1 .. Len(held) : held[i] <= typed

KeyIsThere(k) ==
    \/ \E i \in 1 .. Len(console) : console[i] = k
    \/ \E i \in 1 .. Len(toDaemon) : IsKey(i) /\ toDaemon[i].key = k
    \/ \E i \in 1 .. Len(held) : held[i] = k

NoKeyLost ==
    /\ opened = 0 => typed = 0
    /\ losses = 0 => socket = "open"
    /\ (opened = 0 \/ (opened = 1 /\ pane # "none")) /\ losses = 0 => \A k \in 1 .. typed : KeyIsThere(k)

TermInv ==
    /\ TermTyped /\ RingIsTail /\ ServerOK /\ ChunksOK /\ AskOK /\ ScreenOK /\ KeysOK /\ NoKeyLost

\* What the types say of the two ends' queues.
LEMMA Wires ==
    ASSUME TermTyped
    PROVE  /\ Len(toDaemon) \in Nat /\ DOMAIN toDaemon = 1 .. Len(toDaemon)
           /\ \A i \in 1 .. Len(toDaemon) :
                /\ toDaemon[i] \in Requests /\ toDaemon[i].kind \in {"attach", "detach", "key"}
                /\ toDaemon[i].kind = "attach" => toDaemon[i].pane \in 1 .. MaxPanes
                /\ toDaemon[i].kind = "key" => toDaemon[i].key \in 1 .. MaxKeys
           /\ Len(toClient) \in Nat /\ DOMAIN toClient = 1 .. Len(toClient)
           /\ \A i \in 1 .. Len(toClient) :
                /\ toClient[i] \in Messages /\ toClient[i].kind \in {"attached", "output", "repaint"}
                /\ toClient[i].kind = "attached" =>
                      toClient[i].pane \in 1 .. MaxPanes /\ toClient[i].upto \in 0 .. MaxBytes
                /\ toClient[i].kind = "output" => toClient[i].chunk \in Bytes \X Bytes
                /\ toClient[i].kind = "repaint" => toClient[i].upto \in 0 .. MaxBytes
<1>1. toDaemon \in Seq(Requests) /\ toClient \in Seq(Messages)
  BY DEF TermTyped
<1>2. ASSUME NEW r \in Requests
      PROVE  /\ r.kind \in {"attach", "detach", "key"}
             /\ r.kind = "attach" => r.pane \in 1 .. MaxPanes
             /\ r.kind = "key" => r.key \in 1 .. MaxKeys
  BY DEF Requests, Attaches, Detaches, Typings
<1>3. ASSUME NEW m \in Messages
      PROVE  /\ m.kind \in {"attached", "output", "repaint"}
             /\ m.kind = "attached" => m.pane \in 1 .. MaxPanes /\ m.upto \in 0 .. MaxBytes
             /\ m.kind = "output" => m.chunk \in Bytes \X Bytes
             /\ m.kind = "repaint" => m.upto \in 0 .. MaxBytes
  BY DEF Messages, Replays, Outputs, Repaints
<1>4. /\ Len(toDaemon) \in Nat /\ DOMAIN toDaemon = 1 .. Len(toDaemon)
      /\ \A i \in 1 .. Len(toDaemon) : toDaemon[i] \in Requests
      /\ Len(toClient) \in Nat /\ DOMAIN toClient = 1 .. Len(toClient)
      /\ \A i \in 1 .. Len(toClient) : toClient[i] \in Messages
  BY <1>1
<1> QED
  BY <1>2, <1>3, <1>4

\* A request is served, a request is sent.
LEMMA RequestServed ==
    ASSUME TermTyped, toDaemon # << >>, toDaemon' = Tail(toDaemon)
    PROVE  /\ toDaemon' \in Seq(Requests) /\ Len(toDaemon) \in Nat \ {0}
           /\ Head(toDaemon) = toDaemon[1] /\ Len(toDaemon') = Len(toDaemon) - 1
           /\ \A i \in 1 .. Len(toDaemon) - 1 : toDaemon'[i] = toDaemon[i + 1]
BY HeadTailProperties, EmptySeq DEF TermTyped

LEMMA RequestSent ==
    ASSUME TermTyped, NEW r \in Requests, toDaemon' = Append(toDaemon, r)
    PROVE  /\ toDaemon' \in Seq(Requests) /\ Len(toDaemon') = Len(toDaemon) + 1
           /\ toDaemon'[Len(toDaemon) + 1] = r
           /\ \A i \in 1 .. Len(toDaemon) : toDaemon'[i] = toDaemon[i]
BY AppendProperties DEF TermTyped

\* A message is received, a message is sent.
LEMMA MessageTaken ==
    ASSUME TermTyped, toClient # << >>, toClient' = Tail(toClient)
    PROVE  /\ toClient' \in Seq(Messages) /\ Len(toClient) \in Nat \ {0}
           /\ Head(toClient) = toClient[1] /\ Len(toClient') = Len(toClient) - 1
           /\ \A i \in 1 .. Len(toClient) - 1 : toClient'[i] = toClient[i + 1]
BY HeadTailProperties, EmptySeq DEF TermTyped

LEMMA MessageSent ==
    ASSUME TermTyped, NEW m \in Messages, toClient' = Append(toClient, m)
    PROVE  /\ toClient' \in Seq(Messages) /\ Len(toClient') = Len(toClient) + 1
           /\ toClient'[Len(toClient) + 1] = m
           /\ \A i \in 1 .. Len(toClient) : toClient'[i] = toClient[i]
BY AppendProperties DEF TermTyped

\* The keys held during the replay are sent.
LEMMA HeldSent ==
    ASSUME TermTyped, toDaemon' = toDaemon \o Frames(held)
    PROVE  /\ toDaemon' \in Seq(Requests) /\ Len(toDaemon') = Len(toDaemon) + Len(held)
           /\ Len(held) \in Nat
           /\ \A i \in 1 .. Len(toDaemon) : toDaemon'[i] = toDaemon[i]
           /\ \A i \in 1 .. Len(held) :
                 toDaemon'[Len(toDaemon) + i] = [kind |-> "key", key |-> held[i]]
<1>1. /\ held \in Seq(1 .. MaxKeys) /\ Len(held) \in Nat /\ DOMAIN held = 1 .. Len(held)
      /\ toDaemon \in Seq(Requests) /\ Len(toDaemon) \in Nat
  BY DEF TermTyped
<1>2. /\ Frames(held) \in Seq(Requests) /\ Len(Frames(held)) = Len(held)
      /\ \A i \in 1 .. Len(held) : Frames(held)[i] = [kind |-> "key", key |-> held[i]]
  <2>1. Frames(held) = [i \in 1 .. Len(held) |-> [kind |-> "key", key |-> held[i]]]
    BY <1>1 DEF Frames
  <2>2. \A i \in 1 .. Len(held) : [kind |-> "key", key |-> held[i]] \in Requests
    <3> SUFFICES ASSUME NEW i \in 1 .. Len(held)
                 PROVE  [kind |-> "key", key |-> held[i]] \in Requests
      OBVIOUS
    <3>1. held[i] \in 1 .. MaxKeys
      BY <1>1, ElementOfSeq
    <3> QED
      BY <3>1 DEF Requests, Typings
  <2> QED
    BY <1>1, <2>1, <2>2
<1>3. /\ toDaemon' \in Seq(Requests) /\ Len(toDaemon') = Len(toDaemon) + Len(held)
      /\ \A i \in 1 .. Len(toDaemon) + Len(held) :
            toDaemon'[i] = IF i <= Len(toDaemon) THEN toDaemon[i]
                           ELSE Frames(held)[i - Len(toDaemon)]
  <2> DEFINE f == Frames(held)
  <2>1. toDaemon \in Seq(Requests) /\ f \in Seq(Requests) /\ toDaemon' = toDaemon \o f
    BY <1>1, <1>2
  <2>2. Len(f) = Len(held)
    BY <1>2
  <2> HIDE DEF f
  <2>3. /\ toDaemon \o f \in Seq(Requests) /\ Len(toDaemon \o f) = Len(toDaemon) + Len(f)
        /\ \A i \in 1 .. Len(toDaemon) + Len(f) :
              (toDaemon \o f)[i] = IF i <= Len(toDaemon) THEN toDaemon[i] ELSE f[i - Len(toDaemon)]
    BY ONLY <2>1, ConcatProperties
  <2> QED
    BY <2>1, <2>2, <2>3 DEF f
<1>4. ASSUME NEW i \in 1 .. Len(held)
      PROVE  toDaemon'[Len(toDaemon) + i] = [kind |-> "key", key |-> held[i]]
  <2>1. /\ Len(toDaemon) + i \in 1 .. Len(toDaemon) + Len(held)
        /\ ~ (Len(toDaemon) + i <= Len(toDaemon)) /\ (Len(toDaemon) + i) - Len(toDaemon) = i
    BY <1>1
  <2> QED
    BY <1>2, <1>3, <2>1
<1> QED
  BY <1>1, <1>3, <1>4

\* What a forwarder sends, and where it goes on.
LEMMA ForwardedIs ==
    ASSUME TermTyped, NEW n \in 1 .. Len(chunks)
    PROVE  /\ Forwarded(n) \in Messages /\ Forwarded(n).kind # "attached"
           /\ Oldest \in 1 .. Len(chunks) + 1
           /\ n < Oldest => Forwarded(n) = [kind |-> "repaint", upto |-> printed]
           /\ n >= Oldest => Forwarded(n) = [kind |-> "output", chunk |-> chunks[n]]
           /\ chunks[n] \in Bytes \X Bytes
<1>1. /\ Len(chunks) \in Nat /\ chunks[n] \in Bytes \X Bytes /\ printed \in 0 .. MaxBytes
  BY DEF TermTyped
<1>2. Oldest \in 1 .. Len(chunks) + 1
  BY <1>1, TerminalAssumption DEF Oldest
<1>3. CASE n < Oldest
  <2>1. Forwarded(n) = [kind |-> "repaint", upto |-> printed]
    BY <1>3 DEF Forwarded, Replay
  <2> QED
    BY <1>1, <1>2, <1>3, <2>1 DEF Messages, Repaints
<1>4. CASE ~ (n < Oldest)
  <2>1. Forwarded(n) = [kind |-> "output", chunk |-> chunks[n]]
    BY <1>4 DEF Forwarded
  <2> QED
    BY <1>1, <1>2, <1>4, <2>1 DEF Messages, Outputs
<1> QED
  BY <1>3, <1>4

\* Pushing the next bytes on the ring leaves it the newest ones.
LEMMA Pushing ==
    ASSUME TermTyped, RingIsTail, NEW n \in 1 .. ReadChunk, printed + n <= MaxBytes,
           printed' = printed + n, ring' = Push(ring, [i \in 1 .. n |-> printed + i])
    PROVE  ring' \in Seq(Bytes) /\ RingIsTail'
<1> DEFINE bytes == [i \in 1 .. n |-> printed + i]
<1>1. /\ printed \in Nat /\ ring \in Seq(Bytes) /\ Len(ring) \in Nat /\ DOMAIN ring = 1 .. Len(ring)
      /\ RingCap \in Nat \ {0} /\ n \in Nat \ {0} /\ MaxBytes \in Nat
  <2>1. ring \in Seq(Bytes) /\ printed \in 0 .. MaxBytes
    BY DEF TermTyped
  <2>2. RingCap \in Nat \ {0} /\ ReadChunk \in Nat \ {0} /\ MaxBytes \in Nat
    BY TerminalAssumption
  <2> QED
    BY <2>1, <2>2
<1>2. /\ bytes \in Seq(Bytes) /\ Len(bytes) = n
      /\ \A i \in 1 .. n : bytes[i] = printed + i
  <2>1. \A i \in 1 .. n : printed + i \in Bytes
    BY <1>1 DEF Bytes
  <2> QED
    BY <1>1, <2>1
<1>3. ring' = Push(ring, bytes)
  OBVIOUS
<1> HIDE DEF bytes
<1>4. CASE n >= RingCap
  <2>1. ring' = SubSeq(bytes, n - RingCap + 1, n)
    BY <1>2, <1>3, <1>4 DEF Push, LastN
  <2>2. /\ n - RingCap + 1 \in Int /\ \A i \in n - RingCap + 1 .. n : bytes[i] \in Bytes
        /\ n - (n - RingCap + 1) + 1 = RingCap /\ n - RingCap + 1 <= n
    BY <1>1, <1>2, <1>4
  <2>3. /\ ring' \in Seq(Bytes) /\ Len(ring') = RingCap
        /\ \A i \in 1 .. RingCap : ring'[i] = bytes[n - RingCap + 1 + i - 1]
    <3> DEFINE a == n - RingCap + 1
    <3>1. /\ a \in Int /\ n \in Int /\ \A i \in a .. n : bytes[i] \in Bytes
          /\ n - a + 1 = RingCap /\ a <= n /\ ring' = SubSeq(bytes, a, n)
      BY <1>1, <2>1, <2>2
    <3> HIDE DEF a
    <3>2. /\ SubSeq(bytes, a, n) \in Seq(Bytes)
          /\ Len(SubSeq(bytes, a, n)) = IF a <= n THEN n - a + 1 ELSE 0
          /\ \A i \in 1 .. n - a + 1 : SubSeq(bytes, a, n)[i] = bytes[a + i - 1]
      BY ONLY <3>1, SubSeqProperties
    <3>3. /\ ring' \in Seq(Bytes) /\ Len(ring') = RingCap
          /\ \A i \in 1 .. RingCap : ring'[i] = bytes[a + i - 1]
      BY <3>1, <3>2
    <3> QED
      BY <3>3 DEF a
  <2>4. ASSUME NEW i \in 1 .. RingCap
        PROVE  ring'[i] = printed' - RingCap + i
    <3>1. n - RingCap + 1 + i - 1 \in 1 .. n /\ n - RingCap + 1 + i - 1 = n - RingCap + i
      BY <1>1, <1>4
    <3>2. ring'[i] = printed + (n - RingCap + i)
      BY <1>2, <2>3, <3>1
    <3> QED
      BY <1>1, <3>2
  <2>5. DOMAIN ring' = 1 .. RingCap
    BY <2>3
  <2>6. ~ (printed' < RingCap)
    BY <1>1, <1>4
  <2> QED
    BY <2>3, <2>4, <2>5, <2>6 DEF RingIsTail
<1>5. CASE n < RingCap
  <2> DEFINE over == Len(ring) + n - RingCap
             kept == IF over > 0 THEN SubSeq(ring, over + 1, Len(ring)) ELSE ring
             m    == IF over > 0 THEN RingCap - n ELSE Len(ring)
  <2>1. ring' = kept \o bytes
    <3>1. ~ (Len(bytes) >= RingCap) /\ Len(ring) + Len(bytes) - RingCap = over
      BY <1>1, <1>2, <1>5
    <3> QED
      BY <1>3, <3>1 DEF Push
  <2>2. /\ Len(ring) <= RingCap /\ \A i \in 1 .. Len(ring) : ring[i] = printed - Len(ring) + i
        /\ Len(ring) = IF printed < RingCap THEN printed ELSE RingCap
    <3>1. /\ Len(ring) = IF printed < RingCap THEN printed ELSE RingCap
          /\ \A i \in DOMAIN ring : ring[i] = printed - Len(ring) + i
      BY DEF RingIsTail
    <3>2. Len(ring) <= RingCap
      BY ONLY <1>1, <3>1
    <3> QED
      BY <1>1, <3>1, <3>2
  <2>3. kept \in Seq(Bytes) /\ Len(kept) = m /\ m \in Nat /\ \A i \in 1 .. m : kept[i] = printed - m + i
    <3>1. CASE over > 0
      <4>1. /\ over \in Nat /\ over + 1 \in Int /\ Len(ring) \in Int /\ over + 1 <= Len(ring)
            /\ \A i \in over + 1 .. Len(ring) : ring[i] \in Bytes
            /\ Len(ring) - (over + 1) + 1 = m /\ m = RingCap - n /\ m \in Nat
        BY <1>1, <1>5, <2>2, <3>1
      <4>2. /\ kept = SubSeq(ring, over + 1, Len(ring))
        BY <3>1
      <4> HIDE DEF kept, m, over
      <4>3. /\ kept \in Seq(Bytes) /\ Len(kept) = m
            /\ \A i \in 1 .. m : kept[i] = ring[over + 1 + i - 1]
        BY <4>1, <4>2, SubSeqProperties
      <4>4. ASSUME NEW i \in 1 .. m
            PROVE  kept[i] = printed - m + i
        <5>1. over + 1 + i - 1 \in 1 .. Len(ring) /\ over + 1 + i - 1 = over + i
          BY <1>1, <4>1
        <5>2. kept[i] = printed - Len(ring) + (over + i)
          BY <2>2, <4>3, <5>1
        <5> QED
          BY <1>1, <4>1, <5>2
      <4> QED
        BY <4>1, <4>3, <4>4
    <3>2. CASE ~ (over > 0)
      BY <1>1, <2>2, <3>2
    <3> QED
      BY <3>1, <3>2
  <2>4. m + n = IF printed' < RingCap THEN printed' ELSE RingCap
    BY <1>1, <1>5, <2>2
  <2> HIDE DEF kept, m
  <2>5. /\ ring' \in Seq(Bytes) /\ Len(ring') = m + n
        /\ \A i \in 1 .. m + n : ring'[i] = IF i <= m THEN kept[i] ELSE bytes[i - m]
    <3>1. kept \in Seq(Bytes) /\ bytes \in Seq(Bytes) /\ Len(kept) = m /\ Len(bytes) = n
      BY <1>2, <2>3
    <3>2. /\ kept \o bytes \in Seq(Bytes) /\ Len(kept \o bytes) = Len(kept) + Len(bytes)
          /\ \A i \in 1 .. Len(kept) + Len(bytes) :
                (kept \o bytes)[i] = IF i <= Len(kept) THEN kept[i] ELSE bytes[i - Len(kept)]
      BY ONLY <3>1, ConcatProperties
    <3> QED
      BY <2>1, <3>1, <3>2
  <2>6. ASSUME NEW i \in 1 .. m + n
        PROVE  ring'[i] = printed' - (m + n) + i
    <3>1. CASE i <= m
      <4>1. i \in 1 .. m
        BY <1>1, <2>3, <3>1
      <4>2. ring'[i] = kept[i]
        BY <2>5, <3>1
      <4> QED
        BY <1>1, <2>3, <4>1, <4>2
    <3>2. CASE ~ (i <= m)
      <4>1. i - m \in 1 .. n
        BY <1>1, <2>3, <3>2
      <4>2. ring'[i] = printed + (i - m)
        BY <1>2, <2>5, <3>2, <4>1
      <4> QED
        BY <1>1, <2>3, <4>2
    <3> QED
      BY <3>1, <3>2
  <2>7. DOMAIN ring' = 1 .. m + n
    BY <1>1, <2>3, <2>5
  <2> QED
    BY <2>4, <2>5, <2>6, <2>7 DEF RingIsTail
<1> QED
  BY <1>1, <1>4, <1>5

\* The ring stays the tail of the output.
LEMMA RingStep ==
    ASSUME TermTyped, RingIsTail, [TermNext]_termVars
    PROVE  RingIsTail'
<1>1. CASE AgentPrints
  BY <1>1, Pushing DEF AgentPrints
<1>2. ASSUME UNCHANGED ptyVars
      PROVE  RingIsTail'
  BY <1>2 DEF RingIsTail, ptyVars
<1>3. CASE DaemonLoop \/ ForwardNew \/ ForwardOld
  BY <1>2, <1>3 DEF DaemonLoop, ServeAttach, SwapForwarder, ServeDetach, RouteInput, ForwardNew,
                    ForwardOld
<1>4. CASE OpenPane \/ SendAttach \/ AttachAgain \/ ReplayWritten \/ TypeKey \/ ClosePane
  BY <1>2, <1>4 DEF OpenPane, SendAttach, AttachAgain, ReplayWritten, TypeKey, ClosePane
<1>5. CASE Receive \/ LoseSocket \/ Redial
  BY <1>2, <1>5 DEF Receive, TakeReplay, TakeOutput, TakeRepaint, LoseSocket, Redial
<1>6. CASE UNCHANGED termVars
  BY <1>2, <1>6 DEF termVars, ptyVars
<1> QED
  BY ONLY [TermNext]_termVars, <1>1, <1>3, <1>4, <1>5, <1>6 DEF TermNext

-----------------------------------------------------------------------------
(* The terminal's types, and its daemon.                                     *)

\* The daemon's steps keep the types, ...
LEMMA TermTypedDaemon ==
    ASSUME TermTyped, ServerOK, RingIsTail, AgentPrints \/ DaemonLoop \/ ForwardNew \/ ForwardOld
    PROVE  TermTyped'
<1>1. CASE AgentPrints
  <2>1. PICK n \in 1 .. ReadChunk :
          /\ printed + n <= MaxBytes /\ printed' = printed + n
          /\ ring' = Push(ring, [i \in 1 .. n |-> printed + i])
          /\ chunks' = Append(chunks, << printed + 1, printed + n >>)
          /\ UNCHANGED << serverVars, wireVars, paneVars >>
    BY <1>1 DEF AgentPrints
  <2>2. ring' \in Seq(Bytes)
    BY <2>1, Pushing
  <2>3. n \in Nat \ {0} /\ printed \in Nat /\ MaxBytes \in Nat /\ printed' \in 0 .. MaxBytes
    BY <2>1, TerminalAssumption DEF TermTyped
  <2>4. << printed + 1, printed + n >> \in Bytes \X Bytes
    BY <2>1, <2>3 DEF Bytes
  <2>5. chunks \in Seq(Bytes \X Bytes) /\ Len(chunks) \in Nat
    BY DEF TermTyped
  <2>6. chunks' \in Seq(Bytes \X Bytes) /\ Len(chunks') = Len(chunks) + 1
    BY <2>1, <2>4, <2>5, AppendProperties
  <2>7. Len(chunks') <= printed' /\ fwd \in 0 .. Len(chunks') + 1 /\ oldFwd \in 0 .. Len(chunks') + 1
    BY <2>1, <2>3, <2>5, <2>6 DEF TermTyped
  <2> QED
    BY <2>1, <2>2, <2>3, <2>6, <2>7 DEF TermTyped, serverVars, wireVars, paneVars
<1>2. CASE ServeAttach
  <2> DEFINE m == [kind |-> "attached", pane |-> Head(toDaemon).pane, upto |-> Replay]
  <2>1. /\ handling = "idle" /\ toDaemon # << >> /\ Head(toDaemon).kind = "attach"
        /\ toClient' = Append(toClient, m) /\ toDaemon' = Tail(toDaemon)
    BY <1>2 DEF ServeAttach, Asks
  <2>2. toDaemon' \in Seq(Requests) /\ Head(toDaemon) = toDaemon[1] /\ Len(toDaemon) \in Nat \ {0}
    BY <2>1, RequestServed
  <2>3. toDaemon[1].pane \in 1 .. MaxPanes
    BY <2>1, <2>2, Wires
  <2>4. m \in Messages
    BY <2>2, <2>3 DEF Messages, Replays, Replay, TermTyped
  <2> HIDE DEF m
  <2>5. toClient' \in Seq(Messages)
    BY <2>1, <2>4, MessageSent
  <2>6. oldFwd = Nobody /\ watchers = IF fwd = Nobody THEN 0 ELSE 1
    BY <2>1 DEF ServerOK, WatchersCounted
  <2>7. /\ oldFwd' = fwd /\ fwd' = Len(chunks) + 1 /\ watchers' = watchers + 1
        /\ handling' = IF fwd = Nobody THEN "idle" ELSE "swap"
        /\ UNCHANGED << ptyVars, socket, losses, paneVars >>
    BY <1>2 DEF ServeAttach
  <2>8. Len(chunks) \in Nat
    BY DEF TermTyped
  <2> QED
    BY <2>2, <2>5, <2>6, <2>7, <2>8 DEF TermTyped, ptyVars, paneVars
<1>3. CASE SwapForwarder
  BY <1>3 DEF SwapForwarder, TermTyped, ServerOK, WatchersCounted, ptyVars, wireVars, paneVars, Nobody
<1>4. CASE ServeDetach
  <2>1. toDaemon # << >> /\ toDaemon' = Tail(toDaemon) /\ handling = "idle"
    BY <1>4 DEF ServeDetach, Asks
  <2>2. toDaemon' \in Seq(Requests)
    BY <2>1, RequestServed
  <2>3. oldFwd = Nobody /\ watchers = IF fwd = Nobody THEN 0 ELSE 1
    BY <2>1 DEF ServerOK, WatchersCounted
  <2>4. /\ fwd' = Nobody /\ watchers' = IF fwd = Nobody THEN watchers ELSE watchers - 1
        /\ UNCHANGED << ptyVars, handling, oldFwd, toClient, socket, losses, paneVars >>
    BY <1>4 DEF ServeDetach
  <2>5. watchers' \in 0 .. 2 /\ fwd' \in 0 .. Len(chunks) + 1
    BY <2>3, <2>4 DEF TermTyped, Nobody
  <2> QED
    BY <2>2, <2>4, <2>5 DEF TermTyped, ptyVars, paneVars
<1>5. CASE RouteInput
  <2>1. toDaemon # << >> /\ toDaemon' = Tail(toDaemon) /\ Head(toDaemon).kind = "key"
    BY <1>5 DEF RouteInput, Asks
  <2>2. toDaemon' \in Seq(Requests) /\ Head(toDaemon) = toDaemon[1] /\ Len(toDaemon) \in Nat \ {0}
    BY <2>1, RequestServed
  <2>3. toDaemon[1].key \in 1 .. MaxKeys
    BY <2>1, <2>2, Wires
  <2>4. console' = Append(console, toDaemon[1].key) /\ console \in Seq(1 .. MaxKeys)
    BY <1>5, <2>2 DEF RouteInput, TermTyped
  <2>5. console' \in Seq(1 .. MaxKeys)
    BY <2>3, <2>4, AppendProperties
  <2>6. UNCHANGED << ptyVars, serverVars, toClient, socket, losses,
                     pane, opened, reattached, shown, disturbed, typed, held >>
    BY <1>5 DEF RouteInput
  <2> QED
    BY <2>2, <2>5, <2>6 DEF TermTyped, ptyVars, serverVars
<1>6. CASE ForwardNew
  <2>1. /\ fwd \in 1 .. Len(chunks) /\ toClient' = Append(toClient, Forwarded(fwd))
        /\ fwd' = IF fwd < Oldest THEN Oldest ELSE fwd + 1
        /\ UNCHANGED << ptyVars, watchers, handling, oldFwd, toDaemon, socket, losses, paneVars >>
    BY <1>6 DEF ForwardNew, TermTyped, Nobody
  <2>2. Forwarded(fwd) \in Messages /\ Oldest \in 1 .. Len(chunks) + 1
    BY <2>1, ForwardedIs
  <2>3. toClient' \in Seq(Messages)
    BY <2>1, <2>2, MessageSent
  <2>4. fwd' \in 0 .. Len(chunks) + 1
    BY <2>1, <2>2 DEF TermTyped
  <2> QED
    BY <2>1, <2>3, <2>4 DEF TermTyped, ptyVars, paneVars
<1>7. CASE ForwardOld
  <2>1. /\ oldFwd \in 1 .. Len(chunks) /\ toClient' = Append(toClient, Forwarded(oldFwd))
        /\ oldFwd' = IF oldFwd < Oldest THEN Oldest ELSE oldFwd + 1
        /\ UNCHANGED << ptyVars, watchers, handling, fwd, toDaemon, socket, losses, paneVars >>
    BY <1>7 DEF ForwardOld, TermTyped, Nobody
  <2>2. Forwarded(oldFwd) \in Messages /\ Oldest \in 1 .. Len(chunks) + 1
    BY <2>1, ForwardedIs
  <2>3. toClient' \in Seq(Messages)
    BY <2>1, <2>2, MessageSent
  <2>4. oldFwd' \in 0 .. Len(chunks) + 1
    BY <2>1, <2>2 DEF TermTyped
  <2> QED
    BY <2>1, <2>3, <2>4 DEF TermTyped, ptyVars, paneVars
<1> QED
  BY <1>1, <1>2, <1>3, <1>4, <1>5, <1>6, <1>7 DEF DaemonLoop

\* ... and the desktop's do.
LEMMA TermTypedDesktop ==
    ASSUME TermTyped, ServerOK,
           \/ OpenPane \/ SendAttach \/ AttachAgain \/ Receive \/ ReplayWritten \/ TypeKey \/ ClosePane
           \/ LoseSocket \/ Redial \/ UNCHANGED termVars
    PROVE  TermTyped'
<1>a. /\ [kind |-> "detach"] \in Requests
      /\ opened # 0 => [kind |-> "attach", pane |-> opened] \in Requests
  BY DEF Requests, Attaches, Detaches, TermTyped
<1>b. MaxTroubles \in Nat /\ MaxPanes \in Nat /\ MaxKeys \in Nat /\ MaxBytes \in Nat
  BY TerminalAssumption
<1>1. CASE OpenPane
  <2>1. << >> \in Seq(1 .. MaxKeys) /\ 0 \in Screens
    BY <1>b DEF Screens
  <2> QED
    <3>1. opened' \in 0 .. MaxPanes /\ opened' # 0
      BY <1>1, <1>b DEF OpenPane, TermTyped
    <3> QED
      BY <1>1, <2>1, <3>1 DEF OpenPane, TermTyped, ptyVars, serverVars, wireVars
<1>2. CASE SendAttach
  <2>1. /\ pane' \in {"waiting", "failed"} /\ pane = "mounted"
        /\ toDaemon' = Append(toDaemon, [kind |-> "attach", pane |-> opened]) \/ UNCHANGED toDaemon
        /\ UNCHANGED << ptyVars, serverVars, toClient, socket, losses,
                        opened, reattached, shown, disturbed, typed, held, console >>
    BY <1>2 DEF SendAttach
  <2>2. opened # 0
    BY <2>1 DEF TermTyped
  <2>3. toDaemon' \in Seq(Requests)
    BY <1>a, <2>1, <2>2, RequestSent DEF TermTyped
  <2> QED
    BY <2>1, <2>2, <2>3 DEF TermTyped, ptyVars, serverVars
<1>3. CASE AttachAgain
  <2>1. /\ toDaemon' = Append(toDaemon, [kind |-> "attach", pane |-> opened]) /\ opened # 0
        /\ reattached' = reattached + 1 /\ disturbed' = TRUE /\ reattached + losses < MaxTroubles
        /\ UNCHANGED << ptyVars, serverVars, toClient, socket, losses,
                        pane, opened, shown, typed, held, console >>
    BY <1>3 DEF AttachAgain, TermTyped
  <2>2. toDaemon' \in Seq(Requests)
    BY <1>a, <2>1, RequestSent
  <2>3. losses + reattached' <= MaxTroubles /\ reattached' \in Nat
    BY <1>b, <2>1 DEF TermTyped
  <2> QED
    BY <2>1, <2>2, <2>3 DEF TermTyped, ptyVars, serverVars
<1>4. CASE Receive
  <2>1. /\ toClient # << >> /\ toClient' = Tail(toClient)
        /\ UNCHANGED << ptyVars, serverVars, toDaemon, socket, losses,
                        opened, reattached, typed, held, console >>
        /\ pane' \in {pane, "replaying"} /\ disturbed' \in {disturbed, TRUE}
        /\ pane' # pane => pane # "none"
    BY <1>4 DEF Receive, TakeReplay, TakeOutput, TakeRepaint, Delivers
  <2>2. toClient' \in Seq(Messages) /\ Head(toClient) = toClient[1] /\ 1 \in 1 .. Len(toClient)
    BY <2>1, MessageTaken
  <2>3. shown' \in Screens
    <3>1. CASE TakeReplay
      <4>1. toClient[1].upto \in 0 .. MaxBytes /\ shown' \in {shown, toClient[1].upto}
        BY <2>2, <3>1, Wires DEF TakeReplay, Delivers
      <4> QED
        BY <4>1 DEF TermTyped, Screens
    <3>2. CASE TakeRepaint
      <4>1. toClient[1].upto \in 0 .. MaxBytes /\ shown' \in {shown, toClient[1].upto}
        BY <2>2, <3>2, Wires DEF TakeRepaint, Delivers
      <4> QED
        BY <4>1 DEF TermTyped, Screens
    <3>3. CASE TakeOutput
      <4>1. toClient[1].chunk \in Bytes \X Bytes /\ shown' \in {shown, toClient[1].chunk[2], Garbled}
        BY <2>2, <3>3, Wires DEF TakeOutput, Delivers
      <4>2. toClient[1].chunk[2] \in Bytes
        BY <4>1
      <4>3. Bytes \subseteq Screens /\ Garbled \in Screens /\ shown \in Screens
        BY <1>b DEF TermTyped, Screens, Bytes
      <4> QED
        BY <4>1, <4>2, <4>3
    <3> QED
      BY <1>4, <3>1, <3>2, <3>3 DEF Receive
  <2> QED
    BY <2>1, <2>2, <2>3 DEF TermTyped, ptyVars, serverVars
<1>5. CASE ReplayWritten
  <2>1. /\ toDaemon' = toDaemon \o Frames(held) \/ UNCHANGED toDaemon
        /\ pane = "replaying" /\ pane' = "live" /\ held' = << >>
        /\ UNCHANGED << ptyVars, serverVars, toClient, socket, losses,
                        opened, reattached, shown, disturbed, typed, console >>
    BY <1>5 DEF ReplayWritten
  <2>2. toDaemon' \in Seq(Requests) /\ << >> \in Seq(1 .. MaxKeys)
    BY <2>1, HeldSent DEF TermTyped
  <2> QED
    BY <2>1, <2>2 DEF TermTyped, ptyVars, serverVars
<1>6. CASE TypeKey
  <2>1. /\ typed' = typed + 1 /\ typed < MaxKeys
        /\ held' = Append(held, typed + 1) \/ UNCHANGED held
        /\ toDaemon' = Append(toDaemon, [kind |-> "key", key |-> typed + 1]) \/ UNCHANGED toDaemon
        /\ UNCHANGED << ptyVars, serverVars, toClient, socket, losses,
                        pane, opened, reattached, shown, disturbed, console >>
    BY <1>6 DEF TypeKey
  <2>2. typed' \in 0 .. MaxKeys /\ typed + 1 \in 1 .. MaxKeys
    BY <1>b, <2>1 DEF TermTyped
  <2>3. [kind |-> "key", key |-> typed + 1] \in Requests
    BY <2>2 DEF Requests, Typings
  <2>4. toDaemon' \in Seq(Requests)
    BY <2>1, <2>3, RequestSent DEF TermTyped
  <2>5. held' \in Seq(1 .. MaxKeys)
    <3>1. held \in Seq(1 .. MaxKeys)
      BY DEF TermTyped
    <3>2. Append(held, typed + 1) \in Seq(1 .. MaxKeys)
      BY <2>2, <3>1, AppendProperties
    <3> QED
      BY <2>1, <3>1, <3>2
  <2> QED
    BY <2>1, <2>2, <2>4, <2>5 DEF TermTyped, ptyVars, serverVars
<1>7. CASE ClosePane
  <2>1. /\ toDaemon' = Append(toDaemon, [kind |-> "detach"]) \/ UNCHANGED toDaemon
        /\ pane' = "none" /\ held' = << >>
        /\ UNCHANGED << ptyVars, serverVars, toClient, socket, losses,
                        opened, reattached, shown, disturbed, typed, console >>
    BY <1>7 DEF ClosePane
  <2>2. toDaemon' \in Seq(Requests) /\ << >> \in Seq(1 .. MaxKeys)
    BY <1>a, <2>1, RequestSent DEF TermTyped
  <2> QED
    BY <2>1, <2>2 DEF TermTyped, ptyVars, serverVars
<1>8. CASE LoseSocket
  <2>1. /\ losses' = losses + 1 /\ reattached + losses < MaxTroubles /\ socket' = "closed"
        /\ toDaemon' = << >> /\ toClient' = << >> /\ fwd' = 0 /\ oldFwd' = 0 /\ handling' = "idle"
        /\ pane' = IF pane = "waiting" THEN "failed" ELSE pane
        /\ watchers' = watchers - (IF fwd = Nobody THEN 0 ELSE 1) - (IF oldFwd = Nobody THEN 0 ELSE 1)
        /\ UNCHANGED << ptyVars, opened, reattached, shown, disturbed, typed, held, console >>
    BY <1>8 DEF LoseSocket, Nobody
  <2>2. losses' + reattached <= MaxTroubles /\ losses' \in Nat
    BY <1>b, <2>1 DEF TermTyped
  <2>3. watchers' = 0
    BY <2>1 DEF ServerOK, WatchersCounted
  <2>4. /\ << >> \in Seq(Requests) /\ << >> \in Seq(Messages)
    OBVIOUS
  <2>5. Len(chunks) \in Nat
    BY DEF TermTyped
  <2> QED
    BY <2>1, <2>2, <2>3, <2>4, <2>5 DEF TermTyped, ptyVars
<1>9. CASE Redial
  BY <1>9 DEF Redial, TermTyped, ptyVars, serverVars, paneVars
<1>10. CASE UNCHANGED termVars
  BY <1>10 DEF termVars, TermTyped
<1> QED
  BY <1>1, <1>2, <1>3, <1>4, <1>5, <1>6, <1>7, <1>8, <1>9, <1>10

\* There are as many watchers as forwarders, after every step.
LEMMA ServerStep ==
    ASSUME TermTyped, ServerOK, [TermNext]_termVars
    PROVE  ServerOK'
<1> USE DEF ServerOK, WatchersCounted, Nobody
<1>a. /\ watchers \in 0 .. 2 /\ fwd \in Nat /\ oldFwd \in Nat /\ Len(chunks) \in Nat
      /\ handling \in {"idle", "swap"} /\ socket \in {"open", "closed"}
  BY DEF TermTyped
<1>1. CASE AgentPrints
  BY <1>1 DEF AgentPrints, serverVars, wireVars
<1>2. CASE ServeAttach
  <2>1. socket = "open"
    BY <1>2, <1>a DEF ServeAttach, Asks
  <2> QED
    BY <1>2, <1>a, <2>1 DEF ServeAttach
<1>3. CASE SwapForwarder
  BY <1>3, <1>a DEF SwapForwarder, wireVars
<1>4. CASE ServeDetach
  <2>1. socket = "open"
    BY <1>4, <1>a DEF ServeDetach, Asks
  <2> QED
    BY <1>4, <1>a, <2>1 DEF ServeDetach
<1>5. CASE RouteInput
  <2>1. socket = "open"
    BY <1>5, <1>a DEF RouteInput, Asks
  <2> QED
    BY <1>5, <1>a, <2>1 DEF RouteInput, serverVars
<1>6. CASE ForwardNew
  <2>1. fwd \in 1 .. Len(chunks) /\ socket = "open"
    BY <1>6, <1>a DEF ForwardNew
  <2>2. fwd' # 0
    BY <1>6, <2>1, ForwardedIs DEF ForwardNew
  <2> QED
    BY <1>6, <2>1, <2>2 DEF ForwardNew
<1>7. CASE ForwardOld
  <2>1. oldFwd \in 1 .. Len(chunks) /\ socket = "open"
    BY <1>7, <1>a DEF ForwardOld
  <2>2. oldFwd' # 0
    BY <1>7, <2>1, ForwardedIs DEF ForwardOld
  <2> QED
    BY <1>7, <2>1, <2>2 DEF ForwardOld
<1>8. CASE OpenPane \/ SendAttach \/ AttachAgain \/ ReplayWritten \/ TypeKey \/ ClosePane
  <2>1. UNCHANGED << serverVars, socket, toClient >> /\ (socket = "closed" => UNCHANGED toDaemon)
    BY <1>8, <1>a DEF OpenPane, SendAttach, AttachAgain, ReplayWritten, TypeKey, ClosePane, wireVars
  <2> QED
    BY <2>1 DEF serverVars
<1>9. CASE Receive
  <2>1. UNCHANGED << serverVars, socket, toDaemon >> /\ socket = "open"
    BY <1>9 DEF Receive, TakeReplay, TakeOutput, TakeRepaint, Delivers
  <2> QED
    BY <2>1 DEF serverVars
<1>10. CASE LoseSocket
  BY <1>10, <1>a DEF LoseSocket
<1>11. CASE Redial
  BY <1>11 DEF Redial, serverVars
<1>12. CASE UNCHANGED termVars
  BY <1>12 DEF termVars
<1> QED
  BY ONLY [TermNext]_termVars, <1>1, <1>2, <1>3, <1>4, <1>5, <1>6, <1>7, <1>8, <1>9, <1>10, <1>11,
          <1>12
  DEF TermNext, DaemonLoop

\* The first byte of a chunk stays what it is, sent or not.
LEMMA FirstStays ==
    ASSUME TermTyped, [TermNext]_termVars, NEW n \in 1 .. Len(chunks) + 1
    PROVE  FirstOf(n)' = FirstOf(n)
<1>1. CASE AgentPrints
  <2>1. PICK m \in 1 .. ReadChunk : chunks' = Append(chunks, << printed + 1, printed + m >>)
    BY <1>1 DEF AgentPrints
  <2>2. DOMAIN chunks = 1 .. Len(chunks) /\ Len(chunks) \in Nat /\ printed \in Nat /\ m \in Nat
    BY TerminalAssumption DEF TermTyped
  <2>3. /\ Len(chunks') = Len(chunks) + 1 /\ chunks'[Len(chunks) + 1] = << printed + 1, printed + m >>
        /\ \A i \in 1 .. Len(chunks) : chunks'[i] = chunks[i]
    BY <2>1, <2>2, AppendProperties DEF TermTyped
  <2>4. CASE n <= Len(chunks)
    BY <2>2, <2>3, <2>4 DEF FirstOf
  <2>5. CASE n = Len(chunks) + 1
    BY <2>2, <2>3, <2>5 DEF FirstOf
  <2> QED
    BY <2>2, <2>4, <2>5
<1>2. CASE UNCHANGED ptyVars
  BY <1>2 DEF FirstOf, ptyVars
<1>3. ~AgentPrints => UNCHANGED ptyVars
  BY DEF TermNext, DaemonLoop, ServeAttach, SwapForwarder, ServeDetach, RouteInput, ForwardNew,
         ForwardOld, OpenPane, SendAttach, AttachAgain, Receive, TakeReplay, TakeOutput, TakeRepaint,
         ReplayWritten, TypeKey, ClosePane, LoseSocket, Redial, termVars, ptyVars
<1> QED
  BY <1>1, <1>2, <1>3

\* The chunks go on following one another.
LEMMA ChunksStep ==
    ASSUME TermTyped, ChunksOK, [TermNext]_termVars
    PROVE  ChunksOK'
<1>1. CASE AgentPrints
  <2>1. PICK m \in 1 .. ReadChunk :
          chunks' = Append(chunks, << printed + 1, printed + m >>) /\ printed' = printed + m
    BY <1>1 DEF AgentPrints
  <2>2. chunks \in Seq(Bytes \X Bytes) /\ Len(chunks) \in Nat /\ printed \in Nat /\ m \in Nat
    <3>1. chunks \in Seq(Bytes \X Bytes) /\ printed \in 0 .. MaxBytes
      BY DEF TermTyped
    <3>2. MaxBytes \in Nat /\ ReadChunk \in Nat
      BY TerminalAssumption
    <3> QED
      BY <3>1, <3>2
  <2>3. << printed + 1, printed + m >> \in Nat \X Nat /\ chunks \in Seq(Nat \X Nat)
    <3>1. Bytes \X Bytes \subseteq Nat \X Nat
      BY TerminalAssumption DEF Bytes
    <3>2. chunks \in Seq(Nat \X Nat)
      BY <2>2, <3>1, SeqMonotonic
    <3> QED
      BY <2>2, <3>2
  <2>4. /\ Len(chunks') = Len(chunks) + 1 /\ chunks'[Len(chunks) + 1] = << printed + 1, printed + m >>
        /\ \A i \in 1 .. Len(chunks) : chunks'[i] = chunks[i]
    BY <2>1, <2>3, AppendProperties
  <2>5. ASSUME NEW n \in 1 .. Len(chunks')
        PROVE  chunks'[n][2] + 1 = FirstOf(n + 1)'
    <3>1. CASE n <= Len(chunks)
      <4>1. n \in 1 .. Len(chunks) /\ n + 1 \in 1 .. Len(chunks) + 1
        BY <2>2, <3>1
      <4>2. FirstOf(n + 1)' = FirstOf(n + 1)
        BY <4>1, FirstStays
      <4> QED
        BY <2>4, <4>1, <4>2 DEF ChunksOK
    <3>2. CASE n = Len(chunks) + 1
      <4>1. ~ (n + 1 <= Len(chunks'))
        BY <2>2, <2>4, <3>2
      <4>2. FirstOf(n + 1)' = printed + m + 1
        BY <2>1, <4>1 DEF FirstOf
      <4> QED
        BY <2>2, <2>4, <3>2, <4>2
    <3> QED
      BY <2>2, <2>4, <3>1, <3>2
  <2> QED
    BY <2>5 DEF ChunksOK
<1>2. CASE UNCHANGED ptyVars
  BY <1>2 DEF ChunksOK, FirstOf, ptyVars
<1>3. ~AgentPrints => UNCHANGED ptyVars
  BY DEF TermNext, DaemonLoop, ServeAttach, SwapForwarder, ServeDetach, RouteInput, ForwardNew,
         ForwardOld, OpenPane, SendAttach, AttachAgain, Receive, TakeReplay, TakeOutput, TakeRepaint,
         ReplayWritten, TypeKey, ClosePane, LoseSocket, Redial, termVars, ptyVars
<1> QED
  BY <1>1, <1>2, <1>3

-----------------------------------------------------------------------------
(* What is on its way to the daemon.                                         *)

\* A request that is served leaves those behind it in the clear.
LEMMA ClearedServed ==
    ASSUME TermTyped, ServeAttach \/ ServeDetach \/ RouteInput,
           NEW j \in 2 .. Len(toDaemon) + 1, Cleared(j)
    PROVE  Cleared(j - 1)'
<1>1. toDaemon # << >> /\ toDaemon' = Tail(toDaemon)
  BY DEF ServeAttach, ServeDetach, RouteInput, Asks
<1>2. /\ Len(toDaemon) \in Nat \ {0} /\ Len(toDaemon') = Len(toDaemon) - 1
      /\ Head(toDaemon) = toDaemon[1]
      /\ \A i \in 1 .. Len(toDaemon) - 1 : toDaemon'[i] = toDaemon[i + 1]
  BY <1>1, RequestServed
<1>3. j \in Nat /\ j - 1 \in 1 .. Len(toDaemon)
  BY <1>2
<1>4. ASSUME NEW i \in 1 .. j - 1, \E d \in i + 1 .. j - 1 : toDaemon[d].kind = "detach"
      PROVE  \E d \in i .. (j - 1) - 1 : toDaemon'[d].kind = "detach"
  <2>1. PICK d \in i + 1 .. j - 1 : toDaemon[d].kind = "detach"
    BY <1>4
  <2>2. d - 1 \in i .. (j - 1) - 1 /\ d - 1 \in 1 .. Len(toDaemon) - 1 /\ (d - 1) + 1 = d
    BY <1>2, <1>3, <2>1
  <2>3. toDaemon'[d - 1] = toDaemon[d]
    BY <1>2, <2>2
  <2> QED
    BY <2>1, <2>2, <2>3
<1>5. ASSUME NEW i \in 1 .. (j - 1) - 1, toDaemon'[i].kind = "attach"
      PROVE  \E d \in i + 1 .. (j - 1) - 1 : toDaemon'[d].kind = "detach"
  <2>1. i + 1 \in 1 .. j - 1 /\ i \in 1 .. Len(toDaemon) - 1
    BY <1>2, <1>3
  <2>2. toDaemon[i + 1].kind = "attach"
    BY <1>2, <1>5, <2>1
  <2>3. \E d \in (i + 1) + 1 .. j - 1 : toDaemon[d].kind = "detach"
    BY <2>1, <2>2 DEF Cleared
  <2> QED
    BY <1>4, <2>1, <2>3
<1>6. ASSUME fwd' # Nobody
      PROVE  \E d \in 1 .. (j - 1) - 1 : toDaemon'[d].kind = "detach"
  <2>1. 1 \in 1 .. j - 1
    BY <1>3
  <2>2. \E d \in 1 + 1 .. j - 1 : toDaemon[d].kind = "detach"
    <3>1. CASE ServeAttach
      <4>1. toDaemon[1].kind = "attach"
        BY <1>2, <3>1 DEF ServeAttach, Asks
      <4> QED
        BY <2>1, <4>1 DEF Cleared
    <3>2. CASE RouteInput
      <4>1. toDaemon[1].kind = "key" /\ fwd' = fwd
        BY <1>2, <3>2 DEF RouteInput, Asks, serverVars
      <4>2. PICK d \in 1 .. j - 1 : toDaemon[d].kind = "detach"
        BY <1>6, <4>1 DEF Cleared
      <4>3. d # 1
        BY <4>1, <4>2
      <4>4. d \in 1 + 1 .. j - 1
        BY <1>3, <4>3
      <4> QED
        BY <4>2, <4>4
    <3>3. CASE ServeDetach
      BY <1>6, <3>3 DEF ServeDetach
    <3> QED
      BY <3>1, <3>2, <3>3
  <2> QED
    BY <1>4, <2>1, <2>2
<1> QED
  BY <1>5, <1>6 DEF Cleared

\* Requests behind the j-th do not matter to it.
LEMMA ClearedStays ==
    ASSUME TermTyped, NEW j \in 1 .. Len(toDaemon) + 1, Cleared(j), fwd' # Nobody => fwd # Nobody,
           \A i \in 1 .. Len(toDaemon) : toDaemon'[i] = toDaemon[i]
    PROVE  Cleared(j)'
<1>1. Len(toDaemon) \in Nat
  BY Wires
<1>2. \A i \in 1 .. j - 1 : toDaemon'[i] = toDaemon[i]
  BY <1>1
<1>3. ASSUME NEW i \in 0 .. j - 1, \E d \in i + 1 .. j - 1 : toDaemon[d].kind = "detach"
      PROVE  \E d \in i + 1 .. j - 1 : toDaemon'[d].kind = "detach"
  BY <1>1, <1>2, <1>3
<1>4. fwd' # Nobody => \E d \in 1 .. j - 1 : toDaemon'[d].kind = "detach"
  BY <1>1, <1>2 DEF Cleared
<1>5. ASSUME NEW i \in 1 .. j - 1, toDaemon'[i].kind = "attach"
      PROVE  \E d \in i + 1 .. j - 1 : toDaemon'[d].kind = "detach"
  <2>1. toDaemon[i].kind = "attach" /\ i \in 0 .. j - 1
    BY <1>1, <1>2, <1>5
  <2> QED
    BY <1>3, <2>1 DEF Cleared
<1> QED
  BY <1>4, <1>5 DEF Cleared

\* A pane asks on a connection that is cleared for it, and numbers go up.
LEMMA AskStep ==
    ASSUME TermTyped, ServerOK, AskOK, [TermNext]_termVars
    PROVE  AskOK'
<1> DEFINE Fresh == pane \in {"none", "mounted", "failed"}
           Asks1(i) == toDaemon[i].kind = "attach" =>
                          toDaemon[i].pane <= opened /\ (pane \in {"mounted", "failed"} => toDaemon[i].pane < opened)
           Tells1(i) == toClient[i].kind = "attached" =>
                          toClient[i].pane <= opened /\ (pane \in {"mounted", "failed"} => toClient[i].pane < opened)
<1>a. /\ Fresh => Cleared(Len(toDaemon) + 1)
      /\ \A i \in 1 .. Len(toDaemon) : Asks1(i)
      /\ \A i \in 1 .. Len(toClient) : Tells1(i)
      /\ Len(toDaemon) \in Nat /\ Len(toClient) \in Nat /\ opened \in Nat
      /\ Len(toDaemon) + 1 \in 1 .. Len(toDaemon) + 1
  <2>1. Len(toDaemon) \in Nat /\ Len(toClient) \in Nat
    BY Wires
  <2>2. opened \in Nat
    BY TerminalAssumption DEF TermTyped
  <2>3. /\ Fresh => Cleared(Len(toDaemon) + 1)
        /\ \A i \in 1 .. Len(toDaemon) : Asks1(i)
        /\ \A i \in 1 .. Len(toClient) : Tells1(i)
    BY DEF AskOK
  <2> QED
    BY <2>1, <2>2, <2>3
<1>b. ASSUME Fresh' => Cleared(Len(toDaemon) + 1)', \A i \in 1 .. Len(toDaemon') : Asks1(i)',
             \A i \in 1 .. Len(toClient') : Tells1(i)'
      PROVE  AskOK'
  BY <1>b DEF AskOK
<1>1. CASE AgentPrints
  BY <1>1 DEF AgentPrints, serverVars, wireVars, paneVars, AskOK, Cleared
<1>2. CASE ServeAttach \/ ServeDetach \/ RouteInput
  <2>1. toDaemon # << >> /\ toDaemon' = Tail(toDaemon) /\ UNCHANGED << pane, opened >>
    BY <1>2 DEF ServeAttach, ServeDetach, RouteInput, Asks, paneVars
  <2>2. /\ Len(toDaemon) \in Nat \ {0} /\ Len(toDaemon') = Len(toDaemon) - 1
        /\ Head(toDaemon) = toDaemon[1]
        /\ \A i \in 1 .. Len(toDaemon) - 1 : toDaemon'[i] = toDaemon[i + 1]
    BY <2>1, RequestServed
  <2>3. Fresh' => Cleared(Len(toDaemon) + 1)'
    <3> SUFFICES ASSUME Fresh'
                 PROVE  Cleared(Len(toDaemon) + 1)'
      OBVIOUS
    <3>1. Len(toDaemon) + 1 \in 2 .. Len(toDaemon) + 1 /\ Len(toDaemon') + 1 = (Len(toDaemon) + 1) - 1
      BY <2>2
    <3>2. Cleared(Len(toDaemon) + 1)
      BY <1>a, <2>1
    <3> PICK j \in 2 .. Len(toDaemon) + 1 : j = Len(toDaemon) + 1
      BY <3>1
    <3>3. Cleared(j - 1)'
      BY <1>2, <3>2, ClearedServed
    <3>4. Len(toDaemon') + 1 = j - 1
      BY <3>1
    <3> QED
      BY <3>3, <3>4 DEF Cleared
  <2>4. ASSUME NEW i \in 1 .. Len(toDaemon')
        PROVE  Asks1(i)'
    <3>1. i + 1 \in 1 .. Len(toDaemon) /\ toDaemon'[i] = toDaemon[i + 1]
      BY <2>2
    <3> QED
      BY <1>a, <2>1, <3>1
  <2>5. CASE ServeAttach
    <3> DEFINE m == [kind |-> "attached", pane |-> toDaemon[1].pane, upto |-> printed]
    <3>1. toClient' = Append(toClient, m) /\ toDaemon[1].kind = "attach"
      BY <2>2, <2>5 DEF ServeAttach, Asks, Replay
    <3>2. 1 \in 1 .. Len(toDaemon)
      BY <2>2
    <3>3. m \in Messages
      BY <3>1, <3>2, Wires DEF Messages, Replays, TermTyped
    <3>4. m.kind = "attached" /\ m.pane = toDaemon[1].pane
      OBVIOUS
    <3> HIDE DEF m
    <3>5. /\ Len(toClient') = Len(toClient) + 1 /\ toClient'[Len(toClient) + 1] = m
          /\ \A i \in 1 .. Len(toClient) : toClient'[i] = toClient[i]
      BY <3>1, <3>3, MessageSent
    <3>6. ASSUME NEW i \in 1 .. Len(toClient')
          PROVE  Tells1(i)'
      <4>1. CASE i \in 1 .. Len(toClient)
        BY <1>a, <2>1, <3>5, <4>1
      <4>2. CASE i = Len(toClient) + 1
        BY <1>a, <2>1, <3>1, <3>2, <3>4, <3>5, <4>2
      <4> QED
        BY <1>a, <3>5, <4>1, <4>2
    <3> QED
      BY <1>b, <2>3, <2>4, <3>6
  <2>6. CASE ServeDetach \/ RouteInput
    <3>1. UNCHANGED toClient
      BY <2>6 DEF ServeDetach, RouteInput
    <3>2. \A i \in 1 .. Len(toClient') : Tells1(i)'
      BY <1>a, <2>1, <3>1
    <3> QED
      BY <1>b, <2>3, <2>4, <3>2
  <2> QED
    BY <1>2, <2>5, <2>6
<1>3. CASE SwapForwarder
  BY <1>3 DEF SwapForwarder, wireVars, paneVars, AskOK, Cleared
<1>4. CASE ForwardNew \/ ForwardOld
  <2>1. PICK n \in 1 .. Len(chunks) : toClient' = Append(toClient, Forwarded(n))
    BY <1>4 DEF ForwardNew, ForwardOld, TermTyped, Nobody
  <2>2. Forwarded(n) \in Messages /\ Forwarded(n).kind # "attached"
    BY ForwardedIs
  <2>3. /\ Len(toClient') = Len(toClient) + 1 /\ toClient'[Len(toClient) + 1] = Forwarded(n)
        /\ \A i \in 1 .. Len(toClient) : toClient'[i] = toClient[i]
    BY <2>1, <2>2, MessageSent
  <2>4. fwd' # Nobody => fwd # Nobody
    BY <1>4 DEF ForwardNew, ForwardOld
  <2>5. UNCHANGED << toDaemon, pane, opened >>
    BY <1>4 DEF ForwardNew, ForwardOld, paneVars
  <2>6. Fresh' => Cleared(Len(toDaemon) + 1)'
    BY <1>a, <2>4, <2>5 DEF Cleared
  <2>7. \A i \in 1 .. Len(toDaemon') : Asks1(i)'
    BY <1>a, <2>5
  <2>8. ASSUME NEW i \in 1 .. Len(toClient')
        PROVE  Tells1(i)'
    <3>1. CASE i \in 1 .. Len(toClient)
      BY <1>a, <2>3, <2>5, <3>1
    <3>2. CASE i = Len(toClient) + 1
      BY <2>2, <2>3, <3>2
    <3> QED
      BY <1>a, <2>3, <3>1, <3>2
  <2> QED
    BY <1>b, <2>6, <2>7, <2>8
<1>5. CASE OpenPane
  <2>1. /\ UNCHANGED << toDaemon, toClient, fwd >> /\ pane = "none" /\ opened' = opened + 1
    BY <1>5 DEF OpenPane, wireVars, serverVars
  <2>2. Cleared(Len(toDaemon) + 1)'
    BY <1>a, <2>1 DEF Cleared
  <2>3. ASSUME NEW i \in 1 .. Len(toDaemon')
        PROVE  Asks1(i)'
    <3>1. toDaemon[i].kind = "attach" => toDaemon[i].pane \in Nat
      BY <2>1, Wires, TerminalAssumption
    <3> QED
      BY <1>a, <2>1, <3>1
  <2>4. ASSUME NEW i \in 1 .. Len(toClient')
        PROVE  Tells1(i)'
    <3>1. toClient[i].kind = "attached" => toClient[i].pane \in Nat
      BY <2>1, Wires, TerminalAssumption
    <3> QED
      BY <1>a, <2>1, <3>1
  <2> QED
    BY <1>b, <2>2, <2>3, <2>4
<1>6. ASSUME NEW r \in Requests, toDaemon' = Append(toDaemon, r), UNCHANGED << toClient, opened, fwd >>,
             r.kind = "attach" => r.pane <= opened /\ pane' \notin {"mounted", "failed"},
             pane' \in {"mounted", "failed"} => pane \in {"mounted", "failed"},
             Fresh' => (Fresh /\ r.kind # "attach") \/ r.kind = "detach"
      PROVE  AskOK'
  <2>1. /\ Len(toDaemon') = Len(toDaemon) + 1 /\ toDaemon'[Len(toDaemon) + 1] = r
        /\ \A i \in 1 .. Len(toDaemon) : toDaemon'[i] = toDaemon[i]
    BY <1>6, RequestSent
  <2>2. ASSUME NEW i \in 1 .. Len(toDaemon')
        PROVE  Asks1(i)'
    <3>1. CASE i \in 1 .. Len(toDaemon)
      BY <1>a, <1>6, <2>1, <3>1
    <3>2. CASE i = Len(toDaemon) + 1
      BY <1>6, <2>1, <3>2
    <3> QED
      BY <1>a, <2>1, <3>1, <3>2
  <2>3. \A i \in 1 .. Len(toClient') : Tells1(i)'
    BY <1>a, <1>6
  <2>4. CASE r.kind = "detach"
    <3>1. Len(toDaemon) + 1 \in 1 .. Len(toDaemon') /\ Len(toDaemon') = (Len(toDaemon') + 1) - 1
      BY <1>a, <2>1
    <3>2. \E d \in 1 .. (Len(toDaemon') + 1) - 1 : toDaemon'[d].kind = "detach"
      BY <2>1, <2>4, <3>1
    <3>3. ASSUME NEW i \in 1 .. (Len(toDaemon') + 1) - 1, toDaemon'[i].kind = "attach"
          PROVE  \E d \in i + 1 .. (Len(toDaemon') + 1) - 1 : toDaemon'[d].kind = "detach"
      <4>1. i # Len(toDaemon) + 1
        BY <2>1, <2>4, <3>3
      <4>2. Len(toDaemon) + 1 \in i + 1 .. (Len(toDaemon') + 1) - 1
        BY <1>a, <2>1, <4>1
      <4> QED
        BY <2>1, <2>4, <4>2
    <3>4. Cleared(Len(toDaemon) + 1)'
      BY <3>2, <3>3 DEF Cleared
    <3> QED
      BY <1>b, <2>2, <2>3, <3>4
  <2>5. CASE Fresh /\ r.kind # "attach"
    <3>1. Cleared(Len(toDaemon) + 1)
      BY <1>a, <2>5
    <3>2. ASSUME NEW i \in 0 .. Len(toDaemon), \E d \in i + 1 .. (Len(toDaemon) + 1) - 1 : toDaemon[d].kind = "detach"
          PROVE  \E d \in i + 1 .. (Len(toDaemon') + 1) - 1 : toDaemon'[d].kind = "detach"
      <4>1. PICK d \in i + 1 .. (Len(toDaemon) + 1) - 1 : toDaemon[d].kind = "detach"
        BY <3>2
      <4>2. d \in 1 .. Len(toDaemon) /\ d \in i + 1 .. (Len(toDaemon') + 1) - 1
        BY <1>a, <2>1, <4>1
      <4> QED
        BY <2>1, <4>1, <4>2
    <3>3. fwd' # Nobody => \E d \in 1 .. (Len(toDaemon') + 1) - 1 : toDaemon'[d].kind = "detach"
      <4>1. fwd' # Nobody => \E d \in 0 + 1 .. (Len(toDaemon) + 1) - 1 : toDaemon[d].kind = "detach"
        BY <1>6, <3>1 DEF Cleared
      <4>2. 0 \in 0 .. Len(toDaemon)
        BY <1>a
      <4>3. fwd' # Nobody => \E d \in 0 + 1 .. (Len(toDaemon') + 1) - 1 : toDaemon'[d].kind = "detach"
        BY <3>2, <4>1, <4>2
      <4> QED
        BY <4>3
    <3>4. ASSUME NEW i \in 1 .. (Len(toDaemon') + 1) - 1, toDaemon'[i].kind = "attach"
          PROVE  \E d \in i + 1 .. (Len(toDaemon') + 1) - 1 : toDaemon'[d].kind = "detach"
      <4>1. i # Len(toDaemon) + 1
        BY <2>1, <2>5, <3>4
      <4>2. i \in 1 .. (Len(toDaemon) + 1) - 1 /\ i \in 0 .. Len(toDaemon) /\ i \in 1 .. Len(toDaemon)
        BY <1>a, <2>1, <4>1
      <4>3. toDaemon[i].kind = "attach"
        BY <2>1, <3>4, <4>2
      <4> QED
        BY <3>1, <3>2, <4>2, <4>3 DEF Cleared
    <3>5. Cleared(Len(toDaemon) + 1)'
      BY <3>3, <3>4 DEF Cleared
    <3> QED
      BY <1>b, <2>2, <2>3, <3>5
  <2>6. CASE ~Fresh'
    BY <1>b, <2>2, <2>3, <2>6
  <2> QED
    BY <1>6, <2>4, <2>5, <2>6
<1>7. ASSUME UNCHANGED << toDaemon, toClient, opened, fwd >>, Fresh' => Fresh,
             pane' \in {"mounted", "failed"} => pane \in {"mounted", "failed"}
      PROVE  AskOK'
  <2>1. Fresh' => Cleared(Len(toDaemon) + 1)'
    BY <1>a, <1>7 DEF Cleared
  <2>2. (\A i \in 1 .. Len(toDaemon') : Asks1(i)') /\ \A i \in 1 .. Len(toClient') : Tells1(i)'
    BY <1>a, <1>7
  <2> QED
    BY <1>b, <2>1, <2>2
<1>c. ASSUME toDaemon' = << >>, toClient' = << >>, fwd' = Nobody
      PROVE  AskOK'
  BY <1>c DEF AskOK, Cleared
<1>8. CASE SendAttach
  <2>1. /\ pane = "mounted" /\ UNCHANGED << toClient, opened, fwd >> /\ opened # 0
    BY <1>8 DEF SendAttach, serverVars, TermTyped
  <2>2. CASE socket = "open"
    <3> DEFINE r == [kind |-> "attach", pane |-> opened]
    <3>1. toDaemon' = Append(toDaemon, r) /\ pane' = "waiting"
      BY <1>8, <2>2 DEF SendAttach
    <3>2. r \in Requests /\ r.kind = "attach" /\ r.pane = opened
      BY <2>1 DEF Requests, Attaches, TermTyped
    <3> HIDE DEF r
    <3> QED
      BY <1>a, <1>6, <2>1, <3>1, <3>2
  <2>3. CASE socket # "open"
    BY <1>7, <1>8, <2>1, <2>3 DEF SendAttach
  <2> QED
    BY <2>2, <2>3
<1>9. CASE AttachAgain
  <2> DEFINE r == [kind |-> "attach", pane |-> opened]
  <2>1. /\ toDaemon' = Append(toDaemon, r) /\ pane = "live" /\ opened # 0
        /\ UNCHANGED << pane, toClient, opened, fwd >>
    BY <1>9 DEF AttachAgain, serverVars, TermTyped
  <2>2. r \in Requests /\ r.kind = "attach" /\ r.pane = opened
    BY <2>1 DEF Requests, Attaches, TermTyped
  <2> HIDE DEF r
  <2> QED
    BY <1>a, <1>6, <2>1, <2>2
<1>10. CASE Receive
  <2>1. /\ toClient # << >> /\ toClient' = Tail(toClient) /\ UNCHANGED << toDaemon, fwd, opened >>
        /\ pane' \in {pane, "replaying"}
    BY <1>10 DEF Receive, TakeReplay, TakeOutput, TakeRepaint, Delivers, serverVars
  <2>2. /\ Len(toClient) \in Nat \ {0} /\ Len(toClient') = Len(toClient) - 1
        /\ \A i \in 1 .. Len(toClient) - 1 : toClient'[i] = toClient[i + 1]
    BY <2>1, MessageTaken
  <2>3. ASSUME NEW i \in 1 .. Len(toClient')
        PROVE  Tells1(i)'
    <3>1. i + 1 \in 1 .. Len(toClient) /\ toClient'[i] = toClient[i + 1]
      BY <2>2
    <3> QED
      BY <1>a, <2>1, <3>1
  <2>4. Fresh' => Cleared(Len(toDaemon) + 1)'
    BY <1>a, <2>1 DEF Cleared
  <2>5. \A i \in 1 .. Len(toDaemon') : Asks1(i)'
    BY <1>a, <2>1
  <2> QED
    BY <1>b, <2>3, <2>4, <2>5
<1>11. CASE ReplayWritten
  <2>1. pane' = "live" /\ UNCHANGED << toClient, opened, fwd >>
    BY <1>11 DEF ReplayWritten, serverVars
  <2>2. CASE socket = "open"
    <3>1. toDaemon' = toDaemon \o Frames(held)
      BY <1>11, <2>2 DEF ReplayWritten
    <3>2. /\ Len(toDaemon') = Len(toDaemon) + Len(held) /\ Len(held) \in Nat
          /\ \A i \in 1 .. Len(toDaemon) : toDaemon'[i] = toDaemon[i]
          /\ \A i \in 1 .. Len(held) : toDaemon'[Len(toDaemon) + i] = [kind |-> "key", key |-> held[i]]
      BY <3>1, HeldSent
    <3>3. ASSUME NEW i \in 1 .. Len(toDaemon')
          PROVE  Asks1(i)'
      <4>1. CASE i \in 1 .. Len(toDaemon)
        BY <1>a, <2>1, <3>2, <4>1
      <4>2. CASE i \notin 1 .. Len(toDaemon)
        <5>1. i - Len(toDaemon) \in 1 .. Len(held) /\ Len(toDaemon) + (i - Len(toDaemon)) = i
          BY <1>a, <3>2, <4>2
        <5>2. toDaemon'[i] = [kind |-> "key", key |-> held[i - Len(toDaemon)]]
          BY <3>2, <5>1
        <5> QED
          BY <5>2
      <4> QED
        BY <4>1, <4>2
    <3>4. \A i \in 1 .. Len(toClient') : Tells1(i)'
      BY <1>a, <2>1
    <3> QED
      BY <1>b, <2>1, <3>3, <3>4
  <2>3. CASE socket # "open"
    BY <1>7, <1>11, <2>1, <2>3 DEF ReplayWritten
  <2> QED
    BY <2>2, <2>3
<1>12. CASE TypeKey
  <2>1. UNCHANGED << toClient, opened, fwd, pane >>
    BY <1>12 DEF TypeKey, serverVars
  <2>2. CASE pane # "replaying" /\ socket = "open"
    <3> DEFINE r == [kind |-> "key", key |-> typed + 1]
    <3>1. toDaemon' = Append(toDaemon, r)
      BY <1>12, <2>2 DEF TypeKey
    <3>2. r.kind = "key" /\ r \in Requests
      <4>1. typed \in 0 .. MaxKeys /\ typed < MaxKeys /\ MaxKeys \in Nat
        BY <1>12, TerminalAssumption DEF TypeKey, TermTyped
      <4>2. typed + 1 \in 1 .. MaxKeys
        BY <4>1
      <4> QED
        BY <4>2 DEF Requests, Typings
    <3> HIDE DEF r
    <3> QED
      BY <1>6, <2>1, <3>1, <3>2
  <2>3. CASE ~ (pane # "replaying" /\ socket = "open")
    <3>1. UNCHANGED toDaemon
      BY <1>12, <2>3 DEF TypeKey
    <3> QED
      BY <1>7, <2>1, <3>1
  <2> QED
    BY <2>2, <2>3
<1>13. CASE ClosePane
  <2>1. pane' = "none" /\ UNCHANGED << toClient, opened, fwd >>
    BY <1>13 DEF ClosePane, serverVars
  <2>2. CASE socket = "open"
    <3> DEFINE r == [kind |-> "detach"]
    <3>1. toDaemon' = Append(toDaemon, r)
      BY <1>13, <2>2 DEF ClosePane
    <3>2. r.kind = "detach" /\ r \in Requests
      BY DEF Requests, Detaches
    <3> HIDE DEF r
    <3> QED
      BY <1>6, <2>1, <3>1, <3>2
  <2>3. CASE socket # "open"
    <3>1. toDaemon = << >> /\ toClient = << >> /\ fwd = Nobody
      BY <2>3 DEF ServerOK, TermTyped
    <3>2. UNCHANGED toDaemon
      BY <1>13, <2>3 DEF ClosePane
    <3> QED
      BY <1>c, <2>1, <3>1, <3>2
  <2> QED
    BY <2>2, <2>3
<1>14. CASE LoseSocket
  BY <1>c, <1>14 DEF LoseSocket
<1>15. CASE Redial
  BY <1>7, <1>15 DEF Redial, serverVars, paneVars
<1>16. CASE UNCHANGED termVars
  BY <1>7, <1>16 DEF termVars
<1> QED
  BY ONLY [TermNext]_termVars, <1>1, <1>2, <1>3, <1>4, <1>5, <1>8, <1>9, <1>10, <1>11,
          <1>12, <1>13, <1>14, <1>15, <1>16
  DEF TermNext, DaemonLoop

-----------------------------------------------------------------------------
(* What the pane shows.                                                      *)

\* Of a message that is sent, and of one that is received, on a wire that follows on.
LEMMA FollowsSame ==
    ASSUME TermTyped, [TermNext]_termVars, UNCHANGED << toClient, fwd >>,
           NEW k \in Nat, NEW b \in Int, Follows(k, b)
    PROVE  Follows(k, b)'
<1>1. fwd # Nobody => FirstOf(fwd)' = FirstOf(fwd)
  <2>1. fwd # Nobody => fwd \in 1 .. Len(chunks) + 1
    BY DEF TermTyped, Nobody
  <2>2. ASSUME NEW n \in 1 .. Len(chunks) + 1
        PROVE  FirstOf(n)' = FirstOf(n)
    BY <2>2, FirstStays
  <2>3. ASSUME NEW n \in 1 .. Len(chunks) + 1, n = fwd
        PROVE  FirstOf(fwd)' = FirstOf(fwd)
    BY <2>2, <2>3 DEF FirstOf
  <2> QED
    BY <2>1, <2>3
<1> QED
  BY <1>1 DEF Follows, Plain, LastByte

LEMMA FollowsSent ==
    ASSUME TermTyped, ChunksOK, ForwardNew, NEW k \in 0 .. Len(toClient), NEW b \in Int, Follows(k, b)
    PROVE  Follows(k, b)'
<1>1. /\ fwd \in 1 .. Len(chunks) /\ fwd # Nobody /\ toClient' = Append(toClient, Forwarded(fwd))
      /\ fwd' = IF fwd < Oldest THEN Oldest ELSE fwd + 1
      /\ UNCHANGED << chunks, printed >>
  BY DEF ForwardNew, TermTyped, Nobody, ptyVars
<1> PICK n \in 1 .. Len(chunks) : n = fwd
  BY <1>1
<1> PICK L \in Nat : L = Len(toClient)
  BY Wires
<1> DEFINE m == Forwarded(n)
<1>2. /\ m \in Messages /\ m.kind # "attached" /\ Oldest \in 1 .. Len(chunks) + 1
      /\ n < Oldest => m.kind = "repaint"
      /\ n >= Oldest => m.kind = "output" /\ m.chunk = chunks[n]
  BY ForwardedIs
<1> HIDE DEF m
<1>3. L \in Nat /\ Len(chunks) \in Nat
  BY DEF TermTyped
<1>4. /\ Len(toClient') = L + 1 /\ toClient'[L + 1] = m
      /\ \A i \in 1 .. L : toClient'[i] = toClient[i]
  BY <1>1, <1>2, MessageSent DEF m
<1>5. k \in Nat /\ k <= L
  BY <1>3
<1>6. FirstOf(n) = chunks[n][1] /\ FirstOf(n + 1) = chunks[n][2] + 1
  BY <1>3 DEF ChunksOK, FirstOf
<1>7. ASSUME NEW i \in k + 1 .. L
      PROVE  toClient'[i] = toClient[i]
  BY <1>3, <1>4, <1>5
<1>8. ASSUME NEW i \in k .. L, Plain(k, i)'
      PROVE  Plain(k, i)
  <2>1. ASSUME NEW j \in k + 1 .. i
        PROVE  j \in k + 1 .. L
    BY <1>3, <1>5
  <2> QED
    BY <1>7, <1>8, <2>1 DEF Plain
<1>9. ASSUME NEW i \in k .. L
      PROVE  LastByte(k, b, i)' = LastByte(k, b, i)
  <2>1. i = k \/ i \in k + 1 .. L
    BY <1>3, <1>5
  <2> QED
    BY <1>7, <2>1 DEF LastByte
<1>10. ASSUME Plain(k, L + 1)'
       PROVE  /\ n >= Oldest /\ m.kind = "output" /\ m.chunk = chunks[n]
              /\ Plain(k, L) /\ FirstOf(n) = LastByte(k, b, L) + 1
  <2>1. L + 1 \in k + 1 .. L + 1 /\ L \in k .. L
    BY <1>3, <1>5
  <2>2. m.kind = "output"
    BY <1>4, <1>10, <2>1 DEF Plain
  <2>3. n >= Oldest
    BY <1>2, <1>3, <2>2
  <2>4. Plain(k, L)'
    BY <1>3, <1>5, <1>10 DEF Plain
  <2>5. Plain(k, L)
    BY <1>8, <2>1, <2>4
  <2>6. FirstOf(n) = LastByte(k, b, L) + 1
    BY <1>1, <2>5 DEF Follows
  <2> QED
    BY <1>2, <2>2, <2>3, <2>5, <2>6
<1>11. ASSUME NEW i \in k + 1 .. Len(toClient')
       PROVE  /\ toClient'[i].kind # "attached"
              /\ Plain(k, i)' => toClient'[i].chunk[1] = LastByte(k, b, i - 1)' + 1
  <2>1. CASE i \in k + 1 .. L
    <3>1. i \in k .. L /\ i - 1 \in k .. L
      BY <1>3, <1>5, <2>1
    <3>2. i \in k + 1 .. Len(toClient)
      BY <2>1
    <3>3. /\ toClient[i].kind # "attached"
          /\ Plain(k, i) => toClient[i].chunk[1] = LastByte(k, b, i - 1) + 1
      BY <3>2 DEF Follows
    <3>4. LastByte(k, b, i - 1)' = LastByte(k, b, i - 1)
      BY <1>9, <3>1
    <3> QED
      BY <1>7, <1>8, <2>1, <3>1, <3>3, <3>4
  <2>2. CASE i = L + 1
    <3>1. i - 1 = L /\ L \in k .. L
      BY <1>3, <1>5, <2>2
    <3>2. LastByte(k, b, i - 1)' = LastByte(k, b, L)
      BY <1>9, <3>1
    <3> QED
      BY <1>2, <1>4, <1>6, <1>10, <2>2, <3>2
  <2> QED
    BY <1>3, <1>4, <1>5, <2>1, <2>2
<1>12. ASSUME fwd' # Nobody, Plain(k, Len(toClient))'
       PROVE  FirstOf(fwd)' = LastByte(k, b, Len(toClient))' + 1
  <2>1. Plain(k, L + 1)'
    BY <1>4, <1>12 DEF Plain
  <2>2. fwd' = n + 1 /\ m.chunk = chunks[n]
    BY <1>1, <1>2, <1>3, <1>10, <2>1
  <2>3. FirstOf(fwd)' = FirstOf(n + 1)
    BY <1>1, <2>2 DEF FirstOf
  <2>4. L + 1 # k /\ Len(toClient') = L + 1
    BY <1>3, <1>4, <1>5
  <2>5. LastByte(k, b, Len(toClient))' = m.chunk[2]
    BY <1>4, <2>4 DEF LastByte
  <2> QED
    BY <1>6, <2>2, <2>3, <2>5
<1> QED
  BY <1>11, <1>12 DEF Follows

\* A message in front of the k-th is received.
LEMMA FollowsBehind ==
    ASSUME TermTyped, toClient # << >>, toClient' = Tail(toClient), UNCHANGED << fwd, chunks, printed >>,
           NEW k \in 1 .. Len(toClient), NEW b \in Int, Follows(k, b)
    PROVE  Follows(k - 1, b)'
<1> PICK L \in Nat : L = Len(toClient)
  BY Wires
<1>1. /\ L \in Nat \ {0} /\ Len(toClient') = L - 1
      /\ \A i \in 1 .. L - 1 : toClient'[i] = toClient[i + 1]
  BY MessageTaken
<1>2. k \in Nat \ {0} /\ k <= L
  BY <1>1
<1>3. ASSUME NEW i \in k .. L - 1
      PROVE  toClient'[i] = toClient[i + 1] /\ i + 1 \in k + 1 .. L
  BY <1>1, <1>2
<1>4. ASSUME NEW i \in k - 1 .. L - 1, Plain(k - 1, i)'
      PROVE  Plain(k, i + 1)
  <2>1. ASSUME NEW j \in k + 1 .. i + 1
        PROVE  toClient[j].kind = "output"
    <3>1. j - 1 \in k .. L - 1 /\ (j - 1) + 1 = j /\ j - 1 \in (k - 1) + 1 .. i
      BY <1>1, <1>2
    <3>2. toClient'[j - 1].kind = "output"
      BY <1>4, <3>1 DEF Plain
    <3> QED
      BY <1>3, <3>1, <3>2
  <2> QED
    BY <2>1 DEF Plain
<1>5. ASSUME NEW i \in k - 1 .. L - 1
      PROVE  LastByte(k - 1, b, i)' = LastByte(k, b, i + 1)
  <2>1. CASE i = k - 1
    BY <1>1, <1>2, <2>1 DEF LastByte
  <2>2. CASE i # k - 1
    <3>1. i \in k .. L - 1 /\ i + 1 # k
      BY <1>1, <1>2, <2>2
    <3> QED
      BY <1>3, <2>2, <3>1 DEF LastByte
  <2> QED
    BY <2>1, <2>2
<1>6. ASSUME NEW i \in (k - 1) + 1 .. L - 1
      PROVE  /\ toClient'[i].kind # "attached"
             /\ Plain(k - 1, i)' => toClient'[i].chunk[1] = LastByte(k - 1, b, i - 1)' + 1
  <2>1. i \in k .. L - 1 /\ i + 1 \in k + 1 .. L /\ i \in k - 1 .. L - 1 /\ i - 1 \in k - 1 .. L - 1
        /\ (i + 1) - 1 = i /\ (i - 1) + 1 = i
    BY <1>1, <1>2
  <2>2. /\ toClient[i + 1].kind # "attached"
        /\ Plain(k, i + 1) => toClient[i + 1].chunk[1] = LastByte(k, b, i) + 1
    BY <2>1 DEF Follows
  <2>3. LastByte(k - 1, b, i - 1)' = LastByte(k, b, i)
    BY <1>5, <2>1
  <2> QED
    BY <1>3, <1>4, <2>1, <2>2, <2>3
<1>7. ASSUME fwd' # Nobody, Plain(k - 1, L - 1)'
      PROVE  FirstOf(fwd)' = LastByte(k - 1, b, L - 1)' + 1
  <2>1. L - 1 \in k - 1 .. L - 1 /\ (L - 1) + 1 = L
    BY <1>1, <1>2
  <2>2. Plain(k, L) /\ LastByte(k - 1, b, L - 1)' = LastByte(k, b, L)
    BY <1>4, <1>5, <1>7, <2>1
  <2>3. FirstOf(fwd)' = FirstOf(fwd)
    BY DEF FirstOf
  <2> QED
    BY <1>7, <2>2, <2>3 DEF Follows
<1>8. Len(toClient)' = L - 1
  BY <1>1
<1> QED
  BY <1>6, <1>7, <1>8 DEF Follows

\* The message at the front is written to the screen.
LEMMA FollowsWritten ==
    ASSUME TermTyped, toClient # << >>, toClient' = Tail(toClient), UNCHANGED << fwd, chunks, printed >>,
           NEW b \in Int, Follows(0, b), toClient[1].kind = "output",
           NEW c, c = toClient[1].chunk[2]
    PROVE  toClient[1].chunk[1] = b + 1 /\ c \in Nat /\ Follows(0, c)'
<1> PICK L \in Nat : L = Len(toClient)
  BY Wires
<1>1. /\ L \in Nat \ {0} /\ Len(toClient') = L - 1
      /\ \A i \in 1 .. L - 1 : toClient'[i] = toClient[i + 1]
  BY MessageTaken
<1>2. toClient[1].chunk \in Bytes \X Bytes /\ 1 \in 1 .. L
  BY <1>1, Wires
<1>3. toClient[1].chunk[2] \in Nat
  <2>1. toClient[1].chunk[2] \in Bytes
    BY <1>2
  <2> QED
    BY <2>1, TerminalAssumption DEF Bytes
<1>4. ASSUME NEW i \in 0 .. L - 1, Plain(0, i)'
      PROVE  Plain(0, i + 1)
  <2>1. ASSUME NEW j \in 0 + 1 .. i + 1
        PROVE  toClient[j].kind = "output"
    <3>1. CASE j = 1
      BY <3>1
    <3>2. CASE j # 1
      <4>1. j - 1 \in 1 .. L - 1 /\ (j - 1) + 1 = j /\ j - 1 \in 0 + 1 .. i
        BY <1>1, <3>2
      <4>2. toClient'[j - 1].kind = "output"
        BY <1>4, <4>1 DEF Plain
      <4> QED
        BY <1>1, <4>1, <4>2
    <3> QED
      BY <3>1, <3>2
  <2> QED
    BY <2>1 DEF Plain
<1>5. ASSUME NEW i \in 0 .. L - 1
      PROVE  LastByte(0, c, i)' = LastByte(0, b, i + 1)
  <2>1. CASE i = 0
    BY <2>1 DEF LastByte
  <2>2. CASE i # 0
    <3>1. i \in 1 .. L - 1 /\ i + 1 # 0
      BY <1>1, <2>2
    <3> QED
      BY <1>1, <2>2, <3>1 DEF LastByte
  <2> QED
    BY <2>1, <2>2
<1>6. ASSUME NEW i \in 0 + 1 .. L - 1
      PROVE  /\ toClient'[i].kind # "attached"
             /\ Plain(0, i)' => toClient'[i].chunk[1] = LastByte(0, c, i - 1)' + 1
  <2>1. i \in 1 .. L - 1 /\ i + 1 \in 0 + 1 .. L /\ i \in 0 .. L - 1 /\ i - 1 \in 0 .. L - 1
        /\ (i + 1) - 1 = i /\ (i - 1) + 1 = i
    BY <1>1
  <2>2. /\ toClient[i + 1].kind # "attached"
        /\ Plain(0, i + 1) => toClient[i + 1].chunk[1] = LastByte(0, b, i) + 1
    BY <2>1 DEF Follows
  <2>3. LastByte(0, c, i - 1)' = LastByte(0, b, i)
    BY <1>5, <2>1
  <2> QED
    BY <1>1, <1>4, <2>1, <2>2, <2>3
<1>7. ASSUME fwd' # Nobody, Plain(0, L - 1)'
      PROVE  FirstOf(fwd)' = LastByte(0, c, L - 1)' + 1
  <2>1. L - 1 \in 0 .. L - 1 /\ (L - 1) + 1 = L
    BY <1>1
  <2>2. Plain(0, L) /\ LastByte(0, c, L - 1)' = LastByte(0, b, L)
    BY <1>4, <1>5, <1>7, <2>1
  <2>3. FirstOf(fwd)' = FirstOf(fwd)
    BY DEF FirstOf
  <2> QED
    BY <1>7, <2>2, <2>3 DEF Follows
<1>8. Len(toClient)' = L - 1
  BY <1>1
<1>9. Follows(0, c)'
  BY <1>6, <1>7, <1>8 DEF Follows
<1>10. toClient[1].chunk[1] = b + 1
  <2>1. 1 \in 0 + 1 .. L /\ 1 - 1 = 0
    BY <1>2
  <2>2. Plain(0, 1)
    BY DEF Plain
  <2>3. toClient[1].chunk[1] = LastByte(0, b, 1 - 1) + 1
    BY <2>1, <2>2 DEF Follows
  <2>4. LastByte(0, b, 1 - 1) = b
    BY DEF LastByte
  <2> QED
    BY <2>3, <2>4
<1> QED
  BY <1>3, <1>9, <1>10

\* A request on its way stays one, whatever the forwarders send, and keys go on
\* being typed behind it.
LEMMA AskedStays ==
    ASSUME TermTyped, Asked, fwd' # Nobody => fwd # Nobody, UNCHANGED opened,
           \A i \in 1 .. Len(toDaemon) : toDaemon'[i] = toDaemon[i],
           Len(toDaemon') \in Nat, Len(toDaemon) <= Len(toDaemon'),
           \A i \in Len(toDaemon) + 1 .. Len(toDaemon') : toDaemon'[i].kind = "key",
           \A i \in 1 .. Len(toClient') : toClient'[i].kind = "attached" =>
              \E k \in 1 .. Len(toClient) : toClient'[i] = toClient[k]
    PROVE  Asked'
<1>1. PICK j \in 1 .. Len(toDaemon) :
        /\ toDaemon[j].kind = "attach" /\ toDaemon[j].pane = opened
        /\ OnlyKeysAfter(j) /\ Cleared(j)
        /\ \A i \in 1 .. j - 1 : toDaemon[i].kind = "attach" => toDaemon[i].pane < opened
  BY DEF Asked
<1>2. Len(toDaemon) \in Nat /\ j \in 1 .. Len(toDaemon') /\ j \in 1 .. Len(toDaemon) + 1
  BY Wires
<1>3. OnlyKeysAfter(j)'
  <2>1. ASSUME NEW i \in j + 1 .. Len(toDaemon')
        PROVE  toDaemon'[i].kind = "key"
    <3>1. i \in j + 1 .. Len(toDaemon) \/ i \in Len(toDaemon) + 1 .. Len(toDaemon')
      BY <1>2
    <3>2. CASE i \in j + 1 .. Len(toDaemon)
      <4>1. i \in 1 .. Len(toDaemon)
        BY <1>2, <3>2
      <4> QED
        BY <1>1, <3>2, <4>1 DEF OnlyKeysAfter
    <3> QED
      BY <3>1, <3>2
  <2> QED
    BY <2>1 DEF OnlyKeysAfter
<1>4. Cleared(j)'
  BY <1>1, <1>2, ClearedStays
<1>5. \A i \in 1 .. j - 1 : toDaemon'[i].kind = "attach" => toDaemon'[i].pane < opened'
  BY <1>1, <1>2
<1>6. \A i \in 1 .. Len(toClient') : toClient'[i].kind = "attached" => toClient'[i].pane < opened'
  BY DEF Asked
<1>7. toDaemon'[j].kind = "attach" /\ toDaemon'[j].pane = opened'
  BY <1>1
<1> QED
  BY <1>2, <1>3, <1>4, <1>5, <1>6, <1>7 DEF Asked

\* The daemon's steps keep what a screen shows and will show in order, ...
LEMMA ScreenDaemon ==
    ASSUME TermTyped, ServerOK, ChunksOK, ScreenOK, [TermNext]_termVars, ~disturbed,
           AgentPrints \/ DaemonLoop \/ ForwardNew \/ ForwardOld
    PROVE  ScreenOK'
<1>a. UNCHANGED << pane, opened, shown, disturbed >>
  BY DEF AgentPrints, DaemonLoop, ServeAttach, SwapForwarder, ServeDetach, RouteInput, ForwardNew,
         ForwardOld, paneVars
<1>b. /\ Len(toDaemon) \in Nat /\ Len(toClient) \in Nat
      /\ opened \in Int /\ shown \in Int
  <2>1. opened \in 0 .. MaxPanes /\ shown \in {-1} \cup 0 .. MaxBytes
    BY DEF TermTyped, Screens, Garbled
  <2> QED
    BY <2>1, TerminalAssumption, Wires
<1>c. ASSUME pane = "waiting" /\ Asked => Asked' \/ Answered',
             pane = "waiting" /\ Answered => Asked' \/ Answered',
             pane \in {"replaying", "live"} /\ Showing => Showing'
      PROVE  ScreenOK'
  BY <1>a, <1>c DEF ScreenOK
<1>1. CASE AgentPrints
  <2>1. UNCHANGED << serverVars, wireVars >>
    BY <1>1 DEF AgentPrints
  <2>2. Asked => Asked'
    BY <1>a, <2>1 DEF Asked, OnlyKeysAfter, Cleared, serverVars, wireVars
  <2>3. Answered => Answered'
    <3> SUFFICES ASSUME Answered PROVE Answered'
      OBVIOUS
    <3>1. PICK k \in 1 .. Len(toClient) :
            /\ toClient[k].kind = "attached" /\ toClient[k].pane = opened
            /\ \A i \in 1 .. k - 1 : toClient[i].kind = "attached" => toClient[i].pane < opened
            /\ Follows(k, toClient[k].upto)
      BY DEF Answered
    <3>2. toClient[k].upto \in Int /\ k \in Nat
      BY <1>b, <3>1, Wires, TerminalAssumption
    <3> PICK b \in Int : b = toClient[k].upto
      BY <3>2
    <3>3. Follows(k, b)'
      BY <2>1, <3>1, <3>2, FollowsSame DEF serverVars, wireVars
    <3>4. toClient'[k].upto = b
      BY <2>1 DEF wireVars
    <3>5. Follows(k, toClient[k].upto)'
      BY <3>3, <3>4 DEF Follows, LastByte
    <3> QED
      BY <1>a, <2>1, <3>1, <3>5 DEF Answered, OnlyKeysAfter, serverVars, wireVars
  <2>4. Showing => Showing'
    <3> SUFFICES ASSUME Showing PROVE Showing'
      OBVIOUS
    <3> PICK b \in Int : b = shown
      BY <1>b
    <3>1. Follows(0, b)'
      BY <2>1, FollowsSame DEF Showing, serverVars, wireVars
    <3>2. Follows(0, shown)'
      BY <1>a, <3>1 DEF Follows, LastByte
    <3> QED
      BY <1>a, <2>1, <3>2 DEF Showing, OnlyKeysAfter, serverVars, wireVars
  <2> QED
    BY <1>c, <2>2, <2>3, <2>4
<1>2. CASE ServeAttach \/ ServeDetach \/ RouteInput
  <2>1. toDaemon # << >> /\ toDaemon' = Tail(toDaemon)
    BY <1>2 DEF ServeAttach, ServeDetach, RouteInput, Asks
  <2>2. /\ Len(toDaemon) \in Nat \ {0} /\ Len(toDaemon') = Len(toDaemon) - 1
        /\ Head(toDaemon) = toDaemon[1]
        /\ \A i \in 1 .. Len(toDaemon) - 1 : toDaemon'[i] = toDaemon[i + 1]
    BY <2>1, RequestServed
  <2>3. ASSUME OnlyKeysAfter(0)
        PROVE  RouteInput /\ OnlyKeysAfter(0)'
    <3>1. 1 \in 0 + 1 .. Len(toDaemon)
      BY <2>2
    <3>2. toDaemon[1].kind = "key"
      BY <2>3, <3>1 DEF OnlyKeysAfter
    <3>3. RouteInput
      BY <1>2, <2>2, <3>2 DEF ServeAttach, ServeDetach, Asks
    <3>4. ASSUME NEW i \in 0 + 1 .. Len(toDaemon')
          PROVE  toDaemon'[i].kind = "key"
      <4>1. i \in 1 .. Len(toDaemon) - 1 /\ i + 1 \in 0 + 1 .. Len(toDaemon)
        BY <2>2
      <4> QED
        BY <2>2, <2>3, <4>1 DEF OnlyKeysAfter
    <3> QED
      BY <3>3, <3>4 DEF OnlyKeysAfter
  <2>4. Answered => Answered'
    <3> SUFFICES ASSUME Answered PROVE Answered'
      OBVIOUS
    <3>1. RouteInput /\ OnlyKeysAfter(0)'
      BY <2>3 DEF Answered
    <3>2. UNCHANGED << toClient, fwd, oldFwd, chunks, printed >>
      BY <3>1 DEF RouteInput, serverVars, ptyVars
    <3> QED
      BY <1>a, <3>1, <3>2 DEF Answered, Follows, LastByte, Plain, FirstOf
  <2>5. Showing => Showing'
    <3> SUFFICES ASSUME Showing PROVE Showing'
      OBVIOUS
    <3>1. RouteInput /\ OnlyKeysAfter(0)'
      BY <2>3 DEF Showing
    <3>2. UNCHANGED << toClient, fwd, oldFwd, chunks, printed >>
      BY <3>1 DEF RouteInput, serverVars, ptyVars
    <3> QED
      BY <1>a, <3>1, <3>2 DEF Showing, Follows, LastByte, Plain, FirstOf
  <2>6. Asked => Asked' \/ Answered'
    <3> SUFFICES ASSUME Asked PROVE Asked' \/ Answered'
      OBVIOUS
    <3>1. PICK j \in 1 .. Len(toDaemon) :
            /\ toDaemon[j].kind = "attach" /\ toDaemon[j].pane = opened
            /\ OnlyKeysAfter(j) /\ Cleared(j)
            /\ \A i \in 1 .. j - 1 : toDaemon[i].kind = "attach" => toDaemon[i].pane < opened
      BY DEF Asked
    <3>2. \A i \in 1 .. Len(toClient) : toClient[i].kind = "attached" => toClient[i].pane < opened
      BY DEF Asked
    <3> DEFINE m == [kind |-> "attached", pane |-> toDaemon[1].pane, upto |-> printed]
    <3>3. ASSUME ServeAttach
          PROVE  /\ Len(toClient') = Len(toClient) + 1 /\ toClient'[Len(toClient) + 1] = m
                 /\ \A i \in 1 .. Len(toClient) : toClient'[i] = toClient[i]
                 /\ toDaemon[1].kind = "attach"
      <4>1. toClient' = Append(toClient, m) /\ toDaemon[1].kind = "attach"
        BY <2>2, <3>3 DEF ServeAttach, Asks, Replay
      <4>2. 1 \in 1 .. Len(toDaemon)
        BY <2>2
      <4>3. m \in Messages
        BY <4>1, <4>2, Wires DEF Messages, Replays, TermTyped
      <4> HIDE DEF m
      <4> QED
        BY <4>1, <4>3, MessageSent
    <3>4. CASE j = 1
      <4>1. ServeAttach /\ toDaemon[1].pane = opened
        BY <1>2, <2>2, <3>1, <3>4 DEF ServeDetach, RouteInput, Asks
      <4>2. fwd = Nobody
        BY <3>1, <3>4 DEF Cleared
      <4>3. /\ oldFwd' = Nobody /\ fwd' = Len(chunks) + 1 /\ UNCHANGED << chunks, printed >>
        BY <4>1, <4>2 DEF ServeAttach, ptyVars
      <4>4. OnlyKeysAfter(0)'
        <5>1. ASSUME NEW i \in 0 + 1 .. Len(toDaemon')
              PROVE  toDaemon'[i].kind = "key"
          <6>1. i \in 1 .. Len(toDaemon) - 1 /\ i + 1 \in 1 + 1 .. Len(toDaemon)
            BY <2>2
          <6> QED
            BY <2>2, <3>1, <3>4, <6>1 DEF OnlyKeysAfter
        <5> QED
          BY <5>1 DEF OnlyKeysAfter
      <4>5. PICK k \in Nat : k = Len(toClient) + 1
        BY <1>b
      <4>6. /\ k \in 1 .. Len(toClient') /\ Len(toClient') = k /\ toClient'[k].kind = "attached"
            /\ toClient'[k].pane = opened /\ toClient'[k].upto = printed
            /\ \A i \in 1 .. k - 1 : toClient'[i] = toClient[i] /\ i \in 1 .. Len(toClient)
        BY <1>b, <3>3, <4>1, <4>5
      <4>7. Len(chunks) \in Nat
        BY DEF TermTyped
      <4>8. FirstOf(fwd)' = printed' + 1
        BY <4>3, <4>7 DEF FirstOf
      <4>9. \A i \in k + 1 .. Len(toClient') : FALSE
        BY <4>6
      <4>10. Follows(k, printed)'
        BY <4>3, <4>6, <4>8, <4>9 DEF Follows, LastByte
      <4>11. Follows(k, toClient[k].upto)'
        BY <4>3, <4>6, <4>10 DEF Follows, LastByte
      <4>12. \A i \in 1 .. k - 1 : toClient'[i].kind = "attached" => toClient'[i].pane < opened
        BY <3>2, <4>6
      <4> QED
        BY <1>a, <4>3, <4>4, <4>6, <4>11, <4>12 DEF Answered
    <3>5. CASE j # 1
      <4>1. j - 1 \in 1 .. Len(toDaemon') /\ j \in 2 .. Len(toDaemon) + 1 /\ (j - 1) + 1 = j
            /\ j - 1 \in 1 .. Len(toDaemon) - 1
        BY <2>2, <3>5
      <4>2. Cleared(j - 1)'
        BY <1>2, <3>1, <4>1, ClearedServed
      <4>3. ASSUME NEW i \in (j - 1) + 1 .. Len(toDaemon')
            PROVE  toDaemon'[i].kind = "key"
        <5>1. i \in 1 .. Len(toDaemon) - 1 /\ i + 1 \in j + 1 .. Len(toDaemon)
          BY <2>2, <4>1
        <5> QED
          BY <2>2, <3>1, <5>1 DEF OnlyKeysAfter
      <4>4. ASSUME NEW i \in 1 .. (j - 1) - 1, toDaemon'[i].kind = "attach"
            PROVE  toDaemon'[i].pane < opened
        <5>1. i \in 1 .. Len(toDaemon) - 1 /\ i + 1 \in 1 .. j - 1
          BY <2>2, <4>1
        <5> QED
          BY <2>2, <3>1, <4>4, <5>1
      <4>5. ASSUME NEW i \in 1 .. Len(toClient'), toClient'[i].kind = "attached"
            PROVE  toClient'[i].pane < opened
        <5>1. CASE ServeAttach
          <6>1. CASE i \in 1 .. Len(toClient)
            BY <3>2, <3>3, <4>5, <5>1, <6>1
          <6>2. CASE i = Len(toClient) + 1
            <7>1. 1 \in 1 .. j - 1
              BY <2>2, <4>1
            <7>2. toDaemon[1].pane < opened
              BY <3>1, <3>3, <5>1, <7>1
            <7> QED
              BY <3>3, <5>1, <6>2, <7>2
          <6> QED
            BY <1>b, <3>3, <5>1, <6>1, <6>2
        <5>2. CASE ~ServeAttach
          BY <1>2, <3>2, <4>5, <5>2 DEF ServeDetach, RouteInput
        <5> QED
          BY <5>1, <5>2
      <4>6. toDaemon'[j - 1] = toDaemon[j]
        BY <2>2, <4>1
      <4>7. PICK h \in 1 .. Len(toDaemon') : h = j - 1
        BY <4>1
      <4>8. Cleared(h)' /\ OnlyKeysAfter(h)'
        BY <4>2, <4>3, <4>7 DEF OnlyKeysAfter
      <4>9. \A i \in 1 .. h - 1 : toDaemon'[i].kind = "attach" => toDaemon'[i].pane < opened
        BY <4>4, <4>7
      <4>10. toDaemon'[h].kind = "attach" /\ toDaemon'[h].pane = opened
        BY <3>1, <4>6, <4>7
      <4> QED
        BY <1>a, <4>5, <4>8, <4>9, <4>10 DEF Asked
    <3> QED
      BY <3>4, <3>5
  <2> QED
    BY <1>c, <2>4, <2>5, <2>6
<1>3. CASE SwapForwarder
  <2>1. oldFwd # Nobody
    BY <1>3 DEF SwapForwarder, ServerOK
  <2>2. Asked => Asked'
    BY <1>3, <1>a DEF SwapForwarder, Asked, OnlyKeysAfter, Cleared, wireVars
  <2> QED
    BY <1>c, <2>1, <2>2 DEF Answered, Showing
<1>4. CASE ForwardNew \/ ForwardOld
  <2>1. PICK n \in 1 .. Len(chunks) : toClient' = Append(toClient, Forwarded(n))
    BY <1>4 DEF ForwardNew, ForwardOld, TermTyped, Nobody
  <2>2. Forwarded(n) \in Messages /\ Forwarded(n).kind # "attached"
    BY ForwardedIs
  <2>3. /\ Len(toClient') = Len(toClient) + 1 /\ toClient'[Len(toClient) + 1] = Forwarded(n)
        /\ \A i \in 1 .. Len(toClient) : toClient'[i] = toClient[i]
    BY <2>1, <2>2, MessageSent
  <2>4. (fwd' # Nobody => fwd # Nobody) /\ UNCHANGED toDaemon
    BY <1>4 DEF ForwardNew, ForwardOld
  <2>5. Asked => Asked'
    <3>1. ASSUME NEW i \in 1 .. Len(toClient'), toClient'[i].kind = "attached"
          PROVE  \E k \in 1 .. Len(toClient) : toClient'[i] = toClient[k]
      <4>1. i # Len(toClient) + 1
        BY <2>2, <2>3, <3>1
      <4>2. i \in 1 .. Len(toClient)
        BY <1>b, <2>3, <4>1
      <4> QED
        BY <2>3, <4>2
    <3>2. \A i \in Len(toDaemon) + 1 .. Len(toDaemon') : toDaemon'[i].kind = "key"
      BY <1>b, <2>4
    <3> QED
      BY <1>a, <1>b, <2>4, <3>1, <3>2, AskedStays
  <2>6. ASSUME oldFwd = Nobody
        PROVE  ForwardNew /\ UNCHANGED oldFwd
    BY <1>4, <2>6 DEF ForwardNew, ForwardOld
  <2>7. Answered => Answered'
    <3> SUFFICES ASSUME Answered PROVE Answered'
      OBVIOUS
    <3>0. ForwardNew /\ oldFwd' = Nobody /\ OnlyKeysAfter(0)'
      BY <2>4, <2>6 DEF Answered, OnlyKeysAfter
    <3>1. PICK k \in 1 .. Len(toClient) :
            /\ toClient[k].kind = "attached" /\ toClient[k].pane = opened
            /\ \A i \in 1 .. k - 1 : toClient[i].kind = "attached" => toClient[i].pane < opened
            /\ Follows(k, toClient[k].upto)
      BY DEF Answered
    <3>2. toClient[k].upto \in Int /\ k \in 0 .. Len(toClient)
      BY <1>b, <3>1, Wires, TerminalAssumption
    <3> PICK b \in Int : b = toClient[k].upto
      BY <3>2
    <3>3. Follows(k, b)'
      BY <3>0, <3>1, <3>2, FollowsSent
    <3>4. toClient'[k] = toClient[k] /\ toClient'[k].upto = b /\ k \in 1 .. Len(toClient')
      BY <1>b, <2>3
    <3>5. Follows(k, toClient[k].upto)'
      BY <3>3, <3>4 DEF Follows, LastByte
    <3>6. \A i \in 1 .. k - 1 : toClient'[i] = toClient[i]
      BY <1>b, <2>3
    <3> QED
      BY <1>a, <3>0, <3>1, <3>4, <3>5, <3>6 DEF Answered
  <2>8. Showing => Showing'
    <3> SUFFICES ASSUME Showing PROVE Showing'
      OBVIOUS
    <3>0. ForwardNew /\ oldFwd' = Nobody /\ OnlyKeysAfter(0)'
      BY <2>4, <2>6 DEF Showing, OnlyKeysAfter
    <3> PICK b \in Int : b = shown
      BY <1>b
    <3>1. 0 \in 0 .. Len(toClient)
      BY <1>b
    <3>2. Follows(0, b)'
      BY <3>0, <3>1, FollowsSent DEF Showing
    <3>3. Follows(0, shown)'
      BY <1>a, <3>2 DEF Follows, LastByte
    <3> QED
      BY <1>a, <3>0, <3>3 DEF Showing
  <2> QED
    BY <1>c, <2>5, <2>7, <2>8
<1> QED
  BY <1>1, <1>2, <1>3, <1>4 DEF DaemonLoop

\* ... and so do the desktop's: an attach is answered in full before its output,
\* and what comes behind the replay goes on from it.
LEMMA ScreenDesktop ==
    ASSUME TermTyped, ServerOK, AskOK, ScreenOK, [TermNext]_termVars,
           \/ OpenPane \/ SendAttach \/ AttachAgain \/ Receive \/ ReplayWritten \/ TypeKey \/ ClosePane
           \/ LoseSocket \/ Redial \/ UNCHANGED termVars
    PROVE  ScreenOK'
<1>a. /\ Len(toDaemon) \in Nat /\ Len(toClient) \in Nat
      /\ opened \in Nat /\ shown \in Int
  <2>1. opened \in 0 .. MaxPanes /\ shown \in {-1} \cup 0 .. MaxBytes
    BY DEF TermTyped, Screens, Garbled
  <2> QED
    BY <2>1, TerminalAssumption, Wires
<1>b. ASSUME pane' \notin {"waiting", "replaying", "live"}
      PROVE  ScreenOK'
  BY <1>b DEF ScreenOK
<1>c. ASSUME UNCHANGED << toClient, fwd, chunks, printed >>
      PROVE  /\ \A k, b : Follows(k, b) => Follows(k, b)'
  BY <1>c DEF Follows, Plain, LastByte, FirstOf
<1>d. ASSUME UNCHANGED << toClient, fwd, oldFwd, chunks, printed, opened, shown, disturbed >>,
             \A i \in 1 .. Len(toDaemon) : toDaemon'[i] = toDaemon[i],
             Len(toDaemon') \in Nat, Len(toDaemon) <= Len(toDaemon'),
             \A i \in Len(toDaemon) + 1 .. Len(toDaemon') : toDaemon'[i].kind = "key",
             pane' = pane \/ (pane = "replaying" /\ pane' = "live")
      PROVE  ScreenOK'
  <2>1. OnlyKeysAfter(0) => OnlyKeysAfter(0)'
    <3> SUFFICES ASSUME OnlyKeysAfter(0), NEW i \in 0 + 1 .. Len(toDaemon')
                 PROVE  toDaemon'[i].kind = "key"
      BY DEF OnlyKeysAfter
    <3>1. i \in 0 + 1 .. Len(toDaemon) \/ i \in Len(toDaemon) + 1 .. Len(toDaemon')
      BY <1>a, <1>d
    <3> QED
      BY <1>d, <3>1 DEF OnlyKeysAfter
  <2>2. Answered => Answered'
    BY <1>c, <1>d, <2>1 DEF Answered, Follows, LastByte, Plain, FirstOf
  <2>3. Showing => Showing'
    BY <1>c, <1>d, <2>1 DEF Showing, Follows, LastByte, Plain, FirstOf
  <2>4. Asked => Asked'
    <3>1. \A i \in 1 .. Len(toClient') : toClient'[i].kind = "attached" =>
              \E k \in 1 .. Len(toClient) : toClient'[i] = toClient[k]
      BY <1>d
    <3> QED
      BY <1>d, <3>1, AskedStays
  <2> QED
    BY <1>d, <2>2, <2>3, <2>4 DEF ScreenOK
<1>1. CASE OpenPane
  BY <1>1, <1>b DEF OpenPane
<1>2. CASE SendAttach
  <2>1. CASE socket # "open"
    BY <1>2, <1>b, <2>1 DEF SendAttach
  <2>2. CASE socket = "open"
    <3> DEFINE r == [kind |-> "attach", pane |-> opened]
    <3>1. /\ toDaemon' = Append(toDaemon, r) /\ pane' = "waiting" /\ pane = "mounted" /\ opened # 0
          /\ UNCHANGED << toClient, opened, fwd >>
      BY <1>2, <2>2 DEF SendAttach, serverVars, TermTyped
    <3>2. r \in Requests /\ r.kind = "attach" /\ r.pane = opened
      BY <3>1 DEF Requests, Attaches, TermTyped
    <3> HIDE DEF r
    <3>3. /\ Len(toDaemon') = Len(toDaemon) + 1 /\ toDaemon'[Len(toDaemon) + 1] = r
          /\ \A i \in 1 .. Len(toDaemon) : toDaemon'[i] = toDaemon[i]
      BY <3>1, <3>2, RequestSent
    <3>4. PICK j \in 1 .. Len(toDaemon) + 1 : j = Len(toDaemon) + 1
      BY <1>a
    <3>5. Cleared(j)'
      BY <3>1, <3>3, <3>4, ClearedStays DEF AskOK
    <3>6. \A i \in j + 1 .. Len(toDaemon') : FALSE
      BY <1>a, <3>3, <3>4
    <3>7. \A i \in 1 .. j - 1 : toDaemon'[i].kind = "attach" => toDaemon'[i].pane < opened
      BY <1>a, <3>1, <3>3, <3>4 DEF AskOK
    <3>8. \A i \in 1 .. Len(toClient') : toClient'[i].kind = "attached" => toClient'[i].pane < opened
      BY <3>1 DEF AskOK
    <3>9. j \in 1 .. Len(toDaemon')
      BY <3>3
    <3>10. Asked'
      BY <3>1, <3>2, <3>3, <3>4, <3>5, <3>6, <3>7, <3>8, <3>9 DEF Asked, OnlyKeysAfter
    <3> QED
      BY <3>1, <3>10 DEF ScreenOK
  <2> QED
    BY <2>1, <2>2
<1>3. CASE AttachAgain
  BY <1>3 DEF AttachAgain, ScreenOK
<1>4. CASE Receive
  <2>1. /\ toClient # << >> /\ toClient' = Tail(toClient)
        /\ UNCHANGED << fwd, oldFwd, chunks, printed, toDaemon, opened >>
    BY <1>4 DEF Receive, TakeReplay, TakeOutput, TakeRepaint, Delivers, serverVars, ptyVars
  <2>2. /\ Len(toClient) \in Nat \ {0} /\ Len(toClient') = Len(toClient) - 1 /\ Head(toClient) = toClient[1]
        /\ \A i \in 1 .. Len(toClient) - 1 : toClient'[i] = toClient[i + 1]
    BY <2>1, MessageTaken
  <2>3. \A i \in 1 .. Len(toClient') : i + 1 \in 1 .. Len(toClient) /\ toClient'[i] = toClient[i + 1]
    BY <2>2
  <2>4. Asked => Asked'
    <3>1. \A i \in 1 .. Len(toClient') : toClient'[i].kind = "attached" =>
              \E k \in 1 .. Len(toClient) : toClient'[i] = toClient[k]
      BY <2>3
    <3>2. \A i \in Len(toDaemon) + 1 .. Len(toDaemon') : toDaemon'[i].kind = "key"
      BY <1>a, <2>1
    <3> QED
      BY <1>a, <2>1, <3>1, <3>2, AskedStays
  <2>5. OnlyKeysAfter(0) => OnlyKeysAfter(0)'
    BY <2>1 DEF OnlyKeysAfter
  <2>6. ASSUME Answered, ~ (toClient[1].kind = "attached" /\ toClient[1].pane = opened)
        PROVE  Answered'
    <3>1. PICK k \in 1 .. Len(toClient) :
            /\ toClient[k].kind = "attached" /\ toClient[k].pane = opened
            /\ \A i \in 1 .. k - 1 : toClient[i].kind = "attached" => toClient[i].pane < opened
            /\ Follows(k, toClient[k].upto)
      BY <2>6 DEF Answered
    <3>2. k # 1
      BY <2>6, <3>1
    <3>3. toClient[k].upto \in Int
      BY <3>1, Wires, TerminalAssumption
    <3> PICK b \in Int : b = toClient[k].upto
      BY <3>3
    <3>4. PICK h \in 1 .. Len(toClient') : h = k - 1
      BY <2>2, <3>2
    <3>5. toClient'[h] = toClient[k]
      BY <2>2, <2>3, <3>4
    <3>6. Follows(k - 1, b)'
      BY <2>1, <3>1, FollowsBehind
    <3>7. Follows(h, b)'
      BY <3>4, <3>6
    <3>8. toClient'[h].upto = b
      BY <3>5
    <3>9. Follows(h, toClient[h].upto)'
      BY <3>7, <3>8 DEF Follows, LastByte
    <3>10. ASSUME NEW i \in 1 .. h - 1, toClient'[i].kind = "attached"
           PROVE  toClient'[i].pane < opened
      <4>1. i \in 1 .. Len(toClient') /\ i + 1 \in 1 .. k - 1
        BY <2>2, <3>4
      <4> QED
        BY <2>3, <3>1, <3>10, <4>1
    <3> QED
      BY <2>1, <2>5, <2>6, <3>1, <3>5, <3>9, <3>10 DEF Answered
  <2>7. CASE TakeReplay
    <3>1. /\ toClient[1].kind = "attached" /\ UNCHANGED disturbed /\ 1 \in 1 .. Len(toClient)
          /\ IF toClient[1].pane = opened /\ pane # "none"
             THEN pane' = "replaying" /\ shown' = toClient[1].upto
             ELSE UNCHANGED << pane, shown >>
      BY <2>2, <2>7 DEF TakeReplay, Delivers
    <3>2. ~Showing
      <4>1. 1 \in 0 + 1 .. Len(toClient)
        BY <2>2
      <4> QED
        BY <3>1, <4>1 DEF Showing, Follows
    <3>3. CASE disturbed
      BY <3>1, <3>3 DEF ScreenOK
    <3>4. CASE ~disturbed /\ toClient[1].pane = opened /\ pane # "none"
      <4>1. ~ (toClient[1].pane < opened)
        BY <1>a, <3>4
      <4>2. pane = "waiting"
        BY <3>1, <3>2, <3>4, <4>1 DEF AskOK, ScreenOK, TermTyped
      <4>3. Answered
        BY <3>1, <3>4, <4>1, <4>2 DEF ScreenOK, Asked
      <4>4. PICK k \in 1 .. Len(toClient) :
              /\ toClient[k].kind = "attached" /\ toClient[k].pane = opened
              /\ \A i \in 1 .. k - 1 : toClient[i].kind = "attached" => toClient[i].pane < opened
              /\ Follows(k, toClient[k].upto)
        BY <4>3 DEF Answered
      <4>5. k = 1
        <5>1. k # 1 => 1 \in 1 .. k - 1
          BY <2>2
        <5> QED
          BY <3>1, <4>1, <4>4, <5>1
      <4>6. toClient[1].upto \in 0 .. MaxBytes
        BY <3>1, Wires
      <4> PICK b \in Int : b = toClient[1].upto /\ b >= 0
        BY <4>6, TerminalAssumption
      <4>7. Follows(k, b)
        BY <4>4, <4>5
      <4>8. Follows(k - 1, b)'
        BY <2>1, <4>7, FollowsBehind
      <4>9. shown' = b /\ pane' = "replaying" /\ k - 1 = 0
        BY <3>1, <3>4, <4>5
      <4>10. Follows(0, shown)'
        BY <4>8, <4>9 DEF Follows, LastByte
      <4>11. shown' # Garbled
        BY <4>9 DEF Garbled
      <4>12. Showing'
        BY <2>1, <2>5, <4>3, <4>10, <4>11 DEF Showing, Answered
      <4> QED
        BY <4>9, <4>12 DEF ScreenOK
    <3>5. CASE ~disturbed /\ ~ (toClient[1].pane = opened /\ pane # "none")
      <4>1. UNCHANGED << pane, shown >>
        BY <3>1, <3>5
      <4>2. pane = "waiting" => Asked' \/ Answered'
        BY <2>4, <2>6, <3>5 DEF ScreenOK
      <4> QED
        BY <3>1, <3>2, <3>5, <4>1, <4>2 DEF ScreenOK
    <3> QED
      BY <3>3, <3>4, <3>5
  <2>8. CASE TakeOutput
    <3>1. /\ toClient[1].kind = "output" /\ UNCHANGED << disturbed, pane >>
          /\ shown' = IF pane = "none" THEN shown
                      ELSE IF shown + 1 = toClient[1].chunk[1] THEN toClient[1].chunk[2] ELSE Garbled
      BY <2>2, <2>8 DEF TakeOutput, Delivers
    <3>2. pane = "waiting" /\ ~disturbed => Asked' \/ Answered'
      BY <2>4, <2>6, <3>1 DEF ScreenOK
    <3>3. ASSUME pane \in {"replaying", "live"}, Showing
          PROVE  Showing'
      <4> PICK b \in Int : b = shown
        BY <1>a
      <4>1. PICK c : c = toClient[1].chunk[2]
        OBVIOUS
      <4>2. toClient[1].chunk[1] = b + 1 /\ c \in Nat /\ Follows(0, c)'
        BY <2>1, <3>1, <3>3, <4>1, FollowsWritten DEF Showing
      <4>3. shown' = c
        BY <3>1, <3>3, <4>1, <4>2
      <4>4. Follows(0, shown)'
        BY <4>2, <4>3 DEF Follows, LastByte
      <4>5. shown' # Garbled
        BY <4>2, <4>3 DEF Garbled
      <4> QED
        BY <2>1, <2>5, <3>3, <4>4, <4>5 DEF Showing
    <3> QED
      BY <3>1, <3>2, <3>3 DEF ScreenOK
  <2>9. CASE TakeRepaint
    BY <2>9 DEF TakeRepaint, ScreenOK
  <2> QED
    BY <1>4, <2>7, <2>8, <2>9 DEF Receive
<1>5. CASE ReplayWritten
  <2>1. /\ pane = "replaying" /\ pane' = "live"
        /\ UNCHANGED << toClient, fwd, oldFwd, chunks, printed, opened, shown, disturbed >>
    BY <1>5 DEF ReplayWritten, serverVars, ptyVars
  <2>2. CASE socket = "open"
    <3>1. toDaemon' = toDaemon \o Frames(held)
      BY <1>5, <2>2 DEF ReplayWritten
    <3>2. /\ Len(toDaemon') = Len(toDaemon) + Len(held) /\ Len(held) \in Nat
          /\ \A i \in 1 .. Len(toDaemon) : toDaemon'[i] = toDaemon[i]
          /\ \A i \in 1 .. Len(held) : toDaemon'[Len(toDaemon) + i] = [kind |-> "key", key |-> held[i]]
      BY <3>1, HeldSent
    <3>3. ASSUME NEW i \in Len(toDaemon) + 1 .. Len(toDaemon')
          PROVE  toDaemon'[i].kind = "key"
      <4>1. i - Len(toDaemon) \in 1 .. Len(held) /\ Len(toDaemon) + (i - Len(toDaemon)) = i
        BY <1>a, <3>2
      <4>2. toDaemon'[i] = [kind |-> "key", key |-> held[i - Len(toDaemon)]]
        BY <3>2, <4>1
      <4> QED
        BY <4>2
    <3>4. Len(toDaemon') \in Nat /\ Len(toDaemon) <= Len(toDaemon')
      BY <1>a, <3>2
    <3> QED
      BY <1>d, <2>1, <3>2, <3>3, <3>4
  <2>3. CASE socket # "open"
    <3>1. UNCHANGED toDaemon
      BY <1>5, <2>3 DEF ReplayWritten
    <3> QED
      BY <1>a, <1>d, <2>1, <3>1
  <2> QED
    BY <2>2, <2>3
<1>6. CASE TypeKey
  <2>1. UNCHANGED << toClient, fwd, oldFwd, chunks, printed, opened, shown, disturbed, pane >>
    BY <1>6 DEF TypeKey, serverVars, ptyVars
  <2>2. CASE pane # "replaying" /\ socket = "open"
    <3> DEFINE r == [kind |-> "key", key |-> typed + 1]
    <3>1. toDaemon' = Append(toDaemon, r)
      BY <1>6, <2>2 DEF TypeKey
    <3>2. r.kind = "key" /\ r \in Requests
      <4>1. typed \in 0 .. MaxKeys /\ typed < MaxKeys /\ MaxKeys \in Nat
        BY <1>6, TerminalAssumption DEF TypeKey, TermTyped
      <4>2. typed + 1 \in 1 .. MaxKeys
        BY <4>1
      <4> QED
        BY <4>2 DEF Requests, Typings
    <3> HIDE DEF r
    <3>3. /\ Len(toDaemon') = Len(toDaemon) + 1 /\ toDaemon'[Len(toDaemon) + 1] = r
          /\ \A i \in 1 .. Len(toDaemon) : toDaemon'[i] = toDaemon[i]
      BY <3>1, <3>2, RequestSent
    <3>4. /\ Len(toDaemon') \in Nat /\ Len(toDaemon) <= Len(toDaemon')
          /\ \A i \in Len(toDaemon) + 1 .. Len(toDaemon') : i = Len(toDaemon) + 1
      BY <1>a, <3>3
    <3>5. \A i \in Len(toDaemon) + 1 .. Len(toDaemon') : toDaemon'[i].kind = "key"
      BY <3>2, <3>3, <3>4
    <3> QED
      BY <1>d, <2>1, <3>3, <3>4, <3>5
  <2>3. CASE ~ (pane # "replaying" /\ socket = "open")
    <3>1. UNCHANGED toDaemon
      BY <1>6, <2>3 DEF TypeKey
    <3> QED
      BY <1>a, <1>d, <2>1, <3>1
  <2> QED
    BY <2>2, <2>3
<1>7. CASE ClosePane
  BY <1>7, <1>b DEF ClosePane
<1>8. CASE LoseSocket
  <2>1. /\ toDaemon' = << >> /\ toClient' = << >> /\ fwd' = Nobody /\ oldFwd' = Nobody
        /\ pane' = IF pane = "waiting" THEN "failed" ELSE pane
        /\ UNCHANGED << shown, disturbed >>
    BY <1>8 DEF LoseSocket
  <2>2. OnlyKeysAfter(0)' /\ Follows(0, shown)'
    BY <2>1 DEF OnlyKeysAfter, Follows
  <2> QED
    BY <2>1, <2>2 DEF ScreenOK, Showing
<1>9. CASE Redial
  <2>1. UNCHANGED << toDaemon, toClient, fwd, oldFwd, chunks, printed, opened, shown, disturbed, pane >>
    BY <1>9 DEF Redial, serverVars, ptyVars, paneVars
  <2> QED
    BY <1>a, <1>d, <2>1
<1>10. CASE UNCHANGED termVars
  <2>1. UNCHANGED << toDaemon, toClient, fwd, oldFwd, chunks, printed, opened, shown, disturbed, pane >>
    BY <1>10 DEF termVars
  <2> QED
    BY <1>a, <1>d, <2>1
<1> QED
  BY <1>1, <1>2, <1>3, <1>4, <1>5, <1>6, <1>7, <1>8, <1>9, <1>10

-----------------------------------------------------------------------------
(* The keys.                                                                 *)

\* Numbers the keys bear.
LEMMA KeyNumbers ==
    ASSUME TermTyped
    PROVE  /\ Len(console) \in Nat /\ Len(toDaemon) \in Nat /\ Len(held) \in Nat /\ typed \in Nat
           /\ \A i \in 1 .. Len(console) : console[i] \in Nat
           /\ \A i \in 1 .. Len(toDaemon) : IsKey(i) => toDaemon[i].key \in Nat
           /\ \A i \in 1 .. Len(held) : held[i] \in Nat
<1>1. MaxKeys \in Nat /\ 1 .. MaxKeys \subseteq Nat
  BY TerminalAssumption
<1>2. console \in Seq(1 .. MaxKeys) /\ held \in Seq(1 .. MaxKeys)
  BY DEF TermTyped
<1>3. /\ Len(console) \in Nat /\ Len(held) \in Nat /\ typed \in Nat
  BY <1>1, <1>2 DEF TermTyped
<1>4. \A i \in 1 .. Len(console) : console[i] \in 1 .. MaxKeys
  BY <1>2, ElementOfSeq
<1>5. \A i \in 1 .. Len(held) : held[i] \in 1 .. MaxKeys
  BY <1>2, ElementOfSeq
<1> QED
  BY <1>1, <1>3, <1>4, <1>5, Wires DEF IsKey

\* A request other than a key comes or goes.
LEMMA KeysSent ==
    ASSUME TermTyped, KeysOK, NEW r \in Requests, r.kind # "key", toDaemon' = Append(toDaemon, r),
           UNCHANGED << console, typed >>, held' = held \/ held' = << >>, held' # << >> => pane' = "replaying"
    PROVE  KeysOK'
<1>1. /\ Len(toDaemon') = Len(toDaemon) + 1 /\ toDaemon'[Len(toDaemon) + 1] = r
      /\ \A i \in 1 .. Len(toDaemon) : toDaemon'[i] = toDaemon[i]
  BY RequestSent
<1>2. ASSUME NEW i \in 1 .. Len(toDaemon'), IsKey(i)'
      PROVE  i \in 1 .. Len(toDaemon) /\ IsKey(i) /\ toDaemon'[i].key = toDaemon[i].key
  <2>1. i # Len(toDaemon) + 1
    BY <1>1, <1>2 DEF IsKey
  <2>2. i \in 1 .. Len(toDaemon)
    BY <1>1, <2>1, KeyNumbers
  <2> QED
    BY <1>1, <1>2, <2>2 DEF IsKey
<1>3. \A i \in 1 .. Len(held') : i \in 1 .. Len(held) /\ held'[i] = held[i]
  OBVIOUS
<1> QED
  BY <1>2, <1>3 DEF KeysOK

\* A request is served: a key is appended to what the console received.
LEMMA KeysServed ==
    ASSUME TermTyped, KeysOK, ServeAttach \/ ServeDetach \/ RouteInput
    PROVE  KeysOK'
<1>1. toDaemon # << >> /\ toDaemon' = Tail(toDaemon) /\ UNCHANGED << held, typed, pane >>
  BY DEF ServeAttach, ServeDetach, RouteInput, Asks, paneVars
<1>2. /\ Len(toDaemon) \in Nat \ {0} /\ Len(toDaemon') = Len(toDaemon) - 1
      /\ Head(toDaemon) = toDaemon[1]
      /\ \A i \in 1 .. Len(toDaemon) - 1 : toDaemon'[i] = toDaemon[i + 1]
  BY <1>1, RequestServed
<1>3. ASSUME NEW i \in 1 .. Len(toDaemon')
      PROVE  /\ i + 1 \in 1 .. Len(toDaemon) /\ toDaemon'[i] = toDaemon[i + 1] /\ 1 < i + 1
             /\ IsKey(i)' <=> IsKey(i + 1)
  <2>1. i + 1 \in 1 .. Len(toDaemon) /\ toDaemon'[i] = toDaemon[i + 1] /\ 1 < i + 1
    BY <1>2
  <2> QED
    BY <2>1 DEF IsKey
<1>4. /\ \A i, j \in 1 .. Len(toDaemon') :
           IsKey(i)' /\ IsKey(j)' /\ i < j => toDaemon'[i].key < toDaemon'[j].key
      /\ \A i \in 1 .. Len(toDaemon'), j \in 1 .. Len(held') : IsKey(i)' => toDaemon'[i].key < held'[j]
      /\ \A i \in 1 .. Len(toDaemon') : IsKey(i)' => toDaemon'[i].key <= typed
  <2>1. ASSUME NEW i \in 1 .. Len(toDaemon'), NEW j \in 1 .. Len(toDaemon'), IsKey(i)', IsKey(j)', i < j
        PROVE  toDaemon'[i].key < toDaemon'[j].key
    <3>1. i + 1 < j + 1
      BY <1>2, <2>1
    <3> QED
      BY <1>3, <2>1, <3>1 DEF KeysOK
  <2>2. ASSUME NEW i \in 1 .. Len(toDaemon'), IsKey(i)'
        PROVE  /\ \A j \in 1 .. Len(held') : toDaemon'[i].key < held'[j]
               /\ toDaemon'[i].key <= typed
    BY <1>1, <1>3, <2>2 DEF KeysOK
  <2> QED
    BY <2>1, <2>2
<1>5. CASE ServeAttach \/ ServeDetach
  <2>1. UNCHANGED console
    BY <1>5 DEF ServeAttach, ServeDetach, paneVars
  <2> QED
    BY <1>1, <1>3, <1>4, <2>1 DEF KeysOK
<1>6. CASE RouteInput
  <2>1. IsKey(1) /\ console' = Append(console, toDaemon[1].key) /\ 1 \in 1 .. Len(toDaemon)
    BY <1>2, <1>6 DEF RouteInput, Asks, IsKey
  <2>2. toDaemon[1].key \in 1 .. MaxKeys /\ console \in Seq(1 .. MaxKeys)
    BY <2>1, Wires DEF IsKey, TermTyped
  <2>3. /\ Len(console') = Len(console) + 1 /\ console'[Len(console) + 1] = toDaemon[1].key
        /\ \A i \in 1 .. Len(console) : console'[i] = console[i]
    BY <2>1, <2>2, AppendProperties
  <2>4. Len(console) \in Nat
    BY KeyNumbers
  <2>5. ASSUME NEW i \in 1 .. Len(console')
        PROVE  i \in 1 .. Len(console) \/ i = Len(console) + 1
    BY <2>3, <2>4
  <2>6. ASSUME NEW i \in 1 .. Len(console'), NEW j \in 1 .. Len(console'), i < j
        PROVE  console'[i] < console'[j]
    <3>1. i \in 1 .. Len(console)
      BY <2>3, <2>4, <2>6
    <3>2. CASE j \in 1 .. Len(console)
      BY <2>3, <2>6, <3>1, <3>2 DEF KeysOK
    <3>3. CASE j = Len(console) + 1
      BY <2>1, <2>3, <3>1, <3>3 DEF KeysOK
    <3> QED
      BY <2>5, <3>2, <3>3
  <2>7. ASSUME NEW i \in 1 .. Len(console')
        PROVE  /\ \A j \in 1 .. Len(toDaemon') : IsKey(j)' => console'[i] < toDaemon'[j].key
               /\ \A j \in 1 .. Len(held') : console'[i] < held'[j]
               /\ console'[i] <= typed
    <3>1. CASE i \in 1 .. Len(console)
      BY <1>1, <1>3, <2>3, <3>1 DEF KeysOK
    <3>2. CASE i = Len(console) + 1
      <4>1. \A j \in 1 .. Len(toDaemon') : IsKey(j)' => toDaemon[1].key < toDaemon'[j].key
        BY <1>3, <2>1 DEF KeysOK
      <4>2. (\A j \in 1 .. Len(held) : toDaemon[1].key < held[j]) /\ toDaemon[1].key <= typed
        BY <2>1 DEF KeysOK
      <4> QED
        BY <1>1, <2>3, <3>2, <4>1, <4>2
    <3> QED
      BY <2>5, <3>1, <3>2
  <2>8. held' # << >> => pane' = "replaying"
    BY <1>1 DEF KeysOK
  <2>9. \A i, j \in 1 .. Len(held') : i < j => held'[i] < held'[j]
    BY <1>1 DEF KeysOK
  <2>10. \A i \in 1 .. Len(held') : held'[i] <= typed'
    BY <1>1 DEF KeysOK
  <2> QED
    BY <1>1, <1>4, <2>6, <2>7, <2>8, <2>9, <2>10 DEF KeysOK
<1> QED
  BY <1>5, <1>6

\* A key is typed.
LEMMA KeysTyped ==
    ASSUME TermTyped, KeysOK, TypeKey
    PROVE  KeysOK'
<1>1. typed' = typed + 1 /\ UNCHANGED << console, pane >>
  BY DEF TypeKey
<1>2. /\ \A i \in 1 .. Len(console) : console[i] < typed + 1
      /\ \A i \in 1 .. Len(toDaemon) : IsKey(i) => toDaemon[i].key < typed + 1
      /\ \A i \in 1 .. Len(held) : held[i] < typed + 1
  BY KeyNumbers DEF KeysOK
<1>3. /\ \A i \in 1 .. Len(console) : console[i] <= typed + 1
      /\ \A i \in 1 .. Len(toDaemon) : IsKey(i) => toDaemon[i].key <= typed + 1
      /\ \A i \in 1 .. Len(held) : held[i] <= typed + 1
      /\ typed + 1 <= typed + 1
  BY KeyNumbers DEF KeysOK
<1>a. typed + 1 \in 1 .. MaxKeys
  <2>1. typed \in 0 .. MaxKeys /\ typed < MaxKeys /\ MaxKeys \in Nat
    BY TerminalAssumption DEF TypeKey, TermTyped
  <2> QED
    BY <2>1
<1>4. CASE pane = "replaying"
  <2>1. held' = Append(held, typed + 1) /\ UNCHANGED toDaemon
    BY <1>4 DEF TypeKey
  <2>2. /\ Len(held') = Len(held) + 1 /\ held'[Len(held) + 1] = typed + 1
        /\ \A i \in 1 .. Len(held) : held'[i] = held[i]
    BY <1>a, <2>1, AppendProperties DEF TermTyped
  <2>3. ASSUME NEW i \in 1 .. Len(held')
        PROVE  i \in 1 .. Len(held) \/ i = Len(held) + 1
    BY <2>2, KeyNumbers
  <2>4. \A i \in 1 .. Len(held') : i = Len(held) + 1 => \A j \in 1 .. Len(held') : j < i => j \in 1 .. Len(held)
    BY <2>2, KeyNumbers
  <2>5. ASSUME NEW i \in 1 .. Len(held'), NEW j \in 1 .. Len(held'), i < j
        PROVE  held'[i] < held'[j]
    <3>1. i \in 1 .. Len(held)
      BY <2>2, <2>5, KeyNumbers
    <3>2. CASE j \in 1 .. Len(held)
      BY <2>2, <2>5, <3>1, <3>2 DEF KeysOK
    <3>3. CASE j = Len(held) + 1
      BY <1>2, <2>2, <3>1, <3>3
    <3> QED
      BY <2>3, <3>2, <3>3
  <2>6. ASSUME NEW j \in 1 .. Len(held')
        PROVE  /\ \A i \in 1 .. Len(console) : console[i] < held'[j]
               /\ \A i \in 1 .. Len(toDaemon) : IsKey(i) => toDaemon[i].key < held'[j]
               /\ held'[j] <= typed + 1
    <3>1. CASE j \in 1 .. Len(held)
      BY <1>3, <2>2, <3>1 DEF KeysOK
    <3>2. CASE j = Len(held) + 1
      BY <1>2, <1>3, <2>2, <3>2
    <3> QED
      BY <2>3, <3>1, <3>2
  <2>7. \A i : IsKey(i)' <=> IsKey(i)
    BY <2>1 DEF IsKey
  <2>8. /\ \A i, j \in 1 .. Len(console') : i < j => console'[i] < console'[j]
        /\ \A i, j \in 1 .. Len(toDaemon') : IsKey(i)' /\ IsKey(j)' /\ i < j => toDaemon'[i].key < toDaemon'[j].key
        /\ \A i \in 1 .. Len(console'), j \in 1 .. Len(toDaemon') : IsKey(j)' => console'[i] < toDaemon'[j].key
    BY <1>1, <2>1, <2>7 DEF KeysOK
  <2> QED
    BY <1>1, <1>3, <1>4, <2>1, <2>5, <2>6, <2>7, <2>8 DEF KeysOK
<1>5. CASE pane # "replaying" /\ socket = "open"
  <2> DEFINE r == [kind |-> "key", key |-> typed + 1]
  <2>1. toDaemon' = Append(toDaemon, r) /\ UNCHANGED held
    BY <1>5 DEF TypeKey
  <2>2. r.kind = "key" /\ r.key = typed + 1 /\ r \in Requests
    BY <1>a DEF Requests, Typings
  <2> HIDE DEF r
  <2>3. /\ Len(toDaemon') = Len(toDaemon) + 1 /\ toDaemon'[Len(toDaemon) + 1] = r
        /\ \A i \in 1 .. Len(toDaemon) : toDaemon'[i] = toDaemon[i]
    BY <2>1, <2>2, RequestSent
  <2>4. held = << >> /\ Len(held') = 0 /\ held' = << >>
    BY <1>5, <2>1 DEF KeysOK
  <2>5. ASSUME NEW i \in 1 .. Len(toDaemon')
        PROVE  (i \in 1 .. Len(toDaemon) /\ (IsKey(i)' <=> IsKey(i))) \/ i = Len(toDaemon) + 1
    BY <2>3, KeyNumbers DEF IsKey
  <2>6. ASSUME NEW i \in 1 .. Len(toDaemon'), NEW j \in 1 .. Len(toDaemon'), IsKey(i)', IsKey(j)', i < j
        PROVE  toDaemon'[i].key < toDaemon'[j].key
    <3>1. i \in 1 .. Len(toDaemon)
      BY <2>3, <2>6, KeyNumbers
    <3>2. CASE j \in 1 .. Len(toDaemon)
      BY <2>3, <2>6, <3>1, <3>2 DEF KeysOK, IsKey
    <3>3. CASE j = Len(toDaemon) + 1
      BY <1>2, <2>2, <2>3, <2>6, <3>1, <3>3 DEF IsKey
    <3> QED
      BY <2>5, <3>2, <3>3
  <2>7. ASSUME NEW j \in 1 .. Len(toDaemon'), IsKey(j)'
        PROVE  /\ \A i \in 1 .. Len(console) : console[i] < toDaemon'[j].key
               /\ toDaemon'[j].key <= typed + 1
    <3>1. CASE j \in 1 .. Len(toDaemon) /\ IsKey(j)
      BY <1>3, <2>3, <3>1 DEF KeysOK
    <3>2. CASE j = Len(toDaemon) + 1
      BY <1>2, <1>3, <2>2, <2>3, <3>2
    <3> QED
      BY <2>5, <2>7, <3>1, <3>2
  <2>8. \A i, j \in 1 .. Len(console') : i < j => console'[i] < console'[j]
    BY <1>1 DEF KeysOK
  <2>9. \A i \in 1 .. Len(held') : FALSE
    BY <2>4
  <2> QED
    BY <1>1, <1>3, <2>4, <2>6, <2>7, <2>8, <2>9 DEF KeysOK
<1>6. CASE pane # "replaying" /\ socket # "open"
  <2>1. UNCHANGED << toDaemon, held >>
    BY <1>6 DEF TypeKey
  <2>2. \A i : IsKey(i)' <=> IsKey(i)
    BY <2>1 DEF IsKey
  <2> QED
    BY <1>1, <1>3, <2>1, <2>2 DEF KeysOK
<1> QED
  BY <1>4, <1>5, <1>6

\* The keys held are sent, or lost with the socket.
LEMMA KeysReleased ==
    ASSUME TermTyped, KeysOK, ReplayWritten
    PROVE  KeysOK'
<1>1. held' = << >> /\ Len(held') = 0 /\ UNCHANGED << console, typed >>
  BY DEF ReplayWritten
<1>9. \A i \in 1 .. Len(held') : FALSE
  BY <1>1
<1>2. CASE socket = "open"
  <2>1. toDaemon' = toDaemon \o Frames(held)
    BY <1>2 DEF ReplayWritten
  <2>2. /\ Len(toDaemon') = Len(toDaemon) + Len(held) /\ Len(held) \in Nat
        /\ \A i \in 1 .. Len(toDaemon) : toDaemon'[i] = toDaemon[i]
        /\ \A i \in 1 .. Len(held) : toDaemon'[Len(toDaemon) + i] = [kind |-> "key", key |-> held[i]]
    BY <2>1, HeldSent
  <2>3. ASSUME NEW i \in 1 .. Len(toDaemon')
        PROVE  \/ /\ i \in 1 .. Len(toDaemon) /\ (IsKey(i)' <=> IsKey(i)) /\ toDaemon'[i] = toDaemon[i]
               \/ /\ i \notin 1 .. Len(toDaemon) /\ i - Len(toDaemon) \in 1 .. Len(held)
                  /\ toDaemon'[i].key = held[i - Len(toDaemon)]
    <3>1. CASE i \in 1 .. Len(toDaemon)
      BY <2>2, <3>1 DEF IsKey
    <3>2. CASE i \notin 1 .. Len(toDaemon)
      <4>1. i - Len(toDaemon) \in 1 .. Len(held) /\ Len(toDaemon) + (i - Len(toDaemon)) = i
        BY <2>2, <3>2, KeyNumbers
      <4>2. toDaemon'[i] = [kind |-> "key", key |-> held[i - Len(toDaemon)]]
        BY <2>2, <4>1
      <4> QED
        BY <3>2, <4>1, <4>2
    <3> QED
      BY <3>1, <3>2
  <2>4. ASSUME NEW i \in 1 .. Len(toDaemon'), NEW j \in 1 .. Len(toDaemon'), IsKey(i)', IsKey(j)', i < j
        PROVE  toDaemon'[i].key < toDaemon'[j].key
    <3>1. CASE j \in 1 .. Len(toDaemon)
      <4>1. i \in 1 .. Len(toDaemon)
        BY <2>4, <3>1, KeyNumbers
      <4> QED
        BY <2>2, <2>3, <2>4, <3>1, <4>1 DEF KeysOK
    <3>2. CASE j \notin 1 .. Len(toDaemon)
      <4>1. j - Len(toDaemon) \in 1 .. Len(held) /\ toDaemon'[j].key = held[j - Len(toDaemon)]
        BY <2>3, <3>2
      <4>2. CASE i \in 1 .. Len(toDaemon)
        <5>1. IsKey(i) /\ toDaemon'[i] = toDaemon[i]
          BY <2>3, <2>4, <4>2
        <5> QED
          BY <4>1, <4>2, <5>1 DEF KeysOK
      <4>3. CASE i \notin 1 .. Len(toDaemon)
        <5>1. i - Len(toDaemon) \in 1 .. Len(held) /\ toDaemon'[i].key = held[i - Len(toDaemon)]
          BY <2>3, <4>3
        <5>2. i - Len(toDaemon) < j - Len(toDaemon)
          BY <2>2, <2>4, KeyNumbers
        <5> QED
          BY <4>1, <5>1, <5>2 DEF KeysOK
      <4> QED
        BY <4>2, <4>3
    <3> QED
      BY <3>1, <3>2
  <2>5. ASSUME NEW j \in 1 .. Len(toDaemon'), IsKey(j)'
        PROVE  /\ \A i \in 1 .. Len(console) : console[i] < toDaemon'[j].key
               /\ toDaemon'[j].key <= typed
    BY <2>3, <2>5 DEF KeysOK
  <2> QED
    BY <1>1, <1>9, <2>4, <2>5 DEF KeysOK
<1>3. CASE socket # "open"
  <2>1. UNCHANGED toDaemon
    BY <1>3 DEF ReplayWritten
  <2>2. \A i : IsKey(i)' <=> IsKey(i)
    BY <2>1 DEF IsKey
  <2> QED
    BY <1>1, <1>9, <2>1, <2>2 DEF KeysOK
<1> QED
  BY <1>2, <1>3

\* Keys stay in the order they were typed.
LEMMA KeysStep ==
    ASSUME TermTyped, KeysOK, [TermNext]_termVars
    PROVE  KeysOK'
<1>1. ASSUME UNCHANGED << toDaemon, console, typed >>, held' = held \/ held' = << >>,
             held' # << >> => pane' = "replaying"
      PROVE  KeysOK'
  <2>1. \A i : IsKey(i)' <=> IsKey(i)
    BY <1>1 DEF IsKey
  <2>2. \A i \in 1 .. Len(held') : i \in 1 .. Len(held) /\ held'[i] = held[i]
    BY <1>1
  <2> QED
    BY <1>1, <2>1, <2>2 DEF KeysOK
<1>a. held # << >> => pane = "replaying"
  BY DEF KeysOK
<1>2. CASE AgentPrints \/ SwapForwarder \/ ForwardNew \/ ForwardOld \/ Redial
  <2>1. UNCHANGED << toDaemon, console, typed, held, pane >>
    BY <1>2 DEF AgentPrints, SwapForwarder, ForwardNew, ForwardOld, Redial, wireVars, paneVars
  <2> QED
    BY <1>1, <1>a, <2>1
<1>3. CASE ServeAttach \/ ServeDetach \/ RouteInput
  BY <1>3, KeysServed
<1>4. CASE OpenPane
  BY <1>1, <1>4 DEF OpenPane, wireVars
<1>5. CASE SendAttach
  <2>1. UNCHANGED << console, typed, held >> /\ pane = "mounted" /\ opened # 0
    BY <1>5 DEF SendAttach, TermTyped
  <2>2. held' = << >>
    BY <1>a, <2>1
  <2>3. [kind |-> "attach", pane |-> opened] \in Requests
    BY <2>1 DEF Requests, Attaches, TermTyped
  <2>4. CASE socket = "open"
    BY <1>5, <2>1, <2>2, <2>3, <2>4, KeysSent DEF SendAttach
  <2>5. CASE socket # "open"
    BY <1>1, <1>5, <2>1, <2>2, <2>5 DEF SendAttach
  <2> QED
    BY <2>4, <2>5
<1>6. CASE AttachAgain
  <2>1. UNCHANGED << console, typed, held >> /\ pane = "live" /\ opened # 0
    BY <1>6 DEF AttachAgain, TermTyped
  <2>2. held' = << >>
    BY <1>a, <2>1
  <2>3. [kind |-> "attach", pane |-> opened] \in Requests
    BY <2>1 DEF Requests, Attaches, TermTyped
  <2> QED
    BY <1>6, <2>1, <2>2, <2>3, KeysSent DEF AttachAgain
<1>7. CASE Receive
  <2>1. UNCHANGED << toDaemon, console, typed, held >> /\ pane' \in {pane, "replaying"}
    BY <1>7 DEF Receive, TakeReplay, TakeOutput, TakeRepaint
  <2> QED
    BY <1>1, <1>a, <2>1
<1>8. CASE ReplayWritten
  BY <1>8, KeysReleased
<1>9. CASE TypeKey
  BY <1>9, KeysTyped
<1>10. CASE ClosePane
  <2>1. [kind |-> "detach"] \in Requests
    BY DEF Requests, Detaches
  <2>2. CASE socket = "open"
    BY <1>10, <2>1, <2>2, KeysSent DEF ClosePane
  <2>3. CASE socket # "open"
    BY <1>1, <1>10, <2>3 DEF ClosePane
  <2> QED
    BY <2>2, <2>3
<1>11. CASE LoseSocket
  <2>1. /\ toDaemon' = << >> /\ UNCHANGED << console, typed, held >>
        /\ pane = "replaying" => pane' = "replaying"
    BY <1>11 DEF LoseSocket
  <2>2. \A i \in 1 .. Len(toDaemon') : FALSE
    BY <2>1
  <2> QED
    BY <2>1, <2>2 DEF KeysOK
<1>12. CASE UNCHANGED termVars
  BY <1>1, <1>a, <1>12 DEF termVars
<1> QED
  BY ONLY [TermNext]_termVars, <1>2, <1>3, <1>4, <1>5, <1>6, <1>7, <1>8, <1>9, <1>10, <1>11, <1>12
  DEF TermNext, DaemonLoop

\* A key that is there stays when requests are appended, ...
LEMMA KeyStays ==
    ASSUME TermTyped, NEW k, KeyIsThere(k), UNCHANGED << console, held >>,
           Len(toDaemon) <= Len(toDaemon'), Len(toDaemon') \in Nat,
           \A i \in 1 .. Len(toDaemon) : toDaemon'[i] = toDaemon[i]
    PROVE  KeyIsThere(k)'
<1>1. Len(toDaemon) \in Nat
  BY KeyNumbers
<1>2. \A i \in 1 .. Len(toDaemon) : i \in 1 .. Len(toDaemon') /\ (IsKey(i) => IsKey(i)')
  BY <1>1 DEF IsKey
<1> QED
  BY <1>2 DEF KeyIsThere

\* ... and when one is served: a key goes to the console.
LEMMA KeyServed ==
    ASSUME TermTyped, NEW k, KeyIsThere(k), ServeAttach \/ ServeDetach \/ RouteInput
    PROVE  KeyIsThere(k)'
<1>1. toDaemon # << >> /\ toDaemon' = Tail(toDaemon) /\ UNCHANGED held
  BY DEF ServeAttach, ServeDetach, RouteInput, Asks, paneVars
<1>2. /\ Len(toDaemon) \in Nat \ {0} /\ Len(toDaemon') = Len(toDaemon) - 1
      /\ Head(toDaemon) = toDaemon[1]
      /\ \A i \in 1 .. Len(toDaemon) - 1 : toDaemon'[i] = toDaemon[i + 1]
  BY <1>1, RequestServed
<1>3. ASSUME NEW i \in 1 .. Len(console)
      PROVE  i \in 1 .. Len(console') /\ console'[i] = console[i]
  <2>1. CASE ServeAttach \/ ServeDetach
    BY <2>1 DEF ServeAttach, ServeDetach, paneVars
  <2>2. CASE RouteInput
    <3>1. toDaemon[1].key \in 1 .. MaxKeys /\ console \in Seq(1 .. MaxKeys)
      <4>1. 1 \in 1 .. Len(toDaemon) /\ toDaemon[1].kind = "key"
        BY <1>2, <2>2 DEF RouteInput, Asks
      <4> QED
        BY <4>1, Wires DEF TermTyped
    <3>2. console' = Append(console, toDaemon[1].key)
      BY <1>2, <2>2 DEF RouteInput
    <3>3. Len(console') = Len(console) + 1 /\ \A n \in 1 .. Len(console) : console'[n] = console[n]
      BY <3>1, <3>2, AppendProperties
    <3> QED
      BY <3>3, KeyNumbers
  <2> QED
    BY <2>1, <2>2
<1>4. ASSUME NEW i \in 1 .. Len(toDaemon), IsKey(i), toDaemon[i].key = k
      PROVE  KeyIsThere(k)'
  <2>1. CASE i = 1
    <3>1. RouteInput
      BY <1>2, <1>4, <2>1 DEF IsKey, ServeAttach, ServeDetach, Asks
    <3>2. toDaemon[1].key \in 1 .. MaxKeys /\ console \in Seq(1 .. MaxKeys)
      BY <1>4, <2>1, Wires DEF IsKey, TermTyped
    <3>3. console' = Append(console, toDaemon[1].key)
      BY <1>2, <3>1 DEF RouteInput
    <3>4. Len(console') = Len(console) + 1 /\ console'[Len(console) + 1] = toDaemon[1].key
      BY <3>2, <3>3, AppendProperties
    <3>5. Len(console) + 1 \in 1 .. Len(console')
      BY <3>4, KeyNumbers
    <3> QED
      BY <1>4, <2>1, <3>4, <3>5 DEF KeyIsThere
  <2>2. CASE i # 1
    <3>1. i - 1 \in 1 .. Len(toDaemon') /\ i - 1 \in 1 .. Len(toDaemon) - 1 /\ (i - 1) + 1 = i
      BY <1>2, <2>2
    <3>2. toDaemon'[i - 1] = toDaemon[i]
      BY <1>2, <3>1
    <3>3. IsKey(i - 1)' /\ toDaemon'[i - 1].key = k
      BY <1>4, <3>2 DEF IsKey
    <3> QED
      BY <3>1, <3>3 DEF KeyIsThere
  <2> QED
    BY <2>1, <2>2
<1> QED
  BY <1>1, <1>3, <1>4 DEF KeyIsThere

\* While the first pane is open and the connection holds, no key gets lost.
LEMMA NoKeyLostStep ==
    ASSUME TermTyped, KeysOK, NoKeyLost, [TermNext]_termVars
    PROVE  NoKeyLost'
<1>a. /\ opened \in Nat /\ losses \in Nat /\ typed \in Nat
      /\ Len(toDaemon) \in Nat /\ Len(console) \in Nat /\ Len(held) \in Nat
      /\ pane # "none" => opened # 0
  BY KeyNumbers, TerminalAssumption DEF TermTyped
<1>b. ASSUME UNCHANGED << opened, typed, losses, socket >>, pane = "none" => pane' = "none",
             \A k \in 1 .. typed : losses = 0 /\ KeyIsThere(k) => KeyIsThere(k)'
      PROVE  NoKeyLost'
  BY <1>b DEF NoKeyLost
<1>c. ASSUME UNCHANGED << opened, typed, losses, socket, toDaemon, console, held >>,
             pane = "none" => pane' = "none"
      PROVE  NoKeyLost'
  <2>1. \A k : KeyIsThere(k) => KeyIsThere(k)'
    BY <1>c DEF KeyIsThere, IsKey
  <2> QED
    BY <1>b, <1>c, <2>1
<1>1. CASE AgentPrints \/ SwapForwarder \/ ForwardNew \/ ForwardOld
  BY <1>c, <1>1 DEF AgentPrints, SwapForwarder, ForwardNew, ForwardOld, wireVars, paneVars
<1>2. CASE ServeAttach \/ ServeDetach \/ RouteInput
  <2>1. UNCHANGED << opened, typed, losses, socket, pane >>
    BY <1>2 DEF ServeAttach, ServeDetach, RouteInput, paneVars
  <2>2. \A k : KeyIsThere(k) => KeyIsThere(k)'
    BY <1>2, KeyServed
  <2> QED
    BY <1>b, <2>1, <2>2
<1>3. CASE OpenPane
  <2>1. opened' = opened + 1 /\ pane = "none" /\ UNCHANGED << typed, losses, socket >>
    BY <1>3 DEF OpenPane, wireVars
  <2>2. opened' # 0 /\ (opened' = 1 => opened = 0)
    BY <1>a, <2>1
  <2>3. opened = 0 => 1 .. typed' = {}
    BY <2>1 DEF NoKeyLost
  <2> QED
    BY <2>1, <2>2, <2>3 DEF NoKeyLost
<1>4. CASE SendAttach \/ AttachAgain
  <2>1. UNCHANGED << opened, typed, losses, socket, console, held >> /\ pane # "none"
    BY <1>4 DEF SendAttach, AttachAgain
  <2>2. \/ UNCHANGED toDaemon
        \/ toDaemon' = Append(toDaemon, [kind |-> "attach", pane |-> opened])
    BY <1>4 DEF SendAttach, AttachAgain
  <2>3. [kind |-> "attach", pane |-> opened] \in Requests
    BY <1>a, <2>1 DEF Requests, Attaches, TermTyped
  <2>4. /\ Len(toDaemon) <= Len(toDaemon') /\ Len(toDaemon') \in Nat
        /\ \A i \in 1 .. Len(toDaemon) : toDaemon'[i] = toDaemon[i]
    <3>1. CASE UNCHANGED toDaemon
      BY <1>a, <3>1
    <3>2. CASE toDaemon' = Append(toDaemon, [kind |-> "attach", pane |-> opened])
      <4> PICK r \in Requests : r = [kind |-> "attach", pane |-> opened]
        BY <2>3
      <4>1. Len(toDaemon') = Len(toDaemon) + 1 /\ \A i \in 1 .. Len(toDaemon) : toDaemon'[i] = toDaemon[i]
        BY <3>2, RequestSent
      <4> QED
        BY <1>a, <4>1
    <3> QED
      BY <2>2, <3>1, <3>2
  <2>5. \A k : KeyIsThere(k) => KeyIsThere(k)'
    BY <2>1, <2>4, KeyStays
  <2> QED
    BY <1>b, <2>1, <2>5
<1>5. CASE Receive
  <2>1. UNCHANGED << opened, typed, losses, socket, toDaemon, console, held >>
    BY <1>5 DEF Receive, TakeReplay, TakeOutput, TakeRepaint
  <2>2. pane = "none" => pane' = "none"
    BY <1>5 DEF Receive, TakeReplay, TakeOutput, TakeRepaint
  <2> QED
    BY <1>c, <2>1, <2>2
<1>6. CASE ReplayWritten
  <2>1. UNCHANGED << opened, typed, losses, socket, console >> /\ pane # "none"
    BY <1>6 DEF ReplayWritten
  <2>2. ASSUME NEW k, losses = 0, KeyIsThere(k)
        PROVE  KeyIsThere(k)'
    <3>1. toDaemon' = toDaemon \o Frames(held)
      BY <1>6, <2>2 DEF NoKeyLost, ReplayWritten
    <3>2. /\ Len(toDaemon') = Len(toDaemon) + Len(held)
          /\ \A i \in 1 .. Len(toDaemon) : toDaemon'[i] = toDaemon[i]
          /\ \A i \in 1 .. Len(held) : toDaemon'[Len(toDaemon) + i] = [kind |-> "key", key |-> held[i]]
      BY <3>1, HeldSent
    <3>3. CASE \E i \in 1 .. Len(console) : console[i] = k
      BY <2>1, <3>3 DEF KeyIsThere
    <3>4. CASE \E i \in 1 .. Len(toDaemon) : IsKey(i) /\ toDaemon[i].key = k
      <4>1. \A i \in 1 .. Len(toDaemon) : i \in 1 .. Len(toDaemon') /\ (IsKey(i) => IsKey(i)')
        BY <1>a, <3>2 DEF IsKey
      <4> QED
        BY <3>2, <3>4, <4>1 DEF KeyIsThere
    <3>5. CASE \E i \in 1 .. Len(held) : held[i] = k
      <4> PICK i \in 1 .. Len(held) : held[i] = k
        BY <3>5
      <4>1. Len(toDaemon) + i \in 1 .. Len(toDaemon')
        BY <1>a, <3>2
      <4>2. toDaemon'[Len(toDaemon) + i] = [kind |-> "key", key |-> k]
        BY <3>2
      <4>3. toDaemon'[Len(toDaemon) + i].kind = "key" /\ toDaemon'[Len(toDaemon) + i].key = k
        BY <4>2
      <4>4. \E n \in 1 .. Len(toDaemon') : IsKey(n)' /\ toDaemon'[n].key = k
        BY <4>1, <4>3 DEF IsKey
      <4> QED
        BY <4>4 DEF KeyIsThere
    <3> QED
      BY <2>2, <3>3, <3>4, <3>5 DEF KeyIsThere
  <2> QED
    BY <1>b, <2>1, <2>2
<1>7. CASE TypeKey
  <2>1. UNCHANGED << opened, losses, socket, console, pane >> /\ pane # "none" /\ typed' = typed + 1
    BY <1>7 DEF TypeKey
  <2>2. opened # 0
    BY <1>a, <2>1
  <2>3. ASSUME losses = 0
        PROVE  \A k : KeyIsThere(k) \/ k = typed + 1 => KeyIsThere(k)'
    <3>1. typed + 1 \in 1 .. MaxKeys
      <4>1. typed \in 0 .. MaxKeys /\ typed < MaxKeys /\ MaxKeys \in Nat
        BY <1>7, TerminalAssumption DEF TypeKey, TermTyped
      <4> QED
        BY <4>1
    <3>2. CASE pane = "replaying"
      <4>1. held' = Append(held, typed + 1) /\ UNCHANGED toDaemon
        BY <1>7, <3>2 DEF TypeKey
      <4>2. /\ Len(held') = Len(held) + 1 /\ held'[Len(held) + 1] = typed + 1
            /\ \A i \in 1 .. Len(held) : held'[i] = held[i]
        BY <3>1, <4>1, AppendProperties DEF TermTyped
      <4>3. Len(held) + 1 \in 1 .. Len(held') /\ \A i \in 1 .. Len(held) : i \in 1 .. Len(held')
        BY <1>a, <4>2
      <4>4. \A i : IsKey(i)' <=> IsKey(i)
        BY <4>1 DEF IsKey
      <4>5. \A k : KeyIsThere(k) => KeyIsThere(k)'
        BY <2>1, <4>1, <4>2, <4>3, <4>4 DEF KeyIsThere
      <4>6. \A k : k = typed + 1 => \E i \in 1 .. Len(held') : held'[i] = k
        BY <4>2, <4>3
      <4>7. \A k : (\E i \in 1 .. Len(held') : held'[i] = k) => KeyIsThere(k)'
        BY DEF KeyIsThere
      <4> QED
        BY <4>5, <4>6, <4>7
    <3>3. CASE pane # "replaying"
      <4>1. toDaemon' = Append(toDaemon, [kind |-> "key", key |-> typed + 1]) /\ UNCHANGED held
        BY <1>7, <2>3, <3>3 DEF TypeKey, NoKeyLost
      <4>2. [kind |-> "key", key |-> typed + 1] \in Requests
        BY <3>1 DEF Requests, Typings
      <4>a. PICK r \in Requests : r = [kind |-> "key", key |-> typed + 1]
        BY <4>2
      <4>3. /\ Len(toDaemon') = Len(toDaemon) + 1 /\ toDaemon'[Len(toDaemon) + 1] = r
            /\ \A i \in 1 .. Len(toDaemon) : toDaemon'[i] = toDaemon[i]
        BY <4>1, <4>a, RequestSent
      <4>4. Len(toDaemon) <= Len(toDaemon') /\ Len(toDaemon') \in Nat /\ Len(toDaemon) + 1 \in 1 .. Len(toDaemon')
        BY <1>a, <4>3
      <4>5. \A k : KeyIsThere(k) => KeyIsThere(k)'
        BY <2>1, <4>1, <4>3, <4>4, KeyStays
      <4>6. r.kind = "key" /\ r.key = typed + 1
        BY <4>a
      <4>7. \A k : k = typed + 1 =>
                 \E i \in 1 .. Len(toDaemon') : toDaemon'[i].kind = "key" /\ toDaemon'[i].key = k
        BY <4>3, <4>4, <4>6
      <4>8. \A k : (\E i \in 1 .. Len(toDaemon') : toDaemon'[i].kind = "key" /\ toDaemon'[i].key = k)
                       => KeyIsThere(k)'
        BY DEF KeyIsThere, IsKey
      <4> QED
        BY <4>5, <4>7, <4>8
    <3> QED
      BY <3>2, <3>3
  <2>4. \A k \in 1 .. typed + 1 : k \in 1 .. typed \/ k = typed + 1
    BY <1>a
  <2>5. ASSUME opened = 1, losses = 0, NEW k \in 1 .. typed'
        PROVE  KeyIsThere(k)'
    <3>1. CASE k \in 1 .. typed
      BY <2>1, <2>3, <2>5, <3>1 DEF NoKeyLost
    <3>2. CASE k = typed + 1
      BY <2>3, <2>5, <3>2
    <3> QED
      BY <2>1, <2>4, <3>1, <3>2
  <2> QED
    BY <2>1, <2>2, <2>5 DEF NoKeyLost
<1>8. CASE ClosePane
  <2>1. opened # 0 /\ pane' = "none" /\ UNCHANGED << opened, losses, socket >>
    BY <1>a, <1>8 DEF ClosePane
  <2> QED
    BY <2>1 DEF NoKeyLost
<1>9. CASE LoseSocket
  <2>1. losses' = losses + 1 /\ UNCHANGED << opened, typed >>
    BY <1>9 DEF LoseSocket
  <2>2. losses' # 0
    BY <1>a, <2>1
  <2> QED
    BY <2>1, <2>2 DEF NoKeyLost
<1>10. CASE Redial
  <2>1. socket = "closed" /\ UNCHANGED << losses, opened, typed >>
    BY <1>10 DEF Redial, paneVars
  <2> QED
    BY <2>1 DEF NoKeyLost
<1>11. CASE UNCHANGED termVars
  BY <1>c, <1>11 DEF termVars
<1> QED
  BY ONLY [TermNext]_termVars, <1>1, <1>2, <1>3, <1>4, <1>5, <1>6, <1>7, <1>8, <1>9, <1>10, <1>11
  DEF TermNext, DaemonLoop

-----------------------------------------------------------------------------
(* What the terminal promises.                                               *)

LEMMA FramesAre ==
    ASSUME NEW keys \in Seq(1 .. MaxKeys)
    PROVE  /\ Frames(keys) \in Seq(Requests) /\ Len(Frames(keys)) = Len(keys)
           /\ \A i \in 1 .. Len(keys) : Frames(keys)[i] = [kind |-> "key", key |-> keys[i]]
<1>1. Len(keys) \in Nat /\ DOMAIN keys = 1 .. Len(keys)
  OBVIOUS
<1>2. Frames(keys) = [i \in 1 .. Len(keys) |-> [kind |-> "key", key |-> keys[i]]]
  BY <1>1 DEF Frames
<1>3. ASSUME NEW i \in 1 .. Len(keys)
      PROVE  [kind |-> "key", key |-> keys[i]] \in Requests
  <2>1. keys[i] \in 1 .. MaxKeys
    BY ElementOfSeq
  <2> QED
    BY <2>1 DEF Requests, Typings
<1> QED
  BY <1>1, <1>2, <1>3

LEMMA Joined ==
    ASSUME NEW S, NEW s \in Seq(S), NEW t \in Seq(S), NEW u \in Seq(S)
    PROVE  /\ Len(s \o t \o u) = Len(s) + Len(t) + Len(u) /\ DOMAIN (s \o t \o u) = 1 .. Len(s \o t \o u)
           /\ Len(s) \in Nat /\ Len(t) \in Nat /\ Len(u) \in Nat
           /\ \A i \in 1 .. Len(s) : (s \o t \o u)[i] = s[i]
           /\ \A i \in 1 .. Len(t) : (s \o t \o u)[Len(s) + i] = t[i]
           /\ \A i \in 1 .. Len(u) : (s \o t \o u)[Len(s) + Len(t) + i] = u[i]
<1> DEFINE v == s \o t
<1>1. /\ v \in Seq(S) /\ Len(v) = Len(s) + Len(t)
      /\ \A i \in 1 .. Len(s) + Len(t) : v[i] = IF i <= Len(s) THEN s[i] ELSE t[i - Len(s)]
  BY ONLY s \in Seq(S), t \in Seq(S), ConcatProperties
<1> HIDE DEF v
<1>2. /\ v \o u \in Seq(S) /\ Len(v \o u) = Len(v) + Len(u)
      /\ \A i \in 1 .. Len(v) + Len(u) : (v \o u)[i] = IF i <= Len(v) THEN v[i] ELSE u[i - Len(v)]
  <2>1. v \in Seq(S)
    BY <1>1
  <2> QED
    BY ONLY <2>1, u \in Seq(S), ConcatProperties
<1>3. Len(s) \in Nat /\ Len(t) \in Nat /\ Len(u) \in Nat
  OBVIOUS
<1>4. DOMAIN (v \o u) = 1 .. Len(v \o u)
  BY <1>2
<1> PICK a \in Nat : a = Len(s)
  BY <1>3
<1> PICK b \in Nat : b = Len(t)
  BY <1>3
<1>5. \A i \in 1 .. Len(s) : (v \o u)[i] = s[i]
  <2> SUFFICES ASSUME NEW i \in 1 .. a PROVE (v \o u)[i] = s[i]
    OBVIOUS
  <2>1. i \in 1 .. a + b /\ i <= a + b /\ i <= a /\ i \in 1 .. a + b + Len(u)
    BY <1>3
  <2> QED
    BY <1>1, <1>2, <2>1
<1>6. \A i \in 1 .. Len(t) : (v \o u)[Len(s) + i] = t[i]
  <2> SUFFICES ASSUME NEW i \in 1 .. b PROVE (v \o u)[a + i] = t[i]
    OBVIOUS
  <2>1. a + i \in 1 .. a + b /\ a + i <= a + b /\ ~ (a + i <= a) /\ a + i \in 1 .. a + b + Len(u) /\ (a + i) - a = i
    BY <1>3
  <2> QED
    BY <1>1, <1>2, <2>1
<1>7. \A i \in 1 .. Len(u) : (v \o u)[Len(s) + Len(t) + i] = u[i]
  <2> SUFFICES ASSUME NEW i \in 1 .. Len(u) PROVE (v \o u)[a + b + i] = u[i]
    OBVIOUS
  <2>1. a + b + i \in 1 .. a + b + Len(u) /\ ~ (a + b + i <= a + b) /\ (a + b + i) - (a + b) = i
    BY <1>3
  <2> QED
    BY <1>1, <1>2, <2>1
<1> QED
  BY <1>1, <1>2, <1>3, <1>4, <1>5, <1>6, <1>7 DEF v

\* Keys that arrived, are on their way or wait are in order, and all there.
LEMMA KeysShown == TermTyped /\ KeysOK /\ NoKeyLost => KeysKept
<1> SUFFICES ASSUME TermTyped, KeysOK, NoKeyLost PROVE KeysKept
  OBVIOUS
<1> DEFINE all  == Frames(console) \o toDaemon \o Frames(held)
           keys == {i \in DOMAIN all : all[i].kind = "key"}
<1>1. /\ Frames(console) \in Seq(Requests) /\ Len(Frames(console)) = Len(console)
      /\ \A i \in 1 .. Len(console) : Frames(console)[i] = [kind |-> "key", key |-> console[i]]
      /\ Frames(held) \in Seq(Requests) /\ Len(Frames(held)) = Len(held)
      /\ \A i \in 1 .. Len(held) : Frames(held)[i] = [kind |-> "key", key |-> held[i]]
  BY FramesAre DEF TermTyped
<1>2. toDaemon \in Seq(Requests)
  BY DEF TermTyped
<1> PICK a \in Nat : a = Len(console)
  BY KeyNumbers
<1> PICK b \in Nat : b = Len(toDaemon)
  BY KeyNumbers
<1> PICK c \in Nat : c = Len(held)
  BY KeyNumbers
<1>3. /\ DOMAIN all = 1 .. a + b + c
      /\ \A i \in 1 .. a : all[i] = Frames(console)[i]
      /\ \A i \in 1 .. b : all[a + i] = toDaemon[i]
      /\ \A i \in 1 .. c : all[a + b + i] = Frames(held)[i]
  <2> DEFINE f == Frames(console)
             g == Frames(held)
  <2>1. f \in Seq(Requests) /\ g \in Seq(Requests) /\ Len(f) = a /\ Len(g) = c /\ Len(toDaemon) = b
    BY <1>1
  <2>2. all = f \o toDaemon \o g
    OBVIOUS
  <2> HIDE DEF f, g, all
  <2>3. /\ DOMAIN (f \o toDaemon \o g) = 1 .. a + b + c
        /\ \A i \in 1 .. a : (f \o toDaemon \o g)[i] = f[i]
        /\ \A i \in 1 .. b : (f \o toDaemon \o g)[a + i] = toDaemon[i]
        /\ \A i \in 1 .. c : (f \o toDaemon \o g)[a + b + i] = g[i]
    <3>1. /\ Len(f \o toDaemon \o g) = Len(f) + Len(toDaemon) + Len(g)
          /\ DOMAIN (f \o toDaemon \o g) = 1 .. Len(f \o toDaemon \o g)
          /\ \A i \in 1 .. Len(f) : (f \o toDaemon \o g)[i] = f[i]
          /\ \A i \in 1 .. Len(toDaemon) : (f \o toDaemon \o g)[Len(f) + i] = toDaemon[i]
          /\ \A i \in 1 .. Len(g) : (f \o toDaemon \o g)[Len(f) + Len(toDaemon) + i] = g[i]
      <4>1. \A s, t, u \in Seq(Requests) :
              /\ Len(s \o t \o u) = Len(s) + Len(t) + Len(u)
              /\ DOMAIN (s \o t \o u) = 1 .. Len(s \o t \o u)
              /\ \A i \in 1 .. Len(s) : (s \o t \o u)[i] = s[i]
              /\ \A i \in 1 .. Len(t) : (s \o t \o u)[Len(s) + i] = t[i]
              /\ \A i \in 1 .. Len(u) : (s \o t \o u)[Len(s) + Len(t) + i] = u[i]
        BY ONLY Joined
      <4>2. f \in Seq(Requests) /\ toDaemon \in Seq(Requests) /\ g \in Seq(Requests)
        BY <1>2, <2>1
      <4> QED
        BY ONLY <4>1, <4>2
    <3> QED
      BY ONLY <2>1, <3>1
  <2> QED
    BY <2>2, <2>3 DEF f, g
<1> HIDE DEF all
<1>4. /\ \A i \in 1 .. a : all[i].kind = "key" /\ all[i].key = console[i]
      /\ \A i \in 1 .. c : all[a + b + i].kind = "key" /\ all[a + b + i].key = held[i]
  <2>1. /\ \A i \in 1 .. a : all[i] = [kind |-> "key", key |-> console[i]]
        /\ \A i \in 1 .. c : all[a + b + i] = [kind |-> "key", key |-> held[i]]
    BY <1>1, <1>3
  <2>2. ASSUME NEW i \in 1 .. a
        PROVE  all[i].kind = "key" /\ all[i].key = console[i]
    <3>1. all[i] = [kind |-> "key", key |-> console[i]]
      BY <2>1
    <3> QED
      BY <3>1
  <2>3. ASSUME NEW i \in 1 .. c
        PROVE  all[a + b + i].kind = "key" /\ all[a + b + i].key = held[i]
    <3>1. all[a + b + i] = [kind |-> "key", key |-> held[i]]
      BY <2>1
    <3> QED
      BY <3>1
  <2> QED
    BY <2>2, <2>3
<1>5. ASSUME NEW i \in keys
      PROVE  \/ i \in 1 .. a /\ all[i].key = console[i]
             \/ \E n \in 1 .. b : i = a + n /\ IsKey(n) /\ all[i].key = toDaemon[n].key
             \/ \E n \in 1 .. c : i = a + b + n /\ all[i].key = held[n]
  <2>1. i \in 1 .. a + b + c /\ all[i].kind = "key"
    BY <1>3
  <2>2. CASE i \in 1 .. a
    BY <1>4, <2>2
  <2>3. CASE i - a \in 1 .. b
    <3>1. i = a + (i - a)
      BY <2>1
    <3>2. all[i] = toDaemon[i - a]
      BY <1>3, <2>3, <3>1
    <3> QED
      BY <2>1, <2>3, <3>1, <3>2 DEF IsKey
  <2>4. CASE i - a - b \in 1 .. c
    <3>1. i = a + b + (i - a - b)
      BY <2>1
    <3> QED
      BY <1>4, <2>4, <3>1
  <2> QED
    BY <2>1, <2>2, <2>3, <2>4
<1>6. ASSUME NEW i \in keys, NEW j \in keys, i < j
      PROVE  all[i].key < all[j].key
  <2>1. CASE i \in 1 .. a /\ all[i].key = console[i]
    <3>1. CASE j \in 1 .. a /\ all[j].key = console[j]
      BY <1>6, <2>1, <3>1 DEF KeysOK
    <3>2. CASE \E n \in 1 .. b : j = a + n /\ IsKey(n) /\ all[j].key = toDaemon[n].key
      BY <2>1, <3>2 DEF KeysOK
    <3>3. CASE \E n \in 1 .. c : j = a + b + n /\ all[j].key = held[n]
      BY <2>1, <3>3 DEF KeysOK
    <3> QED
      BY <1>5, <3>1, <3>2, <3>3
  <2>2. CASE \E m \in 1 .. b : i = a + m /\ IsKey(m) /\ all[i].key = toDaemon[m].key
    <3> PICK m \in 1 .. b : i = a + m /\ IsKey(m) /\ all[i].key = toDaemon[m].key
      BY <2>2
    <3>1. j \notin 1 .. a
      BY <1>6
    <3>2. ASSUME NEW n \in 1 .. b, j = a + n, IsKey(n), all[j].key = toDaemon[n].key
          PROVE  all[i].key < all[j].key
      <4>1. m < n
        BY <1>6, <3>2
      <4> QED
        BY <3>2, <4>1 DEF KeysOK
    <3>3. CASE \E n \in 1 .. c : j = a + b + n /\ all[j].key = held[n]
      BY <3>3 DEF KeysOK
    <3> QED
      BY <1>5, <3>1, <3>2, <3>3
  <2>3. CASE \E m \in 1 .. c : i = a + b + m /\ all[i].key = held[m]
    <3> PICK m \in 1 .. c : i = a + b + m /\ all[i].key = held[m]
      BY <2>3
    <3>1. j \notin 1 .. a /\ \A n \in 1 .. b : j # a + n
      BY <1>6
    <3>2. ASSUME NEW n \in 1 .. c, j = a + b + n, all[j].key = held[n]
          PROVE  all[i].key < all[j].key
      <4>1. m < n
        BY <1>6, <3>2
      <4> QED
        BY <3>2, <4>1 DEF KeysOK
    <3> QED
      BY <1>5, <3>1, <3>2
  <2> QED
    BY <1>5, <2>1, <2>2, <2>3
<1>7. ASSUME NEW i \in keys
      PROVE  all[i].key \in 1 .. typed
  <2>1. typed \in Nat /\ all[i].key <= typed
    BY <1>5, KeyNumbers DEF KeysOK
  <2>2. all[i].key \in 1 .. MaxKeys
    <3>1. \A n \in 1 .. a : console[n] \in 1 .. MaxKeys
      BY ElementOfSeq DEF TermTyped
    <3>2. \A n \in 1 .. c : held[n] \in 1 .. MaxKeys
      BY ElementOfSeq DEF TermTyped
    <3>3. \A n \in 1 .. b : IsKey(n) => toDaemon[n].key \in 1 .. MaxKeys
      BY Wires DEF IsKey
    <3> QED
      BY <1>5, <3>1, <3>2, <3>3
  <2>3. MaxKeys \in Nat
    BY TerminalAssumption
  <2> QED
    BY <2>1, <2>2, <2>3
<1>8. ASSUME pane # "none", opened = 1, losses = 0, NEW k \in 1 .. typed
      PROVE  \E i \in keys : all[i].key = k
  <2>1. KeyIsThere(k)
    BY <1>8 DEF NoKeyLost
  <2>2. \A i \in 1 .. a : i \in keys
    BY <1>3, <1>4
  <2>3. \A i \in 1 .. b : IsKey(i) => a + i \in keys
    <3>1. \A i \in 1 .. b : a + i \in 1 .. a + b + c
      OBVIOUS
    <3> QED
      BY <1>3, <3>1 DEF IsKey
  <2>4. \A i \in 1 .. c : a + b + i \in keys
    <3>1. \A i \in 1 .. c : a + b + i \in 1 .. a + b + c
      OBVIOUS
    <3> QED
      BY <1>3, <1>4, <3>1
  <2>5. CASE \E i \in 1 .. a : console[i] = k
    BY <1>4, <2>2, <2>5
  <2>6. CASE \E i \in 1 .. b : IsKey(i) /\ toDaemon[i].key = k
    <3> PICK i \in 1 .. b : IsKey(i) /\ toDaemon[i].key = k
      BY <2>6
    <3>1. a + i \in keys
      BY <2>3
    <3>2. all[a + i] = toDaemon[i]
      BY <1>3
    <3> HIDE DEF keys
    <3> QED
      BY <3>1, <3>2
  <2>7. CASE \E i \in 1 .. c : held[i] = k
    BY <1>4, <2>4, <2>7
  <2> QED
    BY <2>1, <2>5, <2>6, <2>7 DEF KeyIsThere
<1>9. pane # "none" /\ opened = 1 /\ losses = 0 => {all[i].key : i \in keys} = 1 .. typed
  BY <1>7, <1>8
<1> QED
  BY <1>6, <1>9 DEF KeysKept, all

LEMMA TermInvStart == TermInit => TermInv
<1> SUFFICES ASSUME TermInit PROVE TermInv
  OBVIOUS
<1>1. TermTyped
  <2>1. /\ MaxBytes \in Nat /\ MaxKeys \in Nat /\ MaxPanes \in Nat /\ MaxTroubles \in Nat
    BY TerminalAssumption
  <2>2. /\ ring \in Seq(Bytes) /\ chunks \in Seq(Bytes \X Bytes) /\ Len(chunks) = 0
        /\ toDaemon \in Seq(Requests) /\ toClient \in Seq(Messages)
        /\ held \in Seq(1 .. MaxKeys) /\ console \in Seq(1 .. MaxKeys)
    BY DEF TermInit
  <2>3. shown \in Screens
    BY <2>1 DEF TermInit, Screens
  <2>4. /\ printed = 0 /\ fwd = 0 /\ oldFwd = 0 /\ losses = 0 /\ reattached = 0
        /\ losses + reattached <= MaxTroubles /\ Len(chunks) <= printed
        /\ 0 \in 0 .. MaxBytes /\ 0 \in 0 .. Len(chunks) + 1 /\ 0 \in 0 .. 2
        /\ 0 \in 0 .. MaxPanes /\ 0 \in 0 .. MaxKeys
    BY <2>1, <2>2 DEF TermInit, Nobody
  <2>5. /\ printed \in 0 .. MaxBytes /\ fwd \in 0 .. Len(chunks) + 1 /\ oldFwd \in 0 .. Len(chunks) + 1
        /\ losses \in Nat /\ reattached \in Nat
    BY <2>4
  <2>6. /\ watchers \in 0 .. 2 /\ handling = "idle" /\ socket = "open" /\ pane = "none"
        /\ opened \in 0 .. MaxPanes /\ disturbed = FALSE /\ typed \in 0 .. MaxKeys
    BY <2>1 DEF TermInit
  <2> QED
    BY ONLY <2>2, <2>3, <2>4, <2>5, <2>6 DEF TermTyped
<1>2. RingIsTail
  BY TerminalAssumption DEF TermInit, RingIsTail
<1>3. ServerOK
  BY DEF TermInit, ServerOK, WatchersCounted
<1>4. ChunksOK /\ AskOK /\ ScreenOK /\ KeysOK /\ NoKeyLost
  BY DEF TermInit, ChunksOK, AskOK, Cleared, ScreenOK, KeysOK, NoKeyLost
<1> QED
  BY <1>1, <1>2, <1>3, <1>4 DEF TermInv

LEMMA TermInvStep == TermInv /\ [TermNext]_termVars => TermInv'
<1> SUFFICES ASSUME TermInv, [TermNext]_termVars PROVE TermInv'
  OBVIOUS
<1>1. TermTyped /\ RingIsTail /\ ServerOK /\ ChunksOK /\ AskOK /\ ScreenOK /\ KeysOK /\ NoKeyLost
  BY DEF TermInv
<1>2. RingIsTail' /\ ServerOK' /\ ChunksOK' /\ AskOK' /\ KeysOK' /\ NoKeyLost'
  BY <1>1, RingStep, ServerStep, ChunksStep, AskStep, KeysStep, NoKeyLostStep
<1>3. CASE AgentPrints \/ DaemonLoop \/ ForwardNew \/ ForwardOld
  <2>1. TermTyped'
    BY <1>1, <1>3, TermTypedDaemon
  <2>2. UNCHANGED disturbed
    BY <1>3 DEF AgentPrints, DaemonLoop, ServeAttach, SwapForwarder, ServeDetach, RouteInput,
                ForwardNew, ForwardOld, paneVars
  <2>3. ScreenOK'
    <3>1. CASE disturbed
      BY <2>2, <3>1 DEF ScreenOK
    <3>2. CASE ~disturbed
      BY <1>1, <1>3, <3>2, ScreenDaemon
    <3> QED
      BY <3>1, <3>2
  <2> QED
    BY <1>2, <2>1, <2>3 DEF TermInv
<1>4. CASE \/ OpenPane \/ SendAttach \/ AttachAgain \/ Receive \/ ReplayWritten \/ TypeKey \/ ClosePane
           \/ LoseSocket \/ Redial \/ UNCHANGED termVars
  <2>1. TermTyped' /\ ScreenOK'
    BY <1>1, <1>4, TermTypedDesktop, ScreenDesktop
  <2> QED
    BY <1>2, <2>1 DEF TermInv
<1> QED
  BY <1>3, <1>4 DEF TermNext

LEMMA TermInvShows == TermInv => TermTypeOK /\ TerminalIsTrue
<1> SUFFICES ASSUME TermInv PROVE TermTypeOK /\ TerminalIsTrue
  OBVIOUS
<1>1. TermTyped /\ RingIsTail /\ ServerOK /\ ScreenOK /\ KeysOK /\ NoKeyLost
  BY DEF TermInv
<1>2. TermTypeOK
  <2>1. {fwd, oldFwd} \subseteq 0 .. MaxBytes + 1
    <3>1. /\ fwd \in 0 .. Len(chunks) + 1 /\ oldFwd \in 0 .. Len(chunks) + 1 /\ Len(chunks) <= printed
          /\ printed \in 0 .. MaxBytes /\ Len(chunks) \in Nat /\ MaxBytes \in Nat
      BY <1>1, TerminalAssumption DEF TermTyped
    <3> QED
      BY <3>1
  <2>2. losses \in 0 .. MaxTroubles /\ reattached \in 0 .. MaxTroubles
    <3>1. losses \in Nat /\ reattached \in Nat /\ losses + reattached <= MaxTroubles /\ MaxTroubles \in Nat
      BY <1>1, TerminalAssumption DEF TermTyped
    <3> QED
      BY <3>1
  <2>3. /\ \A i \in DOMAIN toDaemon : toDaemon[i].kind \in {"attach", "detach", "key"}
        /\ \A i \in DOMAIN toClient : toClient[i].kind \in {"attached", "output", "repaint"}
    BY <1>1, Wires
  <2> QED
    BY <1>1, <2>1, <2>2, <2>3 DEF TermTyped, TermTypeOK
<1>3. ScreenIsTrue
  BY <1>1 DEF ScreenOK, Showing, ScreenIsTrue
<1> QED
  BY <1>1, <1>2, <1>3, KeysShown DEF ServerOK, TerminalIsTrue

\* The variables of the terminal keep their types (Terminal!TermTypeOK): the
\* forwarders stay within the chunks there are, and there are at most two.
THEOREM TerminalTypes == TermSpec => []TermTypeOK
<1>1. TermInv => TermTypeOK
  BY TermInvShows
<1> QED
  BY <1>1, TermInvStart, TermInvStep, PTL DEF TermSpec

\* What goes over a terminal arrives as it was (Terminal!TerminalIsTrue): the
\* ring is the newest output, an attached screen misses nothing and shows nothing
\* twice, watchers are counted, and keys arrive in order and once.
THEOREM TerminalKeepsTrue == TermSpec => []TerminalIsTrue
<1>1. TermInv => TerminalIsTrue
  BY TermInvShows
<1> QED
  BY <1>1, TermInvStart, TermInvStep, PTL DEF TermSpec


-----------------------------------------------------------------------------
(* The phone's queue.                                                        *)

PhoneCalls == [verb : {"fleet", "cards", "resolve"}, answered : BOOLEAN, got : SUBSET PhoneItems]

\* The types, with those of the calls in full, and what the state of the link says.
PhoneTyped ==
    /\ openItems \subseteq PhoneItems /\ onScreen \subseteq PhoneItems /\ index \subseteq PhoneItems
    /\ phoneLink \in {"dialing", "up", "down"} /\ since \subseteq openItems
    /\ line \in Seq(PhoneCalls)
    /\ phoneLink # "up" => line = << >> /\ since = {}
    /\ raises \in 0..MaxRaises /\ phoneDrops \in 0..MaxPhoneDrops /\ taps \in 0..MaxTaps

\* The connection's items still need their dismissal answered to be off the screen.
BeingResolved == {i \in PhoneItems : \E k \in DOMAIN line :
                     line[k].verb = "resolve" /\ ~line[k].answered /\ i \in line[k].got}

\* A fetch that has its fleet has all of the connection's items, an answered
\* dismissal has none of them.
AnswersKnow ==
    \A k \in DOMAIN line :
        /\ line[k].verb = "cards" => since \subseteq line[k].got
        /\ line[k].verb = "fleet" /\ line[k].answered => since \subseteq line[k].got
        /\ line[k].verb = "resolve" /\ line[k].answered => line[k].got \cap since = {}

\* Without a fetch under way the screen has the connection's items, but for those
\* being dismissed, and every one on the screen can be dismissed.
ScreenKnows ==
    phoneLink = "up" /\ Loads = {} =>
        /\ since \subseteq onScreen \cup BeingResolved
        /\ since \cap onScreen \subseteq index

PhoneInv == PhoneTyped /\ AnswersKnow /\ ScreenKnows

\* Every variable keeps its type.
LEMMA PhoneTypedStep ==
    ASSUME PhoneTyped, [PhoneNext]_phoneVars
    PROVE  PhoneTyped'
<1> USE PhoneQueueAssumption DEF PhoneTyped
<1>1. ASSUME NEW i \in PhoneItems, RaiseItem(i)
      PROVE  PhoneTyped'
  BY <1>1 DEF RaiseItem
<1>2. ASSUME NEW i \in PhoneItems, ResolveItem(i)
      PROVE  PhoneTyped'
  BY <1>2 DEF ResolveItem
<1>3. ASSUME NEW i \in PhoneItems, Dismiss(i)
      PROVE  PhoneTyped'
  <2>1. AskResolve(i) \in PhoneCalls /\ AskFleet \in PhoneCalls
    BY DEF AskResolve, AskFleet, PhoneCalls
  <2>2. Append(line, AskResolve(i)) \in Seq(PhoneCalls)
    BY <2>1, AppendProperties
  <2>3. taps' \in 0..MaxTaps /\ UNCHANGED << openItems, phoneLink, raises, phoneDrops, since >>
    BY <1>3 DEF Dismiss
  <2>4. CASE phoneLink = "up" \/ i \notin index
    <3>1. /\ onScreen' = onScreen \ {i} /\ UNCHANGED index
          /\ line' = IF i \in index THEN Append(line, AskResolve(i)) ELSE line
      BY <1>3, <2>4 DEF Dismiss
    <3>2. line' \in Seq(PhoneCalls) /\ (phoneLink # "up" => line' = line)
      BY <2>2, <2>4, <3>1
    <3> QED
      BY <2>3, <3>1, <3>2
  <2>5. CASE ~ (phoneLink = "up" \/ i \notin index)
    <3>1. onScreen' = {} /\ index' = {} /\ UNCHANGED line
      BY <1>3, <2>5 DEF Dismiss, RefreshQueue
    <3> QED
      BY <2>3, <3>1
  <2> QED
    BY <2>4, <2>5
<1>4. CASE Welcomed
  <2>1. << AskFleet >> \in Seq(PhoneCalls)
    BY DEF AskFleet, PhoneCalls
  <2> QED
    BY <1>4, <2>1 DEF Welcomed
<1>5. CASE Refused
  BY <1>5 DEF Refused
<1>6. CASE RetryFires
  BY <1>6 DEF RetryFires
<1>7. CASE LinkDrops
  <2> DEFINE final == CHOOSE k \in Loads : \A m \in Loads : m <= k
             left == IF Has("fleet") \cup Has("resolve") # {} THEN {} ELSE line[final].got
  <2>1. ASSUME line # << >>
        PROVE  left \subseteq PhoneItems
    <3>1. CASE Has("fleet") \cup Has("resolve") # {}
      BY <3>1
    <3>2. CASE Has("fleet") \cup Has("resolve") = {}
      <4>1. /\ DOMAIN line = 1 .. Len(line) /\ Len(line) \in Nat \ {0}
            /\ \A k \in DOMAIN line : line[k] \in PhoneCalls
        BY <2>1, EmptySeq
      <4>2. \A k \in DOMAIN line : line[k].verb = "cards"
        BY <3>2, <4>1 DEF Has, PhoneCalls
      <4>3. Loads = 1 .. Len(line)
        BY <3>2, <4>1, <4>2 DEF Loads, Has
      <4>4. Len(line) \in Loads /\ \A m \in Loads : m <= Len(line)
        BY <4>1, <4>3
      <4>5. final \in Loads
        BY <4>4
      <4>6. line[final] \in PhoneCalls
        BY <4>1, <4>3, <4>5
      <4> HIDE DEF final
      <4> QED
        BY <3>2, <4>6 DEF PhoneCalls
    <3> QED
      BY <3>1, <3>2
  <2>2. << >> \in Seq(PhoneCalls)
    OBVIOUS
  <2>3. IF line = << >> THEN UNCHANGED << onScreen, index >> ELSE onScreen' = left /\ index' = left
    BY <1>7 DEF LinkDrops
  <2>4. onScreen' \subseteq PhoneItems /\ index' \subseteq PhoneItems
    BY <2>1, <2>3
  <2> HIDE DEF left
  <2> QED
    BY <1>7, <2>2, <2>4 DEF LinkDrops
<1>8. CASE AnswersNext
  <2>1. PICK k \in DOMAIN line :
          /\ line' = [line EXCEPT ![k].answered = TRUE,
                                  ![k].got = IF line[k].verb = "fleet" THEN openItems ELSE @]
          /\ openItems' = IF line[k].verb = "resolve" THEN openItems \ line[k].got ELSE openItems
          /\ since' = since \cap openItems'
          /\ UNCHANGED << phoneLink, onScreen, index, raises, phoneDrops, taps >>
    BY <1>8 DEF AnswersNext
  <2>2. k \in 1 .. Len(line) /\ line[k] \in PhoneCalls
    BY <2>1
  <2>3. line' \in Seq(PhoneCalls)
    <3>1. line'[k] \in PhoneCalls
      BY <2>1, <2>2 DEF PhoneCalls
    <3>2. line' \in [1 .. Len(line) -> PhoneCalls]
      BY <2>1, <2>2, <3>1
    <3> QED
      BY <3>2
  <2>4. phoneLink = "up"
    BY <2>2
  <2> QED
    BY <2>1, <2>3, <2>4
<1>9. CASE AnswerArrives
  <2>1. /\ line # << >> /\ Head(line) \in PhoneCalls /\ Tail(line) \in Seq(PhoneCalls)
        /\ UNCHANGED << openItems, phoneLink, raises, phoneDrops, taps, since >>
    BY <1>9 DEF AnswerArrives
  <2>2. Head(line).got \subseteq PhoneItems /\ phoneLink = "up"
    BY <2>1 DEF PhoneCalls
  <2>3. AskCards(Head(line).got) \in PhoneCalls
    BY <2>2 DEF AskCards, PhoneCalls
  <2>4. Append(Tail(line), AskCards(Head(line).got)) \in Seq(PhoneCalls)
    BY <2>1, <2>3, AppendProperties
  <2>5. /\ line' \in {Append(Tail(line), AskCards(Head(line).got)), Tail(line)}
        /\ onScreen' \in {onScreen, Head(line).got}
        /\ index' \in {index, Head(line).got, index \ Head(line).got}
    BY <1>9 DEF AnswerArrives
  <2> QED
    BY <2>1, <2>2, <2>4, <2>5
<1>10. CASE Approved
  <2>1. AskFleet \in PhoneCalls
    BY DEF AskFleet, PhoneCalls
  <2>2. Append(line, AskFleet) \in Seq(PhoneCalls)
    BY <2>1, AppendProperties
  <2> QED
    <3>1. /\ line' = Append(line, AskFleet) /\ taps' \in 0..MaxTaps /\ phoneLink = "up"
          /\ UNCHANGED << openItems, phoneLink, onScreen, index, raises, phoneDrops, since >>
      BY <1>10 DEF Approved, RefreshQueue
    <3> QED
      BY <2>2, <3>1
<1>11. CASE UNCHANGED phoneVars
  BY <1>11 DEF phoneVars
<1> QED
  BY ONLY [PhoneNext]_phoneVars, <1>1, <1>2, <1>3, <1>4, <1>5, <1>6, <1>7, <1>8, <1>9, <1>10, <1>11
  DEF PhoneNext

\* What the answers in flight have stays in step with the connection's items:
\* those are fewer with every resolution, never more.
LEMMA AnswersKnowStep ==
    ASSUME PhoneTyped, AnswersKnow, [PhoneNext]_phoneVars
    PROVE  AnswersKnow'
<1> USE DEF PhoneTyped
<1>a. /\ DOMAIN line = 1 .. Len(line) /\ Len(line) \in Nat
      /\ \A k \in DOMAIN line : line[k] \in PhoneCalls
  OBVIOUS
<1>b. ASSUME UNCHANGED line, since' \subseteq since
      PROVE  AnswersKnow'
  BY <1>b DEF AnswersKnow
<1>c. ASSUME NEW r \in PhoneCalls, ~r.answered, r.verb = "cards" => since \subseteq r.got,
             NEW s \in Seq(PhoneCalls), line' = Append(s, r), UNCHANGED since,
             \A k \in 1 .. Len(s) : \E m \in DOMAIN line : s[k] = line[m]
      PROVE  AnswersKnow'
  <2>1. /\ Len(line') = Len(s) + 1 /\ DOMAIN line' = 1 .. Len(s) + 1 /\ Len(s) \in Nat
        /\ line'[Len(s) + 1] = r
        /\ \A k \in 1 .. Len(s) : line'[k] = s[k]
    BY <1>c, AppendProperties
  <2>2. ASSUME NEW k \in DOMAIN line'
        PROVE  k = Len(s) + 1 \/ k \in 1 .. Len(s)
    BY <2>1
  <2> QED
    BY <1>c, <2>1, <2>2 DEF AnswersKnow
<1>1. ASSUME NEW i \in PhoneItems, RaiseItem(i) \/ ResolveItem(i)
      PROVE  AnswersKnow'
  BY <1>1, <1>b DEF RaiseItem, ResolveItem
<1>3. ASSUME NEW i \in PhoneItems, Dismiss(i)
      PROVE  AnswersKnow'
  <2>1. UNCHANGED since /\ (UNCHANGED line \/ line' = Append(line, AskResolve(i)))
    BY <1>3 DEF Dismiss, RefreshQueue
  <2>2. /\ AskResolve(i) \in PhoneCalls /\ ~AskResolve(i).answered
        /\ AskResolve(i).verb # "cards"
    BY DEF AskResolve, PhoneCalls
  <2>3. CASE UNCHANGED line
    BY <2>1, <2>3, <1>b
  <2>4. CASE line' = Append(line, AskResolve(i))
    BY <1>a, <1>c, <2>1, <2>2, <2>4
  <2> QED
    BY <2>1, <2>3, <2>4
<1>4. CASE Welcomed
  <2>1. line' = << AskFleet >>
    BY <1>4 DEF Welcomed
  <2>2. DOMAIN line' = {1} /\ line'[1] = AskFleet
    BY <2>1
  <2> QED
    BY <2>2 DEF AnswersKnow, AskFleet
<1>5. CASE Refused \/ RetryFires
  BY <1>5, <1>b DEF Refused, RetryFires
<1>7. CASE LinkDrops
  BY <1>7 DEF LinkDrops, AnswersKnow
<1>8. CASE AnswersNext
  <2>1. PICK k \in DOMAIN line :
          /\ line' = [line EXCEPT ![k].answered = TRUE,
                                  ![k].got = IF line[k].verb = "fleet" THEN openItems ELSE @]
          /\ openItems' = IF line[k].verb = "resolve" THEN openItems \ line[k].got ELSE openItems
          /\ since' = since \cap openItems'
    BY <1>8 DEF AnswersNext
  <2>2. /\ DOMAIN line' = DOMAIN line /\ line'[k].verb = line[k].verb
        /\ line'[k].got = IF line[k].verb = "fleet" THEN openItems ELSE line[k].got
        /\ \A m \in DOMAIN line : m # k => line'[m] = line[m]
    BY <1>a, <2>1 DEF PhoneCalls
  <2>3. line[k].verb = "resolve" => line[k].got \cap since' = {}
    BY <2>1
  <2>4. since' \subseteq since /\ since \subseteq openItems
    BY <2>1
  <2>5. ASSUME NEW m \in DOMAIN line, m # k
        PROVE  /\ line'[m].verb = "cards" => since' \subseteq line'[m].got
               /\ line'[m].verb = "fleet" /\ line'[m].answered => since' \subseteq line'[m].got
               /\ line'[m].verb = "resolve" /\ line'[m].answered => line'[m].got \cap since' = {}
    BY <2>2, <2>4, <2>5 DEF AnswersKnow
  <2>6. /\ line'[k].verb = "cards" => since' \subseteq line'[k].got
        /\ line'[k].verb = "fleet" => since' \subseteq line'[k].got
        /\ line'[k].verb = "resolve" => line'[k].got \cap since' = {}
    BY <2>2, <2>3, <2>4 DEF AnswersKnow
  <2> QED
    BY <2>2, <2>5, <2>6 DEF AnswersKnow
<1>9. CASE AnswerArrives
  <2>1. /\ line # << >> /\ Head(line).answered /\ Head(line) = line[1] /\ UNCHANGED since
        /\ 1 \in DOMAIN line /\ line[1] \in PhoneCalls
    BY <1>a, <1>9 DEF AnswerArrives
  <2>2. /\ Tail(line) \in Seq(PhoneCalls) /\ Len(Tail(line)) = Len(line) - 1
        /\ \A k \in 1 .. Len(Tail(line)) : Tail(line)[k] = line[k + 1]
    BY <2>1, HeadTailProperties
  <2>3. ASSUME NEW k \in 1 .. Len(Tail(line))
        PROVE  k + 1 \in DOMAIN line /\ Tail(line)[k] = line[k + 1]
    BY <1>a, <2>2
  <2>4. CASE line' = Tail(line)
    <3>1. \A k \in DOMAIN line' : k + 1 \in DOMAIN line /\ line'[k] = line[k + 1]
      BY <2>2, <2>3, <2>4
    <3> QED
      BY <2>1, <3>1 DEF AnswersKnow
  <2>5. CASE line[1].verb = "fleet"
    <3>1. line' = Append(Tail(line), AskCards(line[1].got))
      BY <1>9, <2>1, <2>5 DEF AnswerArrives
    <3>2. /\ AskCards(line[1].got) \in PhoneCalls /\ ~AskCards(line[1].got).answered
          /\ AskCards(line[1].got).got = line[1].got
      BY <2>1 DEF AskCards, PhoneCalls
    <3>3. since \subseteq line[1].got
      BY <2>1, <2>5 DEF AnswersKnow
    <3> HIDE DEF PhoneTyped
    <3> QED
      BY <1>c, <2>1, <2>2, <2>3, <3>1, <3>2, <3>3
  <2>6. CASE line[1].verb # "fleet"
    <3>1. line' = Tail(line)
      BY <1>9, <2>1, <2>6 DEF AnswerArrives
    <3> QED
      BY <2>4, <3>1
  <2> QED
    BY <2>5, <2>6
<1>10. CASE Approved
  <2>1. AskFleet \in PhoneCalls /\ ~AskFleet.answered /\ AskFleet.verb # "cards"
    BY DEF AskFleet, PhoneCalls
  <2>2. line' = Append(line, AskFleet) /\ UNCHANGED since
    BY <1>10 DEF Approved, RefreshQueue
  <2> QED
    BY <1>a, <1>c, <2>1, <2>2
<1>11. CASE UNCHANGED phoneVars
  BY <1>11, <1>b DEF phoneVars
<1> QED
  BY ONLY [PhoneNext]_phoneVars, <1>1, <1>3, <1>4, <1>5, <1>7, <1>8, <1>9, <1>10, <1>11
  DEF PhoneNext

\* A step that leaves the screen, the index and the requests as they are.
LEMMA SameScreen ==
    ASSUME ScreenKnows, UNCHANGED << phoneLink, onScreen, index, line >>, since' \subseteq since
    PROVE  ScreenKnows'
<1>1. UNCHANGED << Loads, BeingResolved >>
  BY DEF Loads, Has, BeingResolved
<1> QED
  BY <1>1 DEF ScreenKnows

\* A dismissal in flight covers for the item it took off the screen, and a fetch
\* that ends shows everything it has to.
LEMMA ScreenKnowsStep ==
    ASSUME PhoneTyped, AnswersKnow, ScreenKnows, [PhoneNext]_phoneVars
    PROVE  ScreenKnows'
<1> USE DEF PhoneTyped
<1>a. /\ DOMAIN line = 1 .. Len(line) /\ Len(line) \in Nat
      /\ \A k \in DOMAIN line : line[k] \in PhoneCalls
  OBVIOUS
<1>1. ASSUME NEW i \in PhoneItems, RaiseItem(i) \/ ResolveItem(i)
      PROVE  ScreenKnows'
  BY <1>1, SameScreen DEF RaiseItem, ResolveItem
<1>3. ASSUME NEW i \in PhoneItems, Dismiss(i)
      PROVE  ScreenKnows'
  <2>1. CASE phoneLink # "up"
    <3>1. phoneLink' # "up"
      BY <1>3, <2>1 DEF Dismiss
    <3> QED
      BY <3>1 DEF ScreenKnows
  <2>2. CASE phoneLink = "up" /\ i \notin index
    <3>1. /\ onScreen' = onScreen \ {i} /\ i \in onScreen
          /\ UNCHANGED << index, line, since, phoneLink >>
      BY <1>3, <2>2 DEF Dismiss
    <3>2. UNCHANGED << Loads, BeingResolved >>
      BY <3>1 DEF Loads, Has, BeingResolved
    <3>3. Loads = {} => i \notin since
      BY <2>2, <3>1 DEF ScreenKnows
    <3> QED
      BY <2>2, <3>1, <3>2, <3>3 DEF ScreenKnows
  <2>3. CASE phoneLink = "up" /\ i \in index
    <3>1. /\ onScreen' = onScreen \ {i} /\ line' = Append(line, AskResolve(i))
          /\ UNCHANGED << index, since, phoneLink >>
      BY <1>3, <2>3 DEF Dismiss
    <3>2. AskResolve(i) \in PhoneCalls
      BY DEF AskResolve, PhoneCalls
    <3>3. /\ DOMAIN line' = 1 .. Len(line) + 1 /\ line'[Len(line) + 1] = AskResolve(i)
          /\ \A k \in DOMAIN line : line'[k] = line[k]
      BY <1>a, <3>1, <3>2, AppendProperties
    <3>4. ASSUME Loads' = {}
          PROVE  Loads = {}
      BY <1>a, <3>3, <3>4 DEF Loads, Has
    <3>5. BeingResolved \cup {i} \subseteq BeingResolved'
      <4>1. Len(line) + 1 \in DOMAIN line' /\ DOMAIN line \subseteq DOMAIN line'
        BY <1>a, <3>3
      <4>2. /\ line'[Len(line) + 1].verb = "resolve" /\ ~line'[Len(line) + 1].answered
            /\ i \in line'[Len(line) + 1].got
        BY <3>3 DEF AskResolve
      <4>3. i \in BeingResolved'
        BY <4>1, <4>2 DEF BeingResolved
      <4>4. BeingResolved \subseteq BeingResolved'
        BY <3>3, <4>1 DEF BeingResolved
      <4> QED
        BY <4>3, <4>4
    <3> QED
      BY <2>3, <3>1, <3>4, <3>5 DEF ScreenKnows
  <2> QED
    BY <2>1, <2>2, <2>3
<1>4. CASE Welcomed
  <2>1. line' = << AskFleet >>
    BY <1>4 DEF Welcomed
  <2>2. 1 \in DOMAIN line' /\ line'[1].verb = "fleet"
    BY <2>1 DEF AskFleet
  <2>3. Loads' # {}
    BY <2>2 DEF Loads, Has
  <2> QED
    BY <2>3 DEF ScreenKnows
<1>5. CASE Refused \/ RetryFires \/ LinkDrops
  <2>1. phoneLink' # "up"
    BY <1>5 DEF Refused, RetryFires, LinkDrops
  <2> QED
    BY <2>1 DEF ScreenKnows
<1>8. CASE AnswersNext
  <2>1. PICK k \in DOMAIN line :
          /\ line' = [line EXCEPT ![k].answered = TRUE,
                                  ![k].got = IF line[k].verb = "fleet" THEN openItems ELSE @]
          /\ openItems' = IF line[k].verb = "resolve" THEN openItems \ line[k].got ELSE openItems
          /\ since' = since \cap openItems'
          /\ UNCHANGED << phoneLink, onScreen, index >>
    BY <1>8 DEF AnswersNext
  <2>2. /\ DOMAIN line' = DOMAIN line /\ line'[k].verb = line[k].verb
        /\ \A m \in DOMAIN line : m # k => line'[m] = line[m]
    BY <1>a, <2>1 DEF PhoneCalls
  <2>3. Loads' = Loads
    BY <2>2 DEF Loads, Has
  <2>4. \A i \in BeingResolved : i \in BeingResolved' \/ i \notin since'
    <3> SUFFICES ASSUME NEW i \in BeingResolved
                 PROVE  i \in BeingResolved' \/ i \notin since'
      OBVIOUS
    <3>1. PICK m \in DOMAIN line :
            line[m].verb = "resolve" /\ ~line[m].answered /\ i \in line[m].got
      BY DEF BeingResolved
    <3>2. i \in PhoneItems
      BY DEF BeingResolved
    <3>3. CASE m = k
      BY <2>1, <3>1, <3>3
    <3>4. CASE m # k
      BY <2>2, <3>1, <3>2, <3>4 DEF BeingResolved
    <3> QED
      BY <3>3, <3>4
  <2>5. since' \subseteq since
    BY <2>1
  <2> QED
    BY <2>1, <2>3, <2>4, <2>5 DEF ScreenKnows
<1>9. CASE AnswerArrives
  <2>1. /\ line # << >> /\ Head(line).answered /\ Head(line) = line[1]
        /\ UNCHANGED << since, phoneLink >>
        /\ 1 \in DOMAIN line /\ line[1] \in PhoneCalls
    BY <1>a, <1>9 DEF AnswerArrives
  <2>2. /\ Tail(line) \in Seq(PhoneCalls) /\ Len(Tail(line)) = Len(line) - 1
        /\ \A k \in 1 .. Len(Tail(line)) : Tail(line)[k] = line[k + 1]
    BY <2>1, HeadTailProperties
  <2>3. CASE line[1].verb = "fleet"
    <3>1. line' = Append(Tail(line), AskCards(line[1].got))
      BY <1>9, <2>1, <2>3 DEF AnswerArrives
    <3>2. AskCards(line[1].got) \in PhoneCalls
      BY <2>1 DEF AskCards, PhoneCalls
    <3>3. Len(line) \in DOMAIN line' /\ line'[Len(line)] = AskCards(line[1].got)
      BY <1>a, <2>1, <2>2, <3>1, <3>2, AppendProperties
    <3>4. Loads' # {}
      BY <3>3 DEF Loads, Has, AskCards
    <3> QED
      BY <3>4 DEF ScreenKnows
  <2>4. CASE line[1].verb = "cards"
    <3>1. onScreen' = line[1].got /\ index' = line[1].got
      BY <1>9, <2>1, <2>4 DEF AnswerArrives
    <3>2. since \subseteq line[1].got
      BY <2>1, <2>4 DEF AnswersKnow
    <3> QED
      BY <2>1, <3>1, <3>2 DEF ScreenKnows
  <2>5. CASE line[1].verb = "resolve"
    <3>1. line' = Tail(line) /\ index' = index \ line[1].got /\ UNCHANGED onScreen
      BY <1>9, <2>1, <2>5 DEF AnswerArrives
    <3>2. line[1].got \cap since = {}
      BY <2>1, <2>5 DEF AnswersKnow
    <3>3. ASSUME NEW k \in DOMAIN line, k # 1
          PROVE  k - 1 \in DOMAIN line' /\ line'[k - 1] = line[k]
      <4>1. k - 1 \in 1 .. Len(Tail(line)) /\ (k - 1) + 1 = k
        BY <1>a, <2>2, <3>3
      <4> QED
        BY <2>2, <3>1, <4>1
    <3>4. ASSUME Loads' = {}
          PROVE  Loads = {}
      <4>1. ASSUME NEW k \in Loads
            PROVE  FALSE
        <5>1. k \in DOMAIN line /\ line[k].verb \in {"fleet", "cards"}
          BY <4>1 DEF Loads, Has
        <5>2. k # 1
          BY <2>5, <5>1
        <5> QED
          BY <3>3, <3>4, <5>1, <5>2 DEF Loads, Has
      <4> QED
        BY <4>1
    <3>5. BeingResolved \subseteq BeingResolved'
      <4> SUFFICES ASSUME NEW i \in BeingResolved
                   PROVE  i \in BeingResolved'
        OBVIOUS
      <4>1. PICK m \in DOMAIN line :
              line[m].verb = "resolve" /\ ~line[m].answered /\ i \in line[m].got
        BY DEF BeingResolved
      <4>2. m # 1 /\ i \in PhoneItems
        BY <2>1, <4>1 DEF BeingResolved
      <4> QED
        BY <3>3, <4>1, <4>2 DEF BeingResolved
    <3> QED
      BY <2>1, <3>1, <3>2, <3>4, <3>5 DEF ScreenKnows
  <2> QED
    BY <2>1, <2>3, <2>4, <2>5 DEF PhoneCalls
<1>10. CASE Approved
  <2>1. AskFleet \in PhoneCalls
    BY DEF AskFleet, PhoneCalls
  <2>2. line' = Append(line, AskFleet)
    BY <1>10 DEF Approved, RefreshQueue
  <2>3. Len(line) + 1 \in DOMAIN line' /\ line'[Len(line) + 1] = AskFleet
    BY <1>a, <2>1, <2>2, AppendProperties
  <2>4. Loads' # {}
    BY <2>3 DEF Loads, Has, AskFleet
  <2> QED
    BY <2>4 DEF ScreenKnows
<1>11. CASE UNCHANGED phoneVars
  BY <1>11, SameScreen DEF phoneVars
<1> QED
  BY ONLY [PhoneNext]_phoneVars, <1>1, <1>3, <1>4, <1>5, <1>8, <1>9, <1>10, <1>11
  DEF PhoneNext

LEMMA PhoneInvStart == PhoneInit => PhoneInv
<1> SUFFICES ASSUME PhoneInit PROVE PhoneInv
  OBVIOUS
<1>1. PhoneTyped
  BY PhoneQueueAssumption DEF PhoneInit, PhoneTyped
<1>2. AnswersKnow
  BY DEF PhoneInit, AnswersKnow
<1>3. ScreenKnows
  BY DEF PhoneInit, ScreenKnows
<1> QED
  BY <1>1, <1>2, <1>3 DEF PhoneInv

LEMMA PhoneInvStep == PhoneInv /\ [PhoneNext]_phoneVars => PhoneInv'
BY PhoneTypedStep, AnswersKnowStep, ScreenKnowsStep DEF PhoneInv

LEMMA PhoneInvShows == PhoneInv => PhoneTypeOK /\ QueueOfThisConnection
<1> SUFFICES ASSUME PhoneInv PROVE PhoneTypeOK /\ QueueOfThisConnection
  OBVIOUS
<1>1. PhoneTypeOK
  <2>1. PhoneTyped
    BY DEF PhoneInv
  <2>2. ASSUME NEW k \in DOMAIN line
        PROVE  line[k].verb \in {"fleet", "cards", "resolve"} /\ line[k].got \subseteq PhoneItems
    <3>1. line[k] \in PhoneCalls
      BY <2>1 DEF PhoneTyped
    <3> QED
      BY <3>1 DEF PhoneCalls
  <2>3. \A k \in DOMAIN line :
          line[k].verb \in {"fleet", "cards", "resolve"} /\ line[k].got \subseteq PhoneItems
    BY <2>2
  <2> QED
    BY <2>1, <2>3 DEF PhoneTyped, PhoneTypeOK
<1>2. ASSUME line = << >>
      PROVE  Loads = {} /\ BeingResolved = {}
  BY <1>2 DEF Loads, Has, BeingResolved
<1> QED
  BY <1>1, <1>2 DEF PhoneInv, ScreenKnows, QueueOfThisConnection

\* The variables of the phone's queue keep their types (PhoneQueue!PhoneTypeOK):
\* what is in flight belongs to the connection that is up.
THEOREM PhoneTypes == PhoneSpec => []PhoneTypeOK
<1>1. PhoneInv => PhoneTypeOK
  BY PhoneInvShows
<1> QED
  BY <1>1, PhoneInvStart, PhoneInvStep, PTL DEF PhoneSpec

\* With nothing in flight, what was open when the connection came up and still
\* is, is on the phone's screen (PhoneQueue!QueueOfThisConnection).
THEOREM PhoneShowsItsConnection == PhoneSpec => []QueueOfThisConnection
<1>1. PhoneInv => QueueOfThisConnection
  BY PhoneInvShows
<1> QED
  BY <1>1, PhoneInvStart, PhoneInvStep, PTL DEF PhoneSpec

-----------------------------------------------------------------------------
(* The four parts side by side.                                              *)

\* The parts share no variable: the invariant of the whole is that of each.
MCInv == IInv /\ BoardInv /\ TermInv /\ PhoneInv

LEMMA MCInvStart == MCInit => MCInv
  BY IInvStart, BoardInvStart, TermInvStart, PhoneInvStart DEF MCInit, MCInv

\* A step of one part leaves the variables of the others alone.
LEMMA OnePartMoves ==
    ASSUME [MCNext]_<< part, parts >>
    PROVE  [Next]_vars /\ [BoardNext]_boardVars /\ [TermNext]_termVars /\ [PhoneNext]_phoneVars
<1>1. ASSUME EventsPart
      PROVE  Next /\ UNCHANGED << boardVars, termVars, phoneVars >>
  BY <1>1 DEF EventsPart
<1>2. ASSUME BoardPart
      PROVE  BoardNext /\ UNCHANGED << vars, termVars, phoneVars >>
  BY <1>2 DEF BoardPart
<1>3. ASSUME TerminalPart
      PROVE  TermNext /\ UNCHANGED << vars, boardVars, phoneVars >>
  BY <1>3 DEF TerminalPart
<1>4. ASSUME PhonePart
      PROVE  PhoneNext /\ UNCHANGED << vars, boardVars, termVars >>
  BY <1>4 DEF PhonePart
<1>5. ASSUME UNCHANGED << part, parts >>
      PROVE  UNCHANGED << vars, boardVars, termVars, phoneVars >>
  BY <1>5 DEF parts
<1> QED
  BY <1>1, <1>2, <1>3, <1>4, <1>5 DEF MCNext

LEMMA MCInvStep == MCInv /\ [MCNext]_<< part, parts >> => MCInv'
  BY OnePartMoves, IInvStep, BoardInvStep, TermInvStep, PhoneInvStep DEF MCInv

\* Every variable of the four parts keeps its type (MC_Desktop!DesktopTypesOK).
THEOREM DesktopTypes == MCSpec => []DesktopTypesOK
<1>1. MCInv => DesktopTypesOK
  BY BoardInvShows, TermInvShows, PhoneInvShows DEF MCInv, IInv, DesktopTypesOK
<1> QED
  BY <1>1, MCInvStart, MCInvStep, PTL DEF MCSpec

\* With nothing under way, the board's lanes, its Needs You queue and the phone's
\* queue are what the daemon has (MC_Desktop!ViewsAgree).
THEOREM ViewsKeepAgreeing == MCSpec => []ViewsAgree
<1>1. MCInv => ViewsAgree
  BY BoardInvShows, PhoneInvShows DEF MCInv, ViewsAgree
<1> QED
  BY <1>1, MCInvStart, MCInvStep, PTL DEF MCSpec
==============================================================================
