------------------------------ MODULE Board_proofs ------------------------------
(******************************************************************************)
(* Proofs about the desktop's board, for any cards, lanes and item keys and   *)
(* any number of changes, drags and upsets.                                   *)
(*                                                                            *)
(* Whether what the board shows is right is a question about everything on    *)
(* the way to it: requests, the one in the daemon's hand, the answers and     *)
(* events on the socket, the events not forwarded yet.  BoardInv has nine     *)
(* parts.  The types (BoardTyped).  The last event of a lane or an item       *)
(* tells how it stands (EventsTell), and an event on its way has happened     *)
(* (EventsHappened).  What the phases of boot and link exclude (PhasesOK).    *)
(* A fleet comes after cards (PairsOK), with only events between              *)
(* (SnapshotsWhole).  Every move under way has its pending entry, and ids     *)
(* ascend along the way (MovesOK).  And of every lane and item which was      *)
(* not missed: of the sources on their way to the screen the last is right    *)
(* (LanesOK, ItemsOK), so that when nothing is on its way the screen is.      *)
(******************************************************************************)
EXTENDS BoardView, SequenceTheorems, WellFoundedInduction, TLAPS

MoveRequests == [kind : {"move"}, id : Nat, card : BoardCards, to : BoardLanes]
BoardRequests == MoveRequests \cup [kind : {"cards", "fleet", "subscribe"}]
BoardAnswers ==
    [kind : {"moved"}, id : Nat, card : BoardCards, lane : BoardLanes]
        \cup [kind : {"refused"}, id : Nat]
        \cup [kind : {"cards"}, lanes : Boards] \cup [kind : {"fleet"}, items : SUBSET Items]
        \cup [kind : {"subscribed"}]
BoardEvents ==
    [type : {"moved"}, card : BoardCards, to : BoardLanes]
        \cup [type : {"raised", "resolved"}, card : BoardCards, key : Keys]
Hands == {Nothing} \cup MoveRequests \cup [kind : {"cards", "fleet"}]
             \cup [kind : {"answer"}, answer : BoardAnswers]
Announcements == [kind : {"event"}, event : BoardEvents]
Deliveries == BoardAnswers \cup Announcements

\* The types, with those of requests, answers and events in full.
BoardTyped ==
    /\ lane \in Boards /\ open \subseteq Items /\ history \in Seq(BoardEvents)
    /\ changes \in 0 .. MaxChanges /\ subscribed \in BOOLEAN /\ queue \in Seq(BoardEvents)
    /\ serving \in Hands
    /\ reqs \in Seq(BoardRequests) /\ out \in Seq(Deliveries)
    /\ link \in {"down", "up"} /\ upsets \in 0 .. MaxUpsets
    /\ boot \in {"connect", "load", "up"} /\ source \in {"none", "live", "empty"}
    /\ board \in Boards \cup {NoBoard} /\ half \in Boards \cup {NoBoard}
    /\ needs \subseteq Items /\ missed \subseteq BoardCards
    /\ moving \subseteq [id : 1 .. moves, card : BoardCards, prev : BoardLanes]
    /\ moves \in 0 .. MaxMoves /\ fresh \in BOOLEAN

\* What an event is about, and whether it still tells how that stands.
Subjects == [what : {"lane"}, of : BoardCards] \cup [what : {"item"}, of : Items]
About(e) == IF e.type = "moved" THEN [what |-> "lane", of |-> e.card]
                                ELSE [what |-> "item", of |-> << e.card, e.key >>]
Tells(e) == CASE e.type = "moved"    -> lane[e.card] = e.to
              [] e.type = "raised"   -> << e.card, e.key >> \in open
              [] e.type = "resolved" -> << e.card, e.key >> \notin open

InHistory(x) == \E n \in 1 .. Len(history) : About(history[n]) = x
InQueue(x)   == \E n \in 1 .. Len(queue) : About(queue[n]) = x
IsEventOf(m, x) == m.kind = "event" /\ About(m.event) = x
InOut(x)     == \E n \in 1 .. Len(out) : IsEventOf(out[n], x)

\* The last event of a subject tells how it stands: of all events, of those in
\* the queue, and of those on the socket when the queue has none.
EventsTell ==
    /\ \A n \in 1 .. Len(history) :
          Tells(history[n]) \/ \E k \in n + 1 .. Len(history) : About(history[k]) = About(history[n])
    /\ \A n \in 1 .. Len(queue) :
          Tells(queue[n]) \/ \E k \in n + 1 .. Len(queue) : About(queue[k]) = About(queue[n])
    /\ \A n \in 1 .. Len(out) : out[n].kind = "event" =>
          \/ Tells(out[n].event)
          \/ \E k \in n + 1 .. Len(out) : IsEventOf(out[k], About(out[n].event))
          \/ InQueue(About(out[n].event))

\* What is on its way has happened, and only what was raised is open or resolved.
EventsHappened ==
    /\ \A n \in 1 .. Len(queue) : InHistory(About(queue[n]))
    /\ \A n \in 1 .. Len(out) : out[n].kind = "event" => InHistory(About(out[n].event))
    /\ \A n \in 1 .. Len(history) : history[n].type # "moved" => About(history[n]).of \in Raised
    /\ open \subseteq Raised

\* Without a connection nothing is under way; before the first snapshot is shown
\* nothing but that is; the request for events is the first after it.
LoadingOK ==
    /\ \A n \in 1 .. Len(reqs) : reqs[n].kind \in {"cards", "fleet"} /\ (reqs[n].kind = "fleet" => n = Len(reqs))
    /\ serving.kind \in {"nothing", "cards", "fleet", "answer"}
    /\ serving.kind = "answer" => serving.answer.kind \in {"cards", "fleet"}
    /\ serving.kind = "fleet" => reqs = << >>
    /\ serving.kind = "answer" /\ serving.answer.kind = "fleet" => reqs = << >>
    /\ \A n \in 1 .. Len(out) :
          /\ out[n].kind \in {"cards", "fleet"}
          /\ out[n].kind = "fleet" => n = Len(out) /\ serving = Nothing /\ reqs = << >>

SubscribesFirst ==
    \A n \in 1 .. Len(reqs) : reqs[n].kind = "subscribe" =>
        n = 1 /\ serving = Nothing /\ out = << >> /\ half = NoBoard /\ ~subscribed /\ boot = "up"

PhasesOK ==
    /\ link = "down" => /\ reqs = << >> /\ out = << >> /\ queue = << >> /\ serving = Nothing
                        /\ half = NoBoard /\ moving = {} /\ ~subscribed /\ boot # "load"
    /\ boot = "connect" => link = "down"
    /\ boot \in {"connect", "load"} => board = NoBoard /\ moving = {} /\ ~subscribed
    /\ boot = "load" => LoadingOK
    /\ board = NoBoard => moving = {}
    /\ source # "live" => board = NoBoard /\ reqs = << >> /\ serving = Nothing /\ out = << >> /\ half = NoBoard
                          /\ boot # "load" /\ ~subscribed
    /\ ~subscribed => queue = << >> /\ \A n \in 1 .. Len(out) : out[n].kind # "event"
    /\ SubscribesFirst

\* A snapshot's fleet comes behind its cards.
FleetIn(q, m, n) == \E k \in m .. n : q[k].kind = "fleet"
CardsBefore(q, n) == \E m \in 1 .. n : q[m].kind = "cards" /\ ~ FleetIn(q, m + 1, n)
NoFleet(q, n)     == ~ FleetIn(q, 1, n)

HandHas(kind) == serving.kind = kind \/ (serving.kind = "answer" /\ serving.answer.kind = kind)

CardsCome == CardsBefore(out, Len(out)) \/ (half # NoBoard /\ NoFleet(out, Len(out)))

PairsOK ==
    /\ \A n \in 1 .. Len(out) : out[n].kind = "fleet" =>
          CardsBefore(out, n - 1) \/ (half # NoBoard /\ NoFleet(out, n - 1))
    /\ HandHas("fleet") => CardsCome
    /\ \A n \in 1 .. Len(reqs) : reqs[n].kind = "fleet" =>
          \/ CardsBefore(reqs, n - 1)
          \/ NoFleet(reqs, n - 1) /\ (HandHas("cards") \/ (~HandHas("fleet") /\ CardsCome))

\* Moves without an answer: the pending entries have the ids of the requests and
\* answers under way, which ascend.
IsMove(m)  == m.kind \in {"move", "moved", "refused"}
Entry(m)   == \E p \in moving : p.id = m.id /\ (m.kind # "refused" => p.card = m.card)
HandMoves  == serving.kind = "move" \/ (serving.kind = "answer" /\ IsMove(serving.answer))
HandId     == IF serving.kind = "move" THEN serving.id ELSE serving.answer.id

MovesOK ==
    /\ \A p, q \in moving : p.id = q.id => p = q
    /\ \A n \in 1 .. Len(out) : IsMove(out[n]) =>
          /\ Entry(out[n])
          /\ \A k \in n + 1 .. Len(out) : IsMove(out[k]) => out[n].id < out[k].id
          /\ HandMoves => out[n].id < HandId
          /\ \A k \in 1 .. Len(reqs) : IsMove(reqs[k]) => out[n].id < reqs[k].id
    /\ serving.kind = "move" => Entry(serving)
    /\ serving.kind = "answer" /\ IsMove(serving.answer) => Entry(serving.answer)
    /\ HandMoves => \A k \in 1 .. Len(reqs) : IsMove(reqs[k]) => HandId < reqs[k].id
    /\ \A n \in 1 .. Len(reqs) : IsMove(reqs[n]) =>
          /\ Entry(reqs[n])
          /\ \A k \in n + 1 .. Len(reqs) : IsMove(reqs[k]) => reqs[n].id < reqs[k].id

\* The request or answer is about the card's lane: a source of what is shown.
MoveOf(m, c) == IsMove(m) /\ \E p \in moving : p.id = m.id /\ p.card = c
News(m, c)   == m.kind = "cards" \/ MoveOf(m, c)
HandNews(c)  == News(serving, c) \/ (serving.kind = "answer" /\ News(serving.answer, c))
ReqNews(n, c) == \E k \in n .. Len(reqs) : News(reqs[k], c)
OutNews(n, c) == (\E k \in n .. Len(out) : News(out[k], c)) \/ HandNews(c) \/ ReqNews(1, c)

\* The replay of the log is to come, and tells of the subject.
Untold(x) == WillSubscribe /\ InHistory(x)
LaneOf(c) == [what |-> "lane", of |-> c]
ItemOf(i) == [what |-> "item", of |-> i]

\* A move asked for and not made, or refused, leads back to where the card is.
LoneMove(m, c) == \A p \in moving : p.card = c => p.id = m.id
Restores(m, c) == \A p \in moving : p.card = c => p.id = m.id /\ p.prev = lane[c]

RightAnswer(m, c) ==
    CASE m.kind = "cards"   -> m.lanes[c] = lane[c] \/ Untold(LaneOf(c))
      [] m.kind = "moved"   -> LoneMove(m, c) /\ m.lane = lane[c]
      [] m.kind = "refused" -> Restores(m, c)

\* Of a card that was not missed: whatever source of its lane is the last is right.
LaneOK(c) ==
    /\ \A n \in 1 .. Len(reqs) : MoveOf(reqs[n], c) => Restores(reqs[n], c) \/ ReqNews(n + 1, c)
    /\ serving.kind = "move" /\ MoveOf(serving, c) => LoneMove(serving, c) \/ ReqNews(1, c)
    /\ serving.kind = "answer" /\ News(serving.answer, c) => RightAnswer(serving.answer, c) \/ ReqNews(1, c)
    /\ \A n \in 1 .. Len(out) : News(out[n], c) => RightAnswer(out[n], c) \/ OutNews(n + 1, c)
    /\ half # NoBoard => half[c] = lane[c] \/ Untold(LaneOf(c)) \/ OutNews(1, c)
    /\ board # NoBoard => \/ board[c] = lane[c] \/ Untold(LaneOf(c)) \/ OutNews(1, c) \/ half # NoBoard
                          \/ InOut(LaneOf(c)) \/ InQueue(LaneOf(c))

LanesOK == \A c \in BoardCards \ missed : LaneOK(c)

\* The same of an item whose key only its card has used.
Lone(i) == \A j \in Raised : j[2] = i[2] => j[1] = i[1]
ReqFleet == \E k \in 1 .. Len(reqs) : reqs[k].kind = "fleet"
OutFleet(n) == (\E k \in n .. Len(out) : out[k].kind = "fleet") \/ HandHas("fleet") \/ ReqFleet
RightItems(s, i) == (i \in s <=> i \in open) \/ Untold(ItemOf(i))

ItemOK(i) ==
    /\ serving.kind = "answer" /\ serving.answer.kind = "fleet" =>
          RightItems(serving.answer.items, i) \/ ReqFleet
    /\ \A n \in 1 .. Len(out) : out[n].kind = "fleet" => RightItems(out[n].items, i) \/ OutFleet(n + 1)
    /\ board # NoBoard => \/ RightItems(needs, i) \/ OutFleet(1)
                          \/ InOut(ItemOf(i)) \/ InQueue(ItemOf(i))

ItemsOK == \A i \in Items : i[1] \notin missed /\ Lone(i) => ItemOK(i)

\* Sequences from which the first element is taken, or to which one is added.
LEMMA FirstTaken ==
    ASSUME NEW S, NEW q \in Seq(S), q # << >>
    PROVE  /\ Len(q) \in Nat \ {0} /\ Head(q) = q[1] /\ q[1] \in S /\ 1 \in 1 .. Len(q)
           /\ Tail(q) \in Seq(S) /\ Len(Tail(q)) = Len(q) - 1
           /\ \A n \in 1 .. Len(Tail(q)) : n + 1 \in 1 .. Len(q) /\ Tail(q)[n] = q[n + 1]
           /\ \A n \in 1 .. Len(q) : n = 1 \/ (n - 1 \in 1 .. Len(Tail(q)) /\ Tail(q)[n - 1] = q[n])
<1>1. Len(q) \in Nat \ {0}
  BY EmptySeq
<1>2. /\ Head(q) = q[1] /\ q[1] \in S /\ Tail(q) \in Seq(S) /\ Len(Tail(q)) = Len(q) - 1
      /\ \A n \in 1 .. Len(q) - 1 : Tail(q)[n] = q[n + 1]
  BY <1>1, HeadTailProperties, ElementOfSeq
<1>3. /\ 1 \in 1 .. Len(q) /\ \A n \in 1 .. Len(q) - 1 : n + 1 \in 1 .. Len(q)
      /\ \A n \in 1 .. Len(q) : n = 1 \/ (n - 1 \in 1 .. Len(q) - 1 /\ (n - 1) + 1 = n)
  BY <1>1
<1> QED
  BY <1>1, <1>2, <1>3

LEMMA OneAdded ==
    ASSUME NEW S, NEW q \in Seq(S), NEW x \in S
    PROVE  /\ Len(q) \in Nat /\ Append(q, x) \in Seq(S) /\ Len(Append(q, x)) = Len(q) + 1
           /\ Append(q, x)[Len(q) + 1] = x
           /\ \A n \in 1 .. Len(q) : Append(q, x)[n] = q[n]
BY AppendProperties

LEMMA SnapshotAdded ==
    ASSUME NEW q \in Seq(BoardRequests)
    PROVE  /\ Len(q) \in Nat /\ q \o Snapshot \in Seq(BoardRequests) /\ Len(q \o Snapshot) = Len(q) + 2
           /\ (q \o Snapshot)[Len(q) + 1] = [kind |-> "cards"]
           /\ (q \o Snapshot)[Len(q) + 2] = [kind |-> "fleet"]
           /\ \A n \in 1 .. Len(q) : (q \o Snapshot)[n] = q[n]
<1>1. /\ [kind |-> "cards"] \in BoardRequests /\ [kind |-> "fleet"] \in BoardRequests
  BY DEF BoardRequests
<1>2. /\ Snapshot \in Seq(BoardRequests) /\ Len(Snapshot) = 2
      /\ Snapshot[1] = [kind |-> "cards"] /\ Snapshot[2] = [kind |-> "fleet"]
  BY <1>1 DEF Snapshot
<1>3. Len(q) \in Nat
  OBVIOUS
<1>4. /\ q \o Snapshot \in Seq(BoardRequests) /\ Len(q \o Snapshot) = Len(q) + 2
      /\ \A n \in 1 .. Len(q) + 2 : (q \o Snapshot)[n] = IF n <= Len(q) THEN q[n] ELSE Snapshot[n - Len(q)]
  <2>1. /\ q \o Snapshot \in Seq(BoardRequests) /\ Len(q \o Snapshot) = Len(q) + Len(Snapshot)
        /\ \A n \in 1 .. Len(q) + Len(Snapshot) :
              (q \o Snapshot)[n] = IF n <= Len(q) THEN q[n] ELSE Snapshot[n - Len(q)]
    BY ONLY <1>2, q \in Seq(BoardRequests), ConcatProperties
  <2> QED
    BY <1>2, <2>1
<1>5. /\ Len(q) + 1 \in 1 .. Len(q) + 2 /\ ~ (Len(q) + 1 <= Len(q)) /\ (Len(q) + 1) - Len(q) = 1
      /\ Len(q) + 2 \in 1 .. Len(q) + 2 /\ ~ (Len(q) + 2 <= Len(q)) /\ (Len(q) + 2) - Len(q) = 2
      /\ \A n \in 1 .. Len(q) : n \in 1 .. Len(q) + 2 /\ n <= Len(q)
  BY <1>3
<1> QED
  BY <1>2, <1>3, <1>4, <1>5

\* What the types say of requests, answers and events.
LEMMA RequestFields ==
    ASSUME NEW r \in BoardRequests
    PROVE  /\ r.kind \in {"move", "cards", "fleet", "subscribe"}
           /\ r.kind = "move" => r \in MoveRequests /\ r.id \in Nat /\ r.card \in BoardCards /\ r.to \in BoardLanes
           /\ r.kind \in {"cards", "fleet", "subscribe"} => r = [kind |-> r.kind]
BY DEF BoardRequests, MoveRequests

LEMMA AnswerFields ==
    ASSUME NEW a \in BoardAnswers
    PROVE  /\ a.kind \in {"moved", "refused", "cards", "fleet", "subscribed"}
           /\ a.kind = "moved" => a.id \in Nat /\ a.card \in BoardCards /\ a.lane \in BoardLanes
           /\ a.kind = "refused" => a.id \in Nat
           /\ a.kind = "cards" => a.lanes \in Boards
           /\ a.kind = "fleet" => a.items \in SUBSET Items
BY DEF BoardAnswers

LEMMA DeliveryFields ==
    ASSUME NEW m \in Deliveries
    PROVE  /\ m.kind \in {"moved", "refused", "cards", "fleet", "subscribed", "event"}
           /\ m.kind # "event" => m \in BoardAnswers
           /\ m.kind = "moved" => m.id \in Nat /\ m.card \in BoardCards /\ m.lane \in BoardLanes
           /\ m.kind = "refused" => m.id \in Nat
           /\ m.kind = "cards" => m.lanes \in Boards
           /\ m.kind = "fleet" => m.items \in SUBSET Items
           /\ m.kind = "event" => m.event \in BoardEvents
<1>1. CASE m \in BoardAnswers
  BY <1>1, AnswerFields
<1>2. CASE m \in Announcements
  BY <1>2 DEF Announcements
<1> QED
  BY <1>1, <1>2 DEF Deliveries

LEMMA HandFields ==
    ASSUME NEW h \in Hands
    PROVE  /\ h.kind \in {"nothing", "move", "cards", "fleet", "answer"}
           /\ h.kind = "nothing" <=> h = Nothing
           /\ h.kind = "move" => h \in MoveRequests /\ h.id \in Nat /\ h.card \in BoardCards /\ h.to \in BoardLanes
           /\ h.kind = "answer" => h.answer \in BoardAnswers
BY DEF Hands, MoveRequests, Nothing

LEMMA EventFields ==
    ASSUME NEW e \in BoardEvents
    PROVE  /\ e.type \in {"moved", "raised", "resolved"} /\ e.card \in BoardCards
           /\ e.type = "moved" => e.to \in BoardLanes
           /\ e.type # "moved" => e.key \in Keys /\ << e.card, e.key >> \in Items
BY DEF BoardEvents, Items

\* The queues of the connection.
LEMMA BoardWires ==
    ASSUME BoardTyped
    PROVE  /\ Len(reqs) \in Nat /\ \A n \in 1 .. Len(reqs) : reqs[n] \in BoardRequests
           /\ Len(out) \in Nat /\ \A n \in 1 .. Len(out) : out[n] \in Deliveries
           /\ Len(queue) \in Nat /\ \A n \in 1 .. Len(queue) : queue[n] \in BoardEvents
           /\ Len(history) \in Nat /\ \A n \in 1 .. Len(history) : history[n] \in BoardEvents
<1>1. /\ reqs \in Seq(BoardRequests) /\ out \in Seq(Deliveries)
      /\ queue \in Seq(BoardEvents) /\ history \in Seq(BoardEvents)
  BY DEF BoardTyped
<1> QED
  BY <1>1, ElementOfSeq

\* What an announcement does to the log and to the queue of the event task.
LEMMA AnnounceAdds ==
    ASSUME BoardTyped, NEW e \in BoardEvents, Announce(e)
    PROVE  /\ history' \in Seq(BoardEvents) /\ Len(history') = Len(history) + 1
           /\ history'[Len(history) + 1] = e
           /\ \A n \in 1 .. Len(history) : history'[n] = history[n]
           /\ queue' \in Seq(BoardEvents)
           /\ subscribed => /\ Len(queue') = Len(queue) + 1 /\ queue'[Len(queue) + 1] = e
                            /\ \A n \in 1 .. Len(queue) : queue'[n] = queue[n]
           /\ ~subscribed => queue' = queue
<1>1. /\ history \in Seq(BoardEvents) /\ queue \in Seq(BoardEvents)
      /\ history' = Append(history, e)
      /\ queue' = IF subscribed THEN Append(queue, e) ELSE queue
  BY DEF BoardTyped, Announce
<1> QED
  BY ONLY <1>1, e \in BoardEvents, OneAdded

\* The event each change of others announces.
LEMMA OthersAnnounce ==
    ASSUME BoardTyped, NEW c \in BoardCards
    PROVE  /\ \A l \in BoardLanes : [type |-> "moved", card |-> c, to |-> l] \in BoardEvents
           /\ \A k \in Keys : /\ [type |-> "raised", card |-> c, key |-> k] \in BoardEvents
                              /\ [type |-> "resolved", card |-> c, key |-> k] \in BoardEvents
BY DEF BoardEvents

\* The youngest of some pending moves.
LEMMA YoungestIn ==
    ASSUME NEW S, S # {}, NEW N \in Nat, \A m \in S : m.id \in 1 .. N
    PROVE  (CHOOSE m \in S : \A n \in S : n.id <= m.id) \in S
<1> DEFINE R == OpToRel(<, Nat)
           T == {N - m.id : m \in S}
<1>1. T \subseteq Nat /\ T # {}
  OBVIOUS
<1>2. PICK x \in T : \A y \in T : ~(<<y, x>> \in R)
  BY <1>1, NatLessThanWellFounded, WFMin
<1>3. ASSUME NEW a \in Nat, NEW b \in Nat, a < b PROVE <<a, b>> \in R
  BY <1>3 DEF OpToRel
<1> HIDE DEF R
<1>4. PICK m \in S : N - m.id = x
  OBVIOUS
<1>5. ASSUME NEW n \in S PROVE n.id <= m.id
  <2>1. n.id \in 1 .. N /\ m.id \in 1 .. N
    OBVIOUS
  <2>2. N - n.id \in T
    OBVIOUS
  <2>3. N - n.id \in Nat /\ N - m.id \in Nat /\ ~ (N - n.id < N - m.id)
    BY <1>1, <1>2, <1>3, <1>4, <2>2
  <2> QED
    BY <2>1, <2>3
<1> QED
  BY <1>5

LEMMA BoardTypedStart == BoardInit => BoardTyped
<1> SUFFICES ASSUME BoardInit PROVE BoardTyped
  OBVIOUS
<1>1. lane \in Boards /\ "inbox" \in BoardLanes
  BY BoardAssumption DEF BoardInit, Boards
<1>2. /\ history \in Seq(BoardEvents) /\ queue \in Seq(BoardEvents) /\ reqs \in Seq(BoardRequests)
      /\ out \in Seq(Deliveries) /\ serving \in Hands
  BY EmptySeq DEF BoardInit, Hands
<1>3. /\ changes \in 0 .. MaxChanges /\ upsets \in 0 .. MaxUpsets /\ moves \in 0 .. MaxMoves
  BY BoardAssumption DEF BoardInit
<1>4. /\ open \subseteq Items /\ needs \subseteq Items /\ missed \subseteq BoardCards
      /\ moving \subseteq [id : 1 .. moves, card : BoardCards, prev : BoardLanes]
      /\ board \in Boards \cup {NoBoard} /\ half \in Boards \cup {NoBoard}
  BY DEF BoardInit
<1>5. /\ subscribed \in BOOLEAN /\ fresh \in BOOLEAN /\ link \in {"down", "up"}
      /\ boot \in {"connect", "load", "up"} /\ source \in {"none", "live", "empty"}
  BY DEF BoardInit
<1> QED
  BY ONLY <1>1, <1>2, <1>3, <1>4, <1>5 DEF BoardTyped

LEMMA RollBackTyped ==
    ASSUME BoardTyped, board # NoBoard
    PROVE  RollBack(board, moving) \in Boards
<1>1. /\ board \in Boards /\ moves \in Nat
      /\ \A m \in moving : m.id \in 1 .. moves /\ m.card \in BoardCards /\ m.prev \in BoardLanes
  BY BoardAssumption DEF BoardTyped
<1>2. ASSUME NEW c \in BoardCards, {m \in moving : m.card = c} # {}
      PROVE  (CHOOSE m \in {m \in moving : m.card = c} :
                 \A n \in {n \in moving : n.card = c} : n.id <= m.id).prev \in BoardLanes
  <2> DEFINE S == {m \in moving : m.card = c}
  <2>1. S # {} /\ \A m \in S : m.id \in 1 .. moves /\ m.prev \in BoardLanes
    BY <1>1, <1>2
  <2> HIDE DEF S
  <2>2. (CHOOSE m \in S : \A n \in S : n.id <= m.id) \in S
    BY <1>1, <2>1, YoungestIn
  <2>3. (CHOOSE m \in S : \A n \in S : n.id <= m.id).prev \in BoardLanes
    BY <2>1, <2>2
  <2> QED
    BY <2>3 DEF S
<1> QED
  BY <1>1, <1>2 DEF RollBack, Boards

\* The types are kept by each step.
LEMMA BoardTypedStep ==
    ASSUME BoardTyped, PhasesOK, PairsOK, MovesOK, BoardNext
    PROVE  BoardTyped'
<1> USE DEF BoardTyped, daemonVars, connVars, deskVars
<1>0. MaxChanges \in Nat /\ MaxMoves \in Nat /\ MaxUpsets \in Nat
  BY BoardAssumption
<1>w. /\ \A n \in 1 .. Len(reqs) : reqs[n] \in BoardRequests
      /\ \A n \in 1 .. Len(out) : out[n] \in Deliveries
      /\ \A n \in 1 .. Len(queue) : queue[n] \in BoardEvents
  BY BoardWires
<1>r. reqs # << >> => Head(reqs) \in BoardRequests /\ Tail(reqs) \in Seq(BoardRequests)
  BY FirstTaken
<1>o. out # << >> => /\ Head(out) \in Deliveries /\ Tail(out) \in Seq(Deliveries)
                     /\ Head(out) = out[1] /\ 1 \in 1 .. Len(out)
  BY FirstTaken
<1>q. queue # << >> => Head(queue) \in BoardEvents /\ Tail(queue) \in Seq(BoardEvents)
  BY FirstTaken
<1>1. ASSUME NEW c \in BoardCards, NEW l \in BoardLanes, OthersMove(c, l) PROVE BoardTyped'
  <2>1. history' \in Seq(BoardEvents) /\ queue' \in Seq(BoardEvents)
    BY <1>1, OthersAnnounce, AnnounceAdds DEF OthersMove
  <2>2. lane' \in Boards /\ missed' \subseteq BoardCards /\ changes' \in 0 .. MaxChanges
    BY <1>0, <1>1 DEF OthersMove, Boards, Overheard
  <2> QED
    BY <1>1, <2>1, <2>2 DEF OthersMove
<1>2. ASSUME NEW c \in BoardCards, NEW k \in Keys, OthersRaise(c, k) \/ OthersResolve(c, k) PROVE BoardTyped'
  <2>1. history' \in Seq(BoardEvents) /\ queue' \in Seq(BoardEvents)
    BY <1>2, OthersAnnounce, AnnounceAdds DEF OthersRaise, OthersResolve
  <2>2. open' \subseteq Items /\ missed' \subseteq BoardCards /\ changes' \in 0 .. MaxChanges
    BY <1>0, <1>2 DEF OthersRaise, OthersResolve, Items, Overheard
  <2> QED
    BY <1>2, <2>1, <2>2 DEF OthersRaise, OthersResolve
<1>3. ASSUME ForwardEvent PROVE BoardTyped'
  <2>1. [kind |-> "event", event |-> Head(queue)] \in Deliveries
    BY <1>3, <1>q DEF ForwardEvent, Deliveries, Announcements
  <2>2. out' \in Seq(Deliveries) /\ queue' \in Seq(BoardEvents)
    BY <1>3, <1>q, <2>1 DEF ForwardEvent
  <2> QED
    BY <1>3, <2>2 DEF ForwardEvent
<1>4. ASSUME Serve PROVE BoardTyped'
  <2>1. /\ reqs # << >> /\ Head(reqs) \in BoardRequests /\ reqs' \in Seq(BoardRequests)
        /\ UNCHANGED << open, changes, out, link, deskVars, missed >>
    BY <1>4, <1>r DEF Serve
  <2>2. CASE /\ Head(reqs).kind = "move" /\ lane' = [lane EXCEPT ![Head(reqs).card] = Head(reqs).to]
             /\ Announce([type |-> "moved", card |-> Head(reqs).card, to |-> Head(reqs).to])
             /\ serving' = Head(reqs) /\ UNCHANGED << subscribed, upsets >>
    <3>1. Head(reqs) \in MoveRequests /\ Head(reqs).card \in BoardCards /\ Head(reqs).to \in BoardLanes
      BY <2>1, <2>2, RequestFields
    <3>2. history' \in Seq(BoardEvents) /\ queue' \in Seq(BoardEvents)
      BY <2>2, <3>1, OthersAnnounce, AnnounceAdds
    <3>3. lane' \in Boards /\ serving' \in Hands
      BY <2>2, <3>1 DEF Boards, Hands
    <3> QED
      BY <2>1, <2>2, <3>2, <3>3
  <2>3. CASE /\ Head(reqs).kind = "move" /\ upsets < MaxUpsets /\ upsets' = upsets + 1
             /\ serving' = [kind |-> "answer", answer |-> [kind |-> "refused", id |-> Head(reqs).id]]
             /\ UNCHANGED << lane, history, subscribed, queue >>
    <3>1. Head(reqs).id \in Nat
      BY <2>1, <2>3, RequestFields
    <3>2. serving' \in Hands /\ upsets' \in 0 .. MaxUpsets
      BY <1>0, <2>3, <3>1 DEF Hands, BoardAnswers
    <3> QED
      BY <2>1, <2>3, <3>2
  <2>4. CASE /\ Head(reqs).kind = "subscribe" /\ subscribed' = TRUE /\ queue' = history
             /\ serving' = [kind |-> "answer", answer |-> [kind |-> "subscribed"]]
             /\ UNCHANGED << lane, history, upsets >>
    <3>1. serving' \in Hands
      BY <2>4 DEF Hands, BoardAnswers
    <3> QED
      BY <2>1, <2>4, <3>1
  <2>5. CASE /\ Head(reqs).kind \in {"cards", "fleet"} /\ serving' = Head(reqs)
             /\ UNCHANGED << lane, history, subscribed, queue, upsets >>
    <3>1. Head(reqs) = [kind |-> Head(reqs).kind]
      BY <2>1, <2>5, RequestFields
    <3>2. serving' \in Hands
      BY <2>5, <3>1 DEF Hands
    <3> QED
      BY <2>1, <2>5, <3>2
  <2> QED
    BY <1>4, <2>2, <2>3, <2>4, <2>5 DEF Serve
<1>5. ASSUME ReadAnswer PROVE BoardTyped'
  <2> DEFINE a == CASE serving.kind = "move"  -> [kind |-> "moved", id |-> serving.id, card |-> serving.card,
                                           lane |-> lane[serving.card]]
             [] serving.kind = "cards" -> [kind |-> "cards", lanes |-> lane]
             [] serving.kind = "fleet" -> [kind |-> "fleet", items |-> open]
  <2>1. a \in BoardAnswers
    <3>1. serving.kind = "move" => serving.id \in Nat /\ serving.card \in BoardCards
      BY HandFields
    <3>2. serving.kind = "move" => a \in [kind : {"moved"}, id : Nat, card : BoardCards, lane : BoardLanes]
      BY <3>1 DEF Boards
    <3>3. serving.kind = "cards" => a \in [kind : {"cards"}, lanes : Boards]
      OBVIOUS
    <3>4. serving.kind = "fleet" => a \in [kind : {"fleet"}, items : SUBSET Items]
      OBVIOUS
    <3> HIDE DEF a
    <3> QED
      BY <1>5, <3>2, <3>3, <3>4 DEF ReadAnswer, BoardAnswers
  <2>2. serving' = [kind |-> "answer", answer |-> a]
    BY <1>5 DEF ReadAnswer
  <2> HIDE DEF a
  <2>3. serving' \in Hands
    BY <2>1, <2>2 DEF Hands
  <2> QED
    BY <1>5, <2>3 DEF ReadAnswer
<1>6. ASSUME SendAnswer PROVE BoardTyped'
  <2>1. serving.answer \in Deliveries
    BY <1>6, HandFields DEF SendAnswer, Deliveries
  <2>2. out' \in Seq(Deliveries) /\ serving' \in Hands
    BY <1>6, <2>1 DEF SendAnswer, Hands
  <2> QED
    BY <1>6, <2>2 DEF SendAnswer
<1>7. ASSUME Connect PROVE BoardTyped'
  <2>1. Snapshot \in Seq(BoardRequests)
    BY DEF Snapshot, BoardRequests
  <2> QED
    BY <1>0, <1>7, <2>1 DEF Connect
<1>8. ASSUME TakeCards PROVE BoardTyped'
  <2>1. Head(out).lanes \in Boards
    BY <1>8, <1>o, DeliveryFields DEF TakeCards, Arrives
  <2> QED
    BY <1>8, <1>o, <2>1 DEF TakeCards, Arrives
<1>9. ASSUME TakeFleet PROVE BoardTyped'
  <2>1. Head(out).items \in SUBSET Items
    BY <1>9, <1>o, DeliveryFields DEF TakeFleet, Arrives
  <2>2. [kind |-> "subscribe"] \in BoardRequests
    BY DEF BoardRequests
  <2>3. reqs' \in Seq(BoardRequests)
    BY <1>9, <2>2 DEF TakeFleet
  <2> QED
    BY <1>9, <1>o, <2>1, <2>3 DEF TakeFleet, Arrives
<1>10. ASSUME TakeSubscribed PROVE BoardTyped'
  BY <1>10, <1>o DEF TakeSubscribed, Arrives
<1>11. ASSUME TakeEvent PROVE BoardTyped'
  <2> DEFINE e == Head(out).event
  <2>1. e \in BoardEvents
    BY <1>11, <1>o, DeliveryFields DEF TakeEvent, Arrives
  <2>2. /\ e.type \in {"moved", "raised", "resolved"}
        /\ e.type = "moved" => e.card \in BoardCards /\ e.to \in BoardLanes
        /\ e.type # "moved" => << e.card, e.key >> \in Items
    BY <2>1, EventFields
  <2>3. /\ board' = IF board = NoBoard THEN board ELSE BoardAfter(board, e)
        /\ needs' = NeedsAfter(needs, e)
        /\ UNCHANGED << daemonVars, connVars, reqs, link, upsets, boot, source, half, moving, moves,
                        fresh, missed >>
        /\ out' = Tail(out) /\ out # << >>
    BY <1>11 DEF TakeEvent, Arrives
  <2> HIDE DEF e
  <2>4. board' \in Boards \cup {NoBoard}
    BY <2>2, <2>3 DEF BoardAfter, Boards
  <2>5. needs' \subseteq Items
    BY <2>2, <2>3 DEF NeedsAfter
  <2> QED
    BY <1>o, <2>3, <2>4, <2>5
<1>12. ASSUME NEW c \in BoardCards, NEW l \in BoardLanes, DragCard(c, l) PROVE BoardTyped'
  <2>1. CASE link = "up"
    <3>1. /\ board # NoBoard /\ moves < MaxMoves /\ moves' = moves + 1
          /\ board' = [board EXCEPT ![c] = l]
          /\ moving' = moving \cup {[id |-> moves + 1, card |-> c, prev |-> board[c]]}
          /\ reqs' = Append(reqs, [kind |-> "move", id |-> moves + 1, card |-> c, to |-> l])
          /\ missed' \subseteq missed \cup {c}
          /\ UNCHANGED << daemonVars, connVars, out, link, upsets, boot, source, needs, half, fresh >>
      BY <1>12, <2>1 DEF DragCard
    <3>2. /\ moves' \in 0 .. MaxMoves /\ moves + 1 \in Nat /\ moves + 1 \in 1 .. moves'
          /\ \A n \in 1 .. moves : n \in 1 .. moves'
      BY <1>0, <3>1
    <3>3. board' \in Boards /\ board[c] \in BoardLanes
      BY <3>1 DEF Boards
    <3>4. moving' \subseteq [id : 1 .. moves', card : BoardCards, prev : BoardLanes]
      BY <3>1, <3>2, <3>3
    <3>5. [kind |-> "move", id |-> moves + 1, card |-> c, to |-> l] \in BoardRequests
      BY <3>2 DEF BoardRequests, MoveRequests
    <3>6. reqs' \in Seq(BoardRequests)
      BY <3>1, <3>5
    <3> QED
      BY <3>1, <3>2, <3>3, <3>4, <3>6
  <2>2. CASE link # "up"
    <3>1. /\ moves' = moves + 1 /\ moves < MaxMoves
          /\ UNCHANGED << daemonVars, connVars, out, link, upsets, boot, source, needs, half, fresh,
                          board, moving, reqs, missed >>
      BY <1>12, <2>2 DEF DragCard
    <3>2. moves' \in 0 .. MaxMoves /\ \A n \in 1 .. moves : n \in 1 .. moves'
      BY <1>0, <3>1
    <3>3. moving' \subseteq [id : 1 .. moves', card : BoardCards, prev : BoardLanes]
      BY <3>1, <3>2
    <3> QED
      BY <3>1, <3>2, <3>3
  <2> QED
    BY <2>1, <2>2
<1>13. ASSUME TakeMoved PROVE BoardTyped'
  <2>1. Head(out).card \in BoardCards /\ Head(out).lane \in BoardLanes
    BY <1>13, <1>o, DeliveryFields DEF TakeMoved, Arrives
  <2>2. board # NoBoard
    <3>1. Entry(out[1])
      BY <1>13, <1>o DEF MovesOK, TakeMoved, Arrives, IsMove
    <3> QED
      BY <3>1 DEF Entry, PhasesOK
  <2>3. board' \in Boards
    BY <1>13, <2>1, <2>2 DEF TakeMoved, Boards
  <2> QED
    BY <1>13, <1>o, <2>3 DEF TakeMoved, Arrives
<1>14. ASSUME TakeRefused PROVE BoardTyped'
  <2>1. PICK m \in moving : board' = [board EXCEPT ![m.card] = m.prev]
    BY <1>14 DEF TakeRefused, ItsMove
  <2>2. board # NoBoard /\ m.card \in BoardCards /\ m.prev \in BoardLanes
    BY <2>1 DEF PhasesOK
  <2>3. board' \in Boards
    BY <2>1, <2>2 DEF Boards
  <2> QED
    BY <1>14, <1>o, <2>3 DEF TakeRefused, Arrives
<1>15. ASSUME Refresh PROVE BoardTyped'
  <2>1. reqs' \in Seq(BoardRequests) /\ upsets' \in 0 .. MaxUpsets
    BY <1>0, <1>15, SnapshotAdded DEF Refresh
  <2> QED
    BY <1>15, <2>1 DEF Refresh
<1>16. ASSUME Drop PROVE BoardTyped'
  <2>1. board' \in Boards \cup {NoBoard}
    BY <1>16, RollBackTyped DEF Drop
  <2>2. upsets' \in 0 .. MaxUpsets
    BY <1>0, <1>16 DEF Drop
  <2>3. /\ reqs' \in Seq(BoardRequests) /\ out' \in Seq(Deliveries) /\ queue' \in Seq(BoardEvents)
        /\ serving' \in Hands
    BY <1>16, EmptySeq DEF Drop, Hands
  <2>4. /\ missed' \subseteq BoardCards /\ half' \in Boards \cup {NoBoard} /\ moves' = moves
        /\ moving' \subseteq [id : 1 .. moves', card : BoardCards, prev : BoardLanes]
        /\ UNCHANGED << lane, open, history, changes, needs, source >>
    BY <1>16 DEF Drop
  <2>5. /\ link' \in {"down", "up"} /\ boot' \in {"connect", "load", "up"} /\ subscribed' \in BOOLEAN
        /\ fresh' \in BOOLEAN
    BY <1>16 DEF Drop
  <2> QED
    BY <2>1, <2>2, <2>3, <2>4, <2>5
<1>17. ASSUME Reconnect PROVE BoardTyped'
  <2>1. Snapshot \in Seq(BoardRequests)
    BY DEF Snapshot, BoardRequests
  <2> QED
    BY <1>17, <2>1 DEF Reconnect
<1> QED
  BY <1>1, <1>2, <1>3, <1>4, <1>5, <1>6, <1>7, <1>8, <1>9, <1>10, <1>11, <1>12, <1>13, <1>14, <1>15,
     <1>16, <1>17 DEF BoardNext, Daemon, TakeIn

\* The last of the events still tells after an announcement.
LEMMA AnnounceTells ==
    ASSUME BoardTyped, EventsTell, PhasesOK, NEW e \in BoardEvents, Announce(e), out' = out,
           Tells(e)', \A d \in BoardEvents : About(d) # About(e) /\ Tells(d) => Tells(d)'
    PROVE  EventsTell'
<1>1. /\ Len(history) \in Nat /\ \A n \in 1 .. Len(history) : history[n] \in BoardEvents
      /\ Len(queue) \in Nat /\ \A n \in 1 .. Len(queue) : queue[n] \in BoardEvents
      /\ Len(out) \in Nat /\ \A n \in 1 .. Len(out) : out[n] \in Deliveries
  BY BoardWires
<1>2. /\ Len(history') = Len(history) + 1 /\ history'[Len(history) + 1] = e
      /\ \A n \in 1 .. Len(history) : history'[n] = history[n]
      /\ subscribed => /\ Len(queue') = Len(queue) + 1 /\ queue'[Len(queue) + 1] = e
                       /\ \A n \in 1 .. Len(queue) : queue'[n] = queue[n]
      /\ ~subscribed => queue' = queue
  BY AnnounceAdds
<1>3. ASSUME NEW n \in 1 .. Len(history')
      PROVE  (Tells(history[n]) \/ \E k \in n + 1 .. Len(history) : About(history[k]) = About(history[n]))'
  <2>1. CASE n = Len(history) + 1
    BY <1>2, <2>1
  <2>2. CASE n \in 1 .. Len(history)
    <3>1. history'[n] = history[n] /\ history[n] \in BoardEvents
      BY <1>1, <1>2, <2>2
    <3>2. CASE About(history[n]) = About(e)
      <4>1. Len(history) + 1 \in n + 1 .. Len(history')
        BY <1>1, <1>2, <2>2
      <4> QED
        BY <1>2, <3>1, <3>2, <4>1
    <3>3. CASE About(history[n]) # About(e) /\ Tells(history[n])
      BY <3>1, <3>3
    <3>4. CASE \E k \in n + 1 .. Len(history) : About(history[k]) = About(history[n])
      <4>1. PICK k \in n + 1 .. Len(history) : About(history[k]) = About(history[n])
        BY <3>4
      <4>2. k \in n + 1 .. Len(history') /\ k \in 1 .. Len(history)
        BY <1>1, <1>2, <2>2
      <4> QED
        BY <1>2, <3>1, <4>1, <4>2
    <3> QED
      BY <2>2, <3>2, <3>3, <3>4 DEF EventsTell
  <2> QED
    BY <1>1, <1>2, <2>1, <2>2
<1>4. CASE ~subscribed
  <2>1. queue' = << >> /\ \A n \in 1 .. Len(out') : out'[n].kind # "event"
    BY <1>2, <1>4 DEF PhasesOK
  <2>2. Len(queue') = 0
    BY <2>1
  <2> QED
    BY <1>3, <2>1, <2>2 DEF EventsTell
<1>5. CASE subscribed
  <2>1. /\ Len(queue') = Len(queue) + 1 /\ queue'[Len(queue) + 1] = e
        /\ \A n \in 1 .. Len(queue) : queue'[n] = queue[n]
    BY <1>2, <1>5
  <2>2. Len(queue) + 1 \in 1 .. Len(queue') /\ \A n \in 1 .. Len(queue) : n \in 1 .. Len(queue')
    BY <1>1, <2>1
  <2>3. ASSUME NEW n \in 1 .. Len(queue')
        PROVE  (Tells(queue[n]) \/ \E k \in n + 1 .. Len(queue) : About(queue[k]) = About(queue[n]))'
    <3>1. CASE n = Len(queue) + 1
      BY <2>1, <3>1
    <3>2. CASE n \in 1 .. Len(queue)
      <4>1. queue'[n] = queue[n] /\ queue[n] \in BoardEvents
        BY <1>1, <2>1, <3>2
      <4>2. CASE About(queue[n]) = About(e)
        <5>1. Len(queue) + 1 \in n + 1 .. Len(queue')
          BY <1>1, <2>1, <3>2
        <5> QED
          BY <2>1, <4>1, <4>2, <5>1
      <4>3. CASE About(queue[n]) # About(e) /\ Tells(queue[n])
        BY <4>1, <4>3
      <4>4. CASE \E k \in n + 1 .. Len(queue) : About(queue[k]) = About(queue[n])
        <5>1. PICK k \in n + 1 .. Len(queue) : About(queue[k]) = About(queue[n])
          BY <4>4
        <5>2. k \in n + 1 .. Len(queue') /\ k \in 1 .. Len(queue)
          BY <1>1, <2>1, <3>2
        <5> QED
          BY <2>1, <4>1, <5>1, <5>2
      <4> QED
        BY <3>2, <4>2, <4>3, <4>4 DEF EventsTell
    <3> QED
      BY <1>1, <2>1, <3>1, <3>2
  <2>4. InQueue(About(e))'
    BY <2>1, <2>2 DEF InQueue
  <2>5. ASSUME NEW x, InQueue(x) PROVE InQueue(x)'
    <3>1. PICK n \in 1 .. Len(queue) : About(queue[n]) = x
      BY <2>5 DEF InQueue
    <3> QED
      BY <2>1, <2>2, <3>1 DEF InQueue
  <2>6. ASSUME NEW n \in 1 .. Len(out'), out'[n].kind = "event"
        PROVE  (\/ Tells(out[n].event)
                \/ \E k \in n + 1 .. Len(out) : IsEventOf(out[k], About(out[n].event))
                \/ InQueue(About(out[n].event)))'
    <3>1. out[n].event \in BoardEvents /\ n \in 1 .. Len(out) /\ out[n].kind = "event"
      BY <1>1, <2>6, DeliveryFields
    <3>2. CASE About(out[n].event) = About(e)
      BY <2>4, <3>2
    <3>3. CASE About(out[n].event) # About(e) /\ Tells(out[n].event)
      BY <3>1, <3>3
    <3>4. CASE \E k \in n + 1 .. Len(out) : IsEventOf(out[k], About(out[n].event))
      BY <3>4 DEF IsEventOf
    <3>5. CASE InQueue(About(out[n].event))
      <4>1. PICK x : x = About(out[n].event)
        OBVIOUS
      <4>2. InQueue(x)'
        BY <2>5, <3>5, <4>1
      <4>3. x = About(out'[n].event)
        BY <4>1
      <4> QED
        BY <4>2, <4>3
    <3> QED
      BY <3>1, <3>2, <3>3, <3>4, <3>5 DEF EventsTell
  <2> QED
    BY <1>3, <2>3, <2>6 DEF EventsTell
<1> QED
  BY <1>4, <1>5

\* What the loop does with the request at hand.
TakesUp(r) ==
    /\ serving = Nothing /\ reqs # << >> /\ r = reqs[1] /\ reqs' = Tail(reqs)
    /\ UNCHANGED << open, changes, out, link, deskVars, missed >>
MakesMove(r) ==
    /\ TakesUp(r) /\ r.kind = "move" /\ lane' = [lane EXCEPT ![r.card] = r.to]
    /\ Announce([type |-> "moved", card |-> r.card, to |-> r.to])
    /\ serving' = r /\ UNCHANGED << subscribed, upsets >>
RefusesMove(r) ==
    /\ TakesUp(r) /\ r.kind = "move"
    /\ upsets' = upsets + 1
    /\ serving' = [kind |-> "answer", answer |-> [kind |-> "refused", id |-> r.id]]
    /\ UNCHANGED << lane, history, subscribed, queue >>
HearsLog(r) ==
    /\ TakesUp(r) /\ r.kind = "subscribe"
    /\ subscribed' = TRUE /\ queue' = history
    /\ serving' = [kind |-> "answer", answer |-> [kind |-> "subscribed"]]
    /\ UNCHANGED << lane, history, upsets >>
Reads(r) ==
    /\ TakesUp(r) /\ r.kind \in {"cards", "fleet"}
    /\ serving' = r
    /\ UNCHANGED << lane, history, subscribed, queue, upsets >>

LEMMA ServeDoes ==
    ASSUME BoardTyped, Serve
    PROVE  \E r \in BoardRequests : MakesMove(r) \/ RefusesMove(r) \/ HearsLog(r) \/ Reads(r)
<1>1. Head(reqs) \in BoardRequests /\ Head(reqs) = reqs[1] /\ reqs # << >>
  BY FirstTaken DEF BoardTyped, Serve
<1>2. TakesUp(Head(reqs))
  BY <1>1 DEF Serve, TakesUp
<1> QED
  BY <1>1, <1>2 DEF Serve, MakesMove, RefusesMove, HearsLog, Reads

\* The answer the read makes.
ReadsFor(a) ==
    /\ serving.kind \in {"move", "cards", "fleet"}
    /\ serving' = [kind |-> "answer", answer |-> a]
    /\ serving.kind = "move"  => a = [kind |-> "moved", id |-> serving.id, card |-> serving.card,
                                      lane |-> lane[serving.card]]
    /\ serving.kind = "cards" => a = [kind |-> "cards", lanes |-> lane]
    /\ serving.kind = "fleet" => a = [kind |-> "fleet", items |-> open]
    /\ UNCHANGED << daemonVars, subscribed, queue, reqs, out, link, upsets, deskVars, missed >>

LEMMA ReadDoes ==
    ASSUME BoardTyped, ReadAnswer
    PROVE  \E a \in BoardAnswers : ReadsFor(a)
<1> DEFINE a == CASE serving.kind = "move"  -> [kind |-> "moved", id |-> serving.id, card |-> serving.card,
                                       lane |-> lane[serving.card]]
         [] serving.kind = "cards" -> [kind |-> "cards", lanes |-> lane]
         [] serving.kind = "fleet" -> [kind |-> "fleet", items |-> open]
<1>1. serving \in Hands /\ lane \in Boards /\ open \subseteq Items
  BY DEF BoardTyped
<1>2. serving.kind = "move" => a \in [kind : {"moved"}, id : Nat, card : BoardCards, lane : BoardLanes]
  BY <1>1, HandFields DEF Boards
<1>3. serving.kind = "cards" => a \in [kind : {"cards"}, lanes : Boards]
  BY <1>1
<1>4. serving.kind = "fleet" => a \in [kind : {"fleet"}, items : SUBSET Items]
  BY <1>1
<1>5. ReadsFor(a)
  BY DEF ReadAnswer, ReadsFor
<1> HIDE DEF a
<1>6. a \in BoardAnswers
  BY <1>2, <1>3, <1>4 DEF ReadAnswer, BoardAnswers
<1> QED
  BY <1>5, <1>6

\* What stays when the desktop takes what comes first.
LEMMA TakeInDoes ==
    ASSUME BoardTyped, TakeIn
    PROVE  /\ out # << >> /\ Head(out) = out[1] /\ out[1] \in Deliveries /\ out' = Tail(out)
           /\ UNCHANGED << daemonVars, connVars, link, upsets, source, moves, missed >>
<1>1. out # << >>
  BY DEF TakeIn, TakeCards, TakeFleet, TakeSubscribed, TakeEvent, TakeMoved, TakeRefused, Arrives
<1>2. Head(out) = out[1] /\ out[1] \in Deliveries
  BY <1>1, FirstTaken DEF BoardTyped
<1>3. out' = Tail(out) /\ UNCHANGED << daemonVars, connVars, link, upsets, source, moves, missed >>
  BY DEF TakeIn, TakeCards, TakeFleet, TakeSubscribed, TakeEvent, TakeMoved, TakeRefused, deskVars
<1> QED
  BY <1>1, <1>2, <1>3

\* Positions after one was taken.
LEMMA OutTaken ==
    ASSUME BoardTyped, out # << >>, out' = Tail(out)
    PROVE  /\ Len(out) \in Nat /\ Len(out') = Len(out) - 1
           /\ \A n \in 1 .. Len(out') : n + 1 \in 1 .. Len(out) /\ out'[n] = out[n + 1]
           /\ \A n \in 1 .. Len(out) : n = 1 \/ (n - 1 \in 1 .. Len(out') /\ out'[n - 1] = out[n])
BY FirstTaken DEF BoardTyped

LEMMA OutAdded ==
    ASSUME BoardTyped, NEW m \in Deliveries, out' = Append(out, m)
    PROVE  /\ Len(out) \in Nat /\ Len(out') = Len(out) + 1 /\ out'[Len(out) + 1] = m
           /\ \A n \in 1 .. Len(out) : n \in 1 .. Len(out') /\ out'[n] = out[n]
           /\ \A n \in 1 .. Len(out') : n \in 1 .. Len(out) \/ n = Len(out) + 1
<1>1. /\ Len(out) \in Nat /\ Len(out') = Len(out) + 1 /\ out'[Len(out) + 1] = m
      /\ \A n \in 1 .. Len(out) : out'[n] = out[n]
  BY OneAdded DEF BoardTyped
<1> QED
  BY <1>1

\* Only what is told changes.
LEMMA ToldOnly ==
    ASSUME BoardTyped, NEW c \in BoardCards, NEW e \in BoardEvents, e.card = c,
           \/ e.type = "moved" /\ lane' = [lane EXCEPT ![c] = e.to] /\ open' = open
           \/ e.type = "raised" /\ open' = open \cup {<< c, e.key >>} /\ lane' = lane
           \/ e.type = "resolved" /\ open' = open \ {<< c, e.key >>} /\ lane' = lane
    PROVE  Tells(e)' /\ \A d \in BoardEvents : About(d) # About(e) /\ Tells(d) => Tells(d)'
<1>1. lane \in Boards
  BY DEF BoardTyped
<1>2. Tells(e)'
  BY <1>1 DEF Tells, Boards
<1>3. ASSUME NEW d \in BoardEvents, About(d) # About(e), Tells(d) PROVE Tells(d)'
  <2>1. d.type \in {"moved", "raised", "resolved"} /\ d.card \in BoardCards
    BY EventFields
  <2>2. d.type = "moved" => lane'[d.card] = lane[d.card]
    BY <1>1, <1>3, <2>1 DEF About, Boards
  <2>3. d.type # "moved" => (<< d.card, d.key >> \in open' <=> << d.card, d.key >> \in open)
    <3>1. d.type # "moved" /\ e.type # "moved" => << d.card, d.key >> # << c, e.key >>
      BY <1>3 DEF About
    <3> QED
      BY <3>1
  <2> QED
    BY <1>3, <2>1, <2>2, <2>3 DEF Tells
<1> QED
  BY <1>2, <1>3

LEMMA EventsTellStep ==
    ASSUME BoardTyped, EventsTell, PhasesOK, BoardNext
    PROVE  EventsTell'
<1>w. /\ Len(history) \in Nat /\ \A n \in 1 .. Len(history) : history[n] \in BoardEvents
      /\ Len(queue) \in Nat /\ \A n \in 1 .. Len(queue) : queue[n] \in BoardEvents
      /\ Len(out) \in Nat /\ \A n \in 1 .. Len(out) : out[n] \in Deliveries
  BY BoardWires
<1>1. ASSUME NEW c \in BoardCards, NEW l \in BoardLanes, OthersMove(c, l) PROVE EventsTell'
  <2> DEFINE e == [type |-> "moved", card |-> c, to |-> l]
  <2>1. e \in BoardEvents
    BY OthersAnnounce
  <2>2. /\ e.card = c /\ e.type = "moved" /\ lane' = [lane EXCEPT ![c] = e.to] /\ open' = open
        /\ Announce(e) /\ out' = out
    BY <1>1 DEF OthersMove
  <2> HIDE DEF e
  <2> QED
    BY <2>1, <2>2, ToldOnly, AnnounceTells
<1>2. ASSUME NEW c \in BoardCards, NEW k \in Keys, OthersRaise(c, k) PROVE EventsTell'
  <2> DEFINE e == [type |-> "raised", card |-> c, key |-> k]
  <2>1. e \in BoardEvents
    BY OthersAnnounce
  <2>2. /\ e.card = c /\ e.type = "raised" /\ open' = open \cup {<< c, e.key >>} /\ lane' = lane
        /\ Announce(e) /\ out' = out
    BY <1>2 DEF OthersRaise
  <2> HIDE DEF e
  <2> QED
    BY <2>1, <2>2, ToldOnly, AnnounceTells
<1>3. ASSUME NEW c \in BoardCards, NEW k \in Keys, OthersResolve(c, k) PROVE EventsTell'
  <2> DEFINE e == [type |-> "resolved", card |-> c, key |-> k]
  <2>1. e \in BoardEvents
    BY OthersAnnounce
  <2>2. /\ e.card = c /\ e.type = "resolved" /\ open' = open \ {<< c, e.key >>} /\ lane' = lane
        /\ Announce(e) /\ out' = out
    BY <1>3 DEF OthersResolve
  <2> HIDE DEF e
  <2> QED
    BY <2>1, <2>2, ToldOnly, AnnounceTells
<1>4. ASSUME NEW r \in BoardRequests, MakesMove(r) PROVE EventsTell'
  <2> DEFINE e == [type |-> "moved", card |-> r.card, to |-> r.to]
  <2>1. r.card \in BoardCards /\ r.to \in BoardLanes
    BY <1>4, RequestFields DEF MakesMove
  <2>2. e \in BoardEvents
    BY <2>1, OthersAnnounce
  <2>3. /\ e.card = r.card /\ e.type = "moved" /\ lane' = [lane EXCEPT ![r.card] = e.to] /\ open' = open
        /\ Announce(e) /\ out' = out
    BY <1>4 DEF MakesMove, TakesUp
  <2> HIDE DEF e
  <2> QED
    BY <2>1, <2>2, <2>3, ToldOnly, AnnounceTells
<1>5. ASSUME UNCHANGED << lane, open, history >> PROVE \A d : Tells(d)' <=> Tells(d)
  BY <1>5 DEF Tells
<1>6. ASSUME NEW r \in BoardRequests, HearsLog(r) PROVE EventsTell'
  <2>1. UNCHANGED << lane, open, history, out >> /\ queue' = history /\ reqs # << >> /\ r = reqs[1]
        /\ r.kind = "subscribe"
    BY <1>6 DEF HearsLog, TakesUp
  <2>2. out = << >>
    BY <2>1, FirstTaken DEF PhasesOK, SubscribesFirst, BoardTyped
  <2>3. Len(out') = 0
    BY <2>1, <2>2
  <2>4. \A n \in 1 .. Len(history) :
          Tells(history[n])' \/ \E k \in n + 1 .. Len(history) : About(history[k]) = About(history[n])
    BY <1>5, <2>1 DEF EventsTell, Tells
  <2>5. \A n \in 1 .. Len(history') :
          (Tells(history[n]) \/ \E k \in n + 1 .. Len(history) : About(history[k]) = About(history[n]))'
    BY <2>1, <2>4
  <2>6. \A n \in 1 .. Len(queue') :
          (Tells(queue[n]) \/ \E k \in n + 1 .. Len(queue) : About(queue[k]) = About(queue[n]))'
    BY <2>1, <2>5
  <2> QED
    BY <2>3, <2>5, <2>6 DEF EventsTell
<1>7. ASSUME UNCHANGED << lane, open, history, queue, out >> PROVE EventsTell'
  BY <1>7 DEF EventsTell, Tells, InQueue, IsEventOf
<1>8. ASSUME ForwardEvent PROVE EventsTell'
  <2>1. /\ UNCHANGED << lane, open, history >> /\ queue # << >> /\ queue' = Tail(queue)
        /\ out' = Append(out, [kind |-> "event", event |-> queue[1]])
        /\ queue[1] \in BoardEvents
    BY <1>8, FirstTaken DEF ForwardEvent, daemonVars, BoardTyped
  <2>2. /\ Len(queue') = Len(queue) - 1
        /\ \A n \in 1 .. Len(queue') : n + 1 \in 1 .. Len(queue) /\ queue'[n] = queue[n + 1]
        /\ \A n \in 1 .. Len(queue) : n = 1 \/ (n - 1 \in 1 .. Len(queue') /\ queue'[n - 1] = queue[n])
        /\ 1 \in 1 .. Len(queue)
    BY <2>1, FirstTaken DEF BoardTyped
  <2>3. [kind |-> "event", event |-> queue[1]] \in Deliveries
    BY <2>1 DEF Deliveries, Announcements
  <2>4. /\ Len(out') = Len(out) + 1 /\ out'[Len(out) + 1] = [kind |-> "event", event |-> queue[1]]
        /\ \A n \in 1 .. Len(out) : n \in 1 .. Len(out') /\ out'[n] = out[n]
        /\ \A n \in 1 .. Len(out') : n \in 1 .. Len(out) \/ n = Len(out) + 1
    BY <2>1, <2>3, OutAdded
  <2>5. ASSUME NEW n \in 1 .. Len(queue')
        PROVE  Tells(queue[n])' \/ \E k \in n + 1 .. Len(queue') : About(queue'[k]) = About(queue'[n])
    <3>1. n + 1 \in 1 .. Len(queue) /\ queue'[n] = queue[n + 1]
      BY <2>2
    <3>2. CASE Tells(queue[n + 1])
      BY <1>5, <2>1, <3>1, <3>2
    <3>3. CASE \E k \in n + 2 .. Len(queue) : About(queue[k]) = About(queue[n + 1])
      <4>1. PICK k \in n + 2 .. Len(queue) : About(queue[k]) = About(queue[n + 1])
        BY <3>3
      <4>2. k - 1 \in n + 1 .. Len(queue') /\ k \in 1 .. Len(queue) /\ k # 1
        BY <1>w, <2>2, <4>1
      <4> QED
        BY <2>2, <3>1, <4>1, <4>2
    <3>4. (n + 1) + 1 = n + 2
      OBVIOUS
    <3> QED
      BY <3>1, <3>2, <3>3, <3>4 DEF EventsTell
  <2>6. ASSUME NEW x, InQueue(x) PROVE InQueue(x)' \/ IsEventOf(out'[Len(out) + 1], x)
    <3>1. PICK k \in 1 .. Len(queue) : About(queue[k]) = x
      BY <2>6 DEF InQueue
    <3>2. CASE k = 1
      BY <2>4, <3>1, <3>2 DEF IsEventOf
    <3>3. CASE k # 1
      BY <2>2, <3>1, <3>3 DEF InQueue
    <3> QED
      BY <3>2, <3>3
  <2>7. ASSUME NEW n \in 1 .. Len(out'), out'[n].kind = "event"
        PROVE  (\/ Tells(out[n].event)
                \/ \E k \in n + 1 .. Len(out) : IsEventOf(out[k], About(out[n].event))
                \/ InQueue(About(out[n].event)))'
    <3>1. PICK x : x = About(out'[n].event)
      OBVIOUS
    <3>2. CASE n \in 1 .. Len(out)
      <4>1. out'[n] = out[n]
        BY <2>4, <3>2
      <4>2. CASE Tells(out[n].event)
        BY <1>5, <2>1, <4>1, <4>2
      <4>3. CASE \E k \in n + 1 .. Len(out) : IsEventOf(out[k], x)
        <5>1. PICK k \in n + 1 .. Len(out) : IsEventOf(out[k], x)
          BY <4>3
        <5>2. k \in 1 .. Len(out) /\ k \in n + 1 .. Len(out')
          BY <1>w, <2>4, <3>2
        <5>3. IsEventOf(out'[k], x)
          BY <2>4, <5>1, <5>2
        <5> QED
          BY <3>1, <5>2, <5>3 DEF IsEventOf
      <4>4. CASE InQueue(x)
        <5>1. InQueue(x)' \/ IsEventOf(out'[Len(out) + 1], x)
          BY <2>6, <4>4
        <5>2. Len(out) + 1 \in n + 1 .. Len(out')
          BY <1>w, <2>4, <3>2
        <5> QED
          BY <3>1, <5>1, <5>2 DEF IsEventOf, InQueue
      <4> QED
        BY <2>7, <3>1, <3>2, <4>1, <4>2, <4>3, <4>4 DEF EventsTell
    <3>3. CASE n = Len(out) + 1
      <4>1. out'[n].event = queue[1]
        BY <2>4, <3>3
      <4>2. CASE Tells(queue[1])
        BY <1>5, <2>1, <4>1, <4>2
      <4>3. CASE \E k \in 2 .. Len(queue) : About(queue[k]) = About(queue[1])
        <5>1. PICK k \in 2 .. Len(queue) : About(queue[k]) = About(queue[1])
          BY <4>3
        <5>2. k \in 1 .. Len(queue) /\ k # 1
          BY <1>w
        <5>3. k - 1 \in 1 .. Len(queue') /\ About(queue'[k - 1]) = x
          BY <2>2, <3>1, <4>1, <5>1, <5>2
        <5>4. InQueue(x)'
          BY <5>3 DEF InQueue
        <5> QED
          BY <3>1, <5>4 DEF InQueue
      <4>4. 1 + 1 = 2
        OBVIOUS
      <4> QED
        BY <2>2, <4>2, <4>3, <4>4 DEF EventsTell
    <3> QED
      BY <2>4, <3>2, <3>3
  <2>8. \A n \in 1 .. Len(history') :
          (Tells(history[n]) \/ \E k \in n + 1 .. Len(history) : About(history[k]) = About(history[n]))'
    BY <1>5, <2>1 DEF EventsTell, Tells
  <2> QED
    BY <2>5, <2>7, <2>8 DEF EventsTell
<1>9. ASSUME SendAnswer PROVE EventsTell'
  <2>1. /\ serving.answer \in Deliveries /\ serving.answer.kind # "event"
        /\ UNCHANGED << lane, open, history, queue >> /\ out' = Append(out, serving.answer)
    BY <1>9, HandFields, AnswerFields DEF SendAnswer, Deliveries, BoardTyped, daemonVars
  <2>2. /\ Len(out') = Len(out) + 1 /\ out'[Len(out) + 1] = serving.answer
        /\ \A n \in 1 .. Len(out) : n \in 1 .. Len(out') /\ out'[n] = out[n]
        /\ \A n \in 1 .. Len(out') : n \in 1 .. Len(out) \/ n = Len(out) + 1
    BY <2>1, OutAdded
  <2>3. ASSUME NEW n \in 1 .. Len(out'), out'[n].kind = "event"
        PROVE  (\/ Tells(out[n].event)
                \/ \E k \in n + 1 .. Len(out) : IsEventOf(out[k], About(out[n].event))
                \/ InQueue(About(out[n].event)))'
    <3>1. PICK x : x = About(out'[n].event)
      OBVIOUS
    <3>2. n \in 1 .. Len(out) /\ out'[n] = out[n]
      BY <2>1, <2>2, <2>3
    <3>3. CASE Tells(out[n].event)
      BY <1>5, <2>1, <3>2, <3>3
    <3>4. CASE \E k \in n + 1 .. Len(out) : IsEventOf(out[k], x)
      <4>1. PICK k \in n + 1 .. Len(out) : IsEventOf(out[k], x)
        BY <3>4
      <4>2. k \in 1 .. Len(out) /\ k \in n + 1 .. Len(out')
        BY <1>w, <2>2, <3>2
      <4>3. IsEventOf(out'[k], x)
        BY <2>2, <4>1, <4>2
      <4> QED
        BY <3>1, <4>2, <4>3 DEF IsEventOf
    <3>5. CASE InQueue(x)
      BY <2>1, <3>1, <3>5 DEF InQueue
    <3> QED
      BY <2>3, <3>1, <3>2, <3>3, <3>4, <3>5 DEF EventsTell
  <2> QED
    BY <1>5, <2>1, <2>3 DEF EventsTell, Tells
<1>10. ASSUME TakeIn PROVE EventsTell'
  <2>1. out # << >> /\ out' = Tail(out) /\ UNCHANGED << lane, open, history, queue >>
    BY <1>10, TakeInDoes DEF daemonVars, connVars
  <2>2. /\ Len(out) \in Nat /\ Len(out') = Len(out) - 1
        /\ \A n \in 1 .. Len(out') : n + 1 \in 1 .. Len(out) /\ out'[n] = out[n + 1]
        /\ \A n \in 1 .. Len(out) : n = 1 \/ (n - 1 \in 1 .. Len(out') /\ out'[n - 1] = out[n])
    BY <2>1, OutTaken
  <2>3. ASSUME NEW n \in 1 .. Len(out'), out'[n].kind = "event"
        PROVE  (\/ Tells(out[n].event)
                \/ \E k \in n + 1 .. Len(out) : IsEventOf(out[k], About(out[n].event))
                \/ InQueue(About(out[n].event)))'
    <3>1. PICK x : x = About(out'[n].event)
      OBVIOUS
    <3>2. n + 1 \in 1 .. Len(out) /\ out'[n] = out[n + 1] /\ (n + 1) + 1 = n + 2
      BY <2>2
    <3>3. CASE Tells(out[n + 1].event)
      BY <1>5, <2>1, <3>2, <3>3
    <3>4. CASE \E k \in n + 2 .. Len(out) : IsEventOf(out[k], x)
      <4>1. PICK k \in n + 2 .. Len(out) : IsEventOf(out[k], x)
        BY <3>4
      <4>2. k \in 1 .. Len(out) /\ k # 1 /\ k - 1 \in n + 1 .. Len(out')
        BY <2>2, <3>2
      <4>3. IsEventOf(out'[k - 1], x)
        BY <2>2, <4>1, <4>2
      <4> QED
        BY <3>1, <4>2, <4>3 DEF IsEventOf
    <3>5. CASE InQueue(x)
      BY <2>1, <3>1, <3>5 DEF InQueue
    <3> QED
      BY <2>3, <3>1, <3>2, <3>3, <3>4, <3>5 DEF EventsTell
  <2> QED
    BY <1>5, <2>1, <2>3 DEF EventsTell, Tells
<1>11. ASSUME Drop PROVE EventsTell'
  <2>1. UNCHANGED << lane, open, history >> /\ queue' = << >> /\ out' = << >>
    BY <1>11 DEF Drop, daemonVars
  <2>2. Len(queue') = 0 /\ Len(out') = 0
    BY <2>1
  <2>3. \A n \in 1 .. Len(history') :
          (Tells(history[n]) \/ \E k \in n + 1 .. Len(history) : About(history[k]) = About(history[n]))'
    BY <1>5, <2>1 DEF EventsTell, Tells
  <2> QED
    BY <2>2, <2>3 DEF EventsTell
<1>12. ASSUME \/ \E c \in BoardCards, l \in BoardLanes : DragCard(c, l)
              \/ ReadAnswer \/ Connect \/ Refresh \/ Reconnect
       PROVE UNCHANGED << lane, open, history, queue, out >>
  BY <1>12 DEF DragCard, ReadAnswer, Connect, Refresh, Reconnect, daemonVars, connVars, deskVars
<1>13. ASSUME NEW r \in BoardRequests, RefusesMove(r) \/ Reads(r)
       PROVE  UNCHANGED << lane, open, history, queue, out >>
  BY <1>13 DEF RefusesMove, Reads, TakesUp
<1>14. ASSUME Serve PROVE EventsTell'
  BY <1>4, <1>6, <1>7, <1>13, <1>14, ServeDoes
<1> QED
  BY <1>1, <1>2, <1>3, <1>7, <1>8, <1>9, <1>10, <1>11, <1>12, <1>14 DEF BoardNext, Daemon

\* The log only grows, and so does what has been raised.
LEMMA LogGrows ==
    ASSUME BoardTyped, BoardNext
    PROVE  /\ history' = history \/ \E e \in BoardEvents : Announce(e)
           /\ \A x : InHistory(x) => InHistory(x)'
           /\ Raised \subseteq Raised'
<1>1. history' = history \/ \E e \in BoardEvents : Announce(e)
  <2>1. ASSUME NEW c \in BoardCards, NEW l \in BoardLanes, OthersMove(c, l) PROVE \E e \in BoardEvents : Announce(e)
    BY <2>1, OthersAnnounce DEF OthersMove
  <2>2. ASSUME NEW c \in BoardCards, NEW k \in Keys, OthersRaise(c, k) \/ OthersResolve(c, k)
        PROVE \E e \in BoardEvents : Announce(e)
    BY <2>2, OthersAnnounce DEF OthersRaise, OthersResolve
  <2>3. ASSUME Serve PROVE history' = history \/ \E e \in BoardEvents : Announce(e)
    <3>1. PICK r \in BoardRequests : MakesMove(r) \/ RefusesMove(r) \/ HearsLog(r) \/ Reads(r)
      BY <2>3, ServeDoes
    <3>2. CASE MakesMove(r)
      BY <3>2, RequestFields, OthersAnnounce DEF MakesMove
    <3> QED
      BY <3>1, <3>2 DEF RefusesMove, HearsLog, Reads
  <2>4. ASSUME NEW c \in BoardCards, NEW l \in BoardLanes, DragCard(c, l) PROVE history' = history
    BY <2>4 DEF DragCard, daemonVars
  <2>5. ASSUME TakeIn PROVE history' = history
    BY <2>5, TakeInDoes DEF daemonVars
  <2>6. ASSUME ForwardEvent \/ ReadAnswer \/ SendAnswer \/ Connect \/ Refresh \/ Drop \/ Reconnect
        PROVE  history' = history
    BY <2>6 DEF ForwardEvent, ReadAnswer, SendAnswer, Connect, Refresh, Drop, Reconnect, daemonVars
  <2> QED
    BY <2>1, <2>2, <2>3, <2>4, <2>5, <2>6 DEF BoardNext, Daemon
<1>2. /\ Len(history) \in Nat /\ history \in Seq(BoardEvents)
      /\ \A n \in 1 .. Len(history) : n \in 1 .. Len(history') /\ history'[n] = history[n]
      /\ history' \in Seq(BoardEvents)
  <2>0. history \in Seq(BoardEvents) /\ Len(history) \in Nat
    BY BoardWires DEF BoardTyped
  <2>1. CASE history' = history
    BY <2>0, <2>1
  <2>2. CASE \E e \in BoardEvents : Announce(e)
    <3>1. /\ history' \in Seq(BoardEvents) /\ Len(history') = Len(history) + 1
          /\ \A n \in 1 .. Len(history) : history'[n] = history[n]
      BY <2>2, AnnounceAdds
    <3> QED
      BY <2>0, <3>1
  <2> QED
    BY <1>1, <2>1, <2>2
<1>3. ASSUME NEW x, InHistory(x) PROVE InHistory(x)'
  <2>1. PICK n \in 1 .. Len(history) : About(history[n]) = x
    BY <1>3 DEF InHistory
  <2>2. n \in 1 .. Len(history') /\ About(history'[n]) = x
    BY <1>2, <2>1
  <2> QED
    BY <2>2 DEF InHistory
<1>4. Raised \subseteq Raised'
  <2>1. DOMAIN history = 1 .. Len(history) /\ DOMAIN history' = 1 .. Len(history')
    BY <1>2
  <2> QED
    BY <1>2, <2>1 DEF Raised
<1> QED
  BY <1>1, <1>3, <1>4

\* After an announcement its subject is in the log.
LEMMA Announced ==
    ASSUME BoardTyped, NEW e \in BoardEvents, Announce(e)
    PROVE  /\ InHistory(About(e))'
           /\ subscribed => InQueue(About(e))'
           /\ \A x : InQueue(x) => InQueue(x)'
           /\ \A x : InQueue(x)' => InQueue(x) \/ x = About(e)
           /\ e.type = "raised" => << e.card, e.key >> \in Raised'
<1>1. /\ history' \in Seq(BoardEvents) /\ Len(history') = Len(history) + 1
      /\ history'[Len(history) + 1] = e
      /\ subscribed => /\ Len(queue') = Len(queue) + 1 /\ queue'[Len(queue) + 1] = e
                       /\ \A n \in 1 .. Len(queue) : queue'[n] = queue[n]
      /\ ~subscribed => queue' = queue
  BY AnnounceAdds
<1>2. Len(history) \in Nat /\ Len(queue) \in Nat /\ subscribed \in BOOLEAN
  BY BoardWires DEF BoardTyped
<1>3. Len(history) + 1 \in 1 .. Len(history') /\ Len(history) + 1 \in DOMAIN history'
  BY <1>1, <1>2
<1>4. InHistory(About(e))'
  BY <1>1, <1>3 DEF InHistory
<1>5. subscribed => InQueue(About(e))'
  <2>1. subscribed => Len(queue) + 1 \in 1 .. Len(queue')
    BY <1>1, <1>2
  <2> QED
    BY <1>1, <2>1 DEF InQueue
<1>6. ASSUME NEW x, InQueue(x) PROVE InQueue(x)'
  <2>1. PICK n \in 1 .. Len(queue) : About(queue[n]) = x
    BY <1>6 DEF InQueue
  <2>2. n \in 1 .. Len(queue') /\ About(queue'[n]) = x
    BY <1>1, <1>2, <2>1
  <2> QED
    BY <2>2 DEF InQueue
<1>7. ASSUME NEW x, InQueue(x)' PROVE InQueue(x) \/ x = About(e)
  <2>1. PICK n \in 1 .. Len(queue') : About(queue'[n]) = x
    BY <1>7 DEF InQueue
  <2>2. CASE n \in 1 .. Len(queue)
    BY <1>1, <1>2, <2>1, <2>2 DEF InQueue
  <2>3. CASE ~ n \in 1 .. Len(queue)
    <3>1. subscribed /\ n = Len(queue) + 1
      BY <1>1, <1>2, <2>1, <2>3
    <3> QED
      BY <1>1, <2>1, <3>1
  <2> QED
    BY <2>2, <2>3
<1>8. e.type = "raised" => << e.card, e.key >> \in Raised'
  <2>1. ASSUME e.type = "raised" PROVE << e.card, e.key >> \in Items /\ e = [type |-> "raised", card |-> e.card, key |-> e.key]
    BY <2>1 DEF BoardEvents, Items
  <2> QED
    BY <1>1, <1>3, <2>1 DEF Raised
<1> QED
  BY <1>4, <1>5, <1>6, <1>7, <1>8

\* What has happened goes on having happened.
LEMMA AnnounceHappened ==
    ASSUME BoardTyped, BoardNext, EventsHappened, NEW e \in BoardEvents, Announce(e), out' = out,
           e.type = "resolved" => << e.card, e.key >> \in Raised,
           open' \subseteq open \/ (e.type = "raised" /\ open' = open \cup {<< e.card, e.key >>})
    PROVE  EventsHappened'
<1>0. /\ \A x : InHistory(x) => InHistory(x)'
      /\ Raised \subseteq Raised'
  BY LogGrows
<1>1. /\ InHistory(About(e))'
      /\ e.type = "raised" => << e.card, e.key >> \in Raised'
      /\ \A x : InQueue(x)' => InQueue(x) \/ x = About(e)
  BY Announced
<1>2. ASSUME NEW n \in 1 .. Len(queue') PROVE InHistory(About(queue[n]))'
  <2>1. PICK x : x = About(queue'[n])
    OBVIOUS
  <2>2. InQueue(x)'
    BY <2>1 DEF InQueue
  <2>3. InQueue(x) => InHistory(x)
    BY DEF InQueue, EventsHappened
  <2>4. InHistory(x)'
    BY <1>0, <1>1, <2>2, <2>3
  <2> QED
    BY <2>1, <2>4 DEF InHistory
<1>3. ASSUME NEW n \in 1 .. Len(out'), out'[n].kind = "event" PROVE InHistory(About(out[n].event))'
  <2>1. PICK x : x = About(out[n].event)
    OBVIOUS
  <2>2. InHistory(x)'
    BY <1>0, <1>3, <2>1 DEF EventsHappened
  <2> QED
    BY <2>1, <2>2 DEF InHistory
<1>4. ASSUME NEW n \in 1 .. Len(history'), history'[n].type # "moved" PROVE About(history'[n]).of \in Raised'
  <2>1. /\ Len(history') = Len(history) + 1 /\ history'[Len(history) + 1] = e /\ Len(history) \in Nat
        /\ \A k \in 1 .. Len(history) : history'[k] = history[k]
    BY AnnounceAdds, BoardWires
  <2>2. CASE n = Len(history) + 1
    <3>1. e.type \in {"raised", "resolved"} /\ About(e).of = << e.card, e.key >>
      BY <1>4, <2>1, <2>2, EventFields DEF About
    <3> QED
      BY <1>0, <1>1, <2>1, <2>2, <3>1
  <2>3. CASE n \in 1 .. Len(history)
    BY <1>0, <1>4, <2>1, <2>3 DEF EventsHappened
  <2> QED
    BY <2>1, <2>2, <2>3
<1>5. open' \subseteq Raised'
  BY <1>0, <1>1 DEF EventsHappened
<1> QED
  BY <1>2, <1>3, <1>4, <1>5 DEF EventsHappened

LEMMA EventsHappenedStep ==
    ASSUME BoardTyped, EventsHappened, PhasesOK, BoardNext
    PROVE  EventsHappened'
<1>w. /\ Len(history) \in Nat /\ \A n \in 1 .. Len(history) : history[n] \in BoardEvents
      /\ Len(queue) \in Nat /\ \A n \in 1 .. Len(queue) : queue[n] \in BoardEvents
      /\ Len(out) \in Nat /\ \A n \in 1 .. Len(out) : out[n] \in Deliveries
  BY BoardWires
<1>1. ASSUME NEW c \in BoardCards, NEW l \in BoardLanes, OthersMove(c, l) PROVE EventsHappened'
  <2> DEFINE e == [type |-> "moved", card |-> c, to |-> l]
  <2>1. e \in BoardEvents
    BY OthersAnnounce
  <2>2. e.type = "moved" /\ open' = open /\ Announce(e) /\ out' = out
    BY <1>1 DEF OthersMove
  <2> HIDE DEF e
  <2> QED
    BY <2>1, <2>2, AnnounceHappened
<1>2. ASSUME NEW c \in BoardCards, NEW k \in Keys, OthersRaise(c, k) PROVE EventsHappened'
  <2> DEFINE e == [type |-> "raised", card |-> c, key |-> k]
  <2>1. e \in BoardEvents
    BY OthersAnnounce
  <2>2. /\ e.type = "raised" /\ open' = open \cup {<< e.card, e.key >>}
        /\ Announce(e) /\ out' = out
    BY <1>2 DEF OthersRaise
  <2> HIDE DEF e
  <2> QED
    BY <2>1, <2>2, AnnounceHappened
<1>3. ASSUME NEW c \in BoardCards, NEW k \in Keys, OthersResolve(c, k) PROVE EventsHappened'
  <2> DEFINE e == [type |-> "resolved", card |-> c, key |-> k]
  <2>1. e \in BoardEvents
    BY OthersAnnounce
  <2>2. /\ e.type = "resolved" /\ open' \subseteq open /\ << e.card, e.key >> \in Raised
        /\ Announce(e) /\ out' = out
    BY <1>3 DEF OthersResolve, EventsHappened
  <2> HIDE DEF e
  <2> QED
    BY <2>1, <2>2, AnnounceHappened
<1>4. ASSUME NEW r \in BoardRequests, MakesMove(r) PROVE EventsHappened'
  <2> DEFINE e == [type |-> "moved", card |-> r.card, to |-> r.to]
  <2>1. r.card \in BoardCards /\ r.to \in BoardLanes
    BY <1>4, RequestFields DEF MakesMove
  <2>2. e \in BoardEvents
    BY <2>1, OthersAnnounce
  <2>3. e.type = "moved" /\ open' = open /\ Announce(e) /\ out' = out
    BY <1>4 DEF MakesMove, TakesUp
  <2> HIDE DEF e
  <2> QED
    BY <2>2, <2>3, AnnounceHappened
<1>5. ASSUME open' = open, history' = history,
             \A n \in 1 .. Len(queue') : \E k \in 1 .. Len(queue) : queue'[n] = queue[k],
             \A n \in 1 .. Len(out') : out'[n].kind = "event" =>
                \/ \E k \in 1 .. Len(out) : out'[n] = out[k]
                \/ \E k \in 1 .. Len(queue) : out'[n].event = queue[k]
      PROVE  EventsHappened'
  <2>1. \A x : InHistory(x)' <=> InHistory(x)
    BY <1>5 DEF InHistory
  <2>2. ASSUME NEW n \in 1 .. Len(queue') PROVE InHistory(About(queue[n]))'
    <3>1. PICK x : x = About(queue'[n])
      OBVIOUS
    <3>2. InHistory(x)'
      BY <1>5, <2>1, <3>1 DEF EventsHappened
    <3> QED
      BY <3>1, <3>2 DEF InHistory
  <2>3. ASSUME NEW n \in 1 .. Len(out'), out'[n].kind = "event" PROVE InHistory(About(out[n].event))'
    <3>1. PICK x : x = About(out'[n].event)
      OBVIOUS
    <3>2. InHistory(x)'
      BY <1>5, <2>1, <2>3, <3>1 DEF EventsHappened
    <3> QED
      BY <3>1, <3>2 DEF InHistory
  <2>4. Raised' = Raised
    BY <1>5 DEF Raised
  <2> QED
    BY <1>5, <2>2, <2>3, <2>4 DEF EventsHappened
<1>6. ASSUME NEW r \in BoardRequests, HearsLog(r) PROVE EventsHappened'
  <2>1. open' = open /\ history' = history /\ queue' = history /\ out' = out
    BY <1>6 DEF HearsLog, TakesUp
  <2>2. \A x : InHistory(x)' <=> InHistory(x)
    BY <2>1 DEF InHistory
  <2>3. ASSUME NEW n \in 1 .. Len(queue') PROVE InHistory(About(queue[n]))'
    BY <2>1 DEF InHistory
  <2>4. ASSUME NEW n \in 1 .. Len(out'), out'[n].kind = "event" PROVE InHistory(About(out[n].event))'
    <3>1. PICK x : x = About(out'[n].event)
      OBVIOUS
    <3>2. InHistory(x)'
      BY <2>1, <2>2, <2>4, <3>1 DEF EventsHappened
    <3> QED
      BY <3>1, <3>2 DEF InHistory
  <2>5. Raised' = Raised
    BY <2>1 DEF Raised
  <2> QED
    BY <2>1, <2>3, <2>4, <2>5 DEF EventsHappened
<1>7. ASSUME UNCHANGED << open, history, queue, out >> PROVE EventsHappened'
  BY <1>5, <1>7
<1>8. ASSUME ForwardEvent PROVE EventsHappened'
  <2>1. /\ UNCHANGED << open, history >> /\ queue # << >> /\ queue' = Tail(queue)
        /\ out' = Append(out, [kind |-> "event", event |-> queue[1]])
        /\ queue[1] \in BoardEvents
    BY <1>8, FirstTaken DEF ForwardEvent, daemonVars, BoardTyped
  <2>2. /\ \A n \in 1 .. Len(queue') : n + 1 \in 1 .. Len(queue) /\ queue'[n] = queue[n + 1]
        /\ 1 \in 1 .. Len(queue)
    BY <2>1, FirstTaken DEF BoardTyped
  <2>3. [kind |-> "event", event |-> queue[1]] \in Deliveries
    BY <2>1 DEF Deliveries, Announcements
  <2>4. /\ out'[Len(out) + 1] = [kind |-> "event", event |-> queue[1]]
        /\ \A n \in 1 .. Len(out) : n \in 1 .. Len(out') /\ out'[n] = out[n]
        /\ \A n \in 1 .. Len(out') : n \in 1 .. Len(out) \/ n = Len(out) + 1
    BY <2>1, <2>3, OutAdded
  <2>5. ASSUME NEW n \in 1 .. Len(out')
        PROVE  \/ \E k \in 1 .. Len(out) : out'[n] = out[k]
               \/ \E k \in 1 .. Len(queue) : out'[n].event = queue[k]
    BY <2>2, <2>4
  <2> QED
    BY <1>5, <2>1, <2>2, <2>5
<1>9. ASSUME SendAnswer PROVE EventsHappened'
  <2>1. /\ serving.answer \in Deliveries /\ serving.answer.kind # "event"
        /\ UNCHANGED << open, history, queue >> /\ out' = Append(out, serving.answer)
    BY <1>9, HandFields, AnswerFields DEF SendAnswer, Deliveries, BoardTyped, daemonVars
  <2>2. /\ out'[Len(out) + 1] = serving.answer
        /\ \A n \in 1 .. Len(out) : n \in 1 .. Len(out') /\ out'[n] = out[n]
        /\ \A n \in 1 .. Len(out') : n \in 1 .. Len(out) \/ n = Len(out) + 1
    BY <2>1, OutAdded
  <2> QED
    BY <1>5, <2>1, <2>2
<1>10. ASSUME TakeIn PROVE EventsHappened'
  <2>1. out # << >> /\ out' = Tail(out) /\ UNCHANGED << open, history, queue >>
    BY <1>10, TakeInDoes DEF daemonVars, connVars
  <2>2. \A n \in 1 .. Len(out') : n + 1 \in 1 .. Len(out) /\ out'[n] = out[n + 1]
    BY <2>1, OutTaken
  <2> QED
    BY <1>5, <2>1, <2>2
<1>11. ASSUME Drop PROVE EventsHappened'
  <2>1. UNCHANGED << open, history >> /\ queue' = << >> /\ out' = << >>
    BY <1>11 DEF Drop, daemonVars
  <2>2. Len(queue') = 0 /\ Len(out') = 0
    BY <2>1
  <2> QED
    BY <1>5, <2>1, <2>2
<1>12. ASSUME \/ \E c \in BoardCards, l \in BoardLanes : DragCard(c, l)
              \/ ReadAnswer \/ Connect \/ Refresh \/ Reconnect
       PROVE UNCHANGED << open, history, queue, out >>
  BY <1>12 DEF DragCard, ReadAnswer, Connect, Refresh, Reconnect, daemonVars, connVars, deskVars
<1>13. ASSUME NEW r \in BoardRequests, RefusesMove(r) \/ Reads(r)
       PROVE  UNCHANGED << open, history, queue, out >>
  BY <1>13 DEF RefusesMove, Reads, TakesUp
<1>14. ASSUME Serve PROVE EventsHappened'
  BY <1>4, <1>6, <1>7, <1>13, <1>14, ServeDoes
<1> QED
  BY <1>1, <1>2, <1>3, <1>7, <1>8, <1>9, <1>10, <1>11, <1>12, <1>14 DEF BoardNext, Daemon

LEMMA NoBoardIsNone == ASSUME NEW b \in Boards, NEW c \in BoardCards PROVE b # NoBoard
<1>1. DOMAIN b = BoardCards /\ DOMAIN NoBoard = {}
  BY DEF Boards, NoBoard
<1> QED
  BY <1>1

LEMMA ReqsTaken ==
    ASSUME BoardTyped, reqs # << >>, reqs' = Tail(reqs)
    PROVE  /\ Len(reqs) \in Nat /\ Len(reqs') = Len(reqs) - 1 /\ 1 \in 1 .. Len(reqs)
           /\ \A n \in 1 .. Len(reqs') : n + 1 \in 1 .. Len(reqs) /\ reqs'[n] = reqs[n + 1]
           /\ \A n \in 1 .. Len(reqs) : n = 1 \/ (n - 1 \in 1 .. Len(reqs') /\ reqs'[n - 1] = reqs[n])
BY FirstTaken DEF BoardTyped

LEMMA ReqsAdded ==
    ASSUME BoardTyped, NEW m \in BoardRequests, reqs' = Append(reqs, m)
    PROVE  /\ Len(reqs) \in Nat /\ Len(reqs') = Len(reqs) + 1 /\ reqs'[Len(reqs) + 1] = m
           /\ \A n \in 1 .. Len(reqs) : n \in 1 .. Len(reqs') /\ reqs'[n] = reqs[n]
           /\ \A n \in 1 .. Len(reqs') : n \in 1 .. Len(reqs) \/ n = Len(reqs) + 1
<1>1. /\ Len(reqs) \in Nat /\ Len(reqs') = Len(reqs) + 1 /\ reqs'[Len(reqs) + 1] = m
      /\ \A n \in 1 .. Len(reqs) : reqs'[n] = reqs[n]
  BY OneAdded DEF BoardTyped
<1> QED
  BY <1>1

LEMMA ReqsSnapshot ==
    ASSUME BoardTyped, reqs' = reqs \o Snapshot
    PROVE  /\ Len(reqs) \in Nat /\ Len(reqs') = Len(reqs) + 2
           /\ reqs'[Len(reqs) + 1] = [kind |-> "cards"] /\ reqs'[Len(reqs) + 2] = [kind |-> "fleet"]
           /\ \A n \in 1 .. Len(reqs) : n \in 1 .. Len(reqs') /\ reqs'[n] = reqs[n]
           /\ \A n \in 1 .. Len(reqs') : n \in 1 .. Len(reqs) \/ n = Len(reqs) + 1 \/ n = Len(reqs) + 2
           /\ Len(reqs) + 1 \in 1 .. Len(reqs') /\ Len(reqs) + 2 \in 1 .. Len(reqs')
<1>1. /\ Len(reqs) \in Nat /\ Len(reqs') = Len(reqs) + 2
      /\ reqs'[Len(reqs) + 1] = [kind |-> "cards"] /\ reqs'[Len(reqs) + 2] = [kind |-> "fleet"]
      /\ \A n \in 1 .. Len(reqs) : reqs'[n] = reqs[n]
  BY SnapshotAdded DEF BoardTyped
<1> QED
  BY <1>1

\* A snapshot asked for anew is all that is asked for.
LEMMA SnapshotAlone ==
    /\ Len(Snapshot) = 2 /\ Snapshot[1] = [kind |-> "cards"] /\ Snapshot[2] = [kind |-> "fleet"]
    /\ \A n \in 1 .. Len(Snapshot) : Snapshot[n].kind \in {"cards", "fleet"} /\ (Snapshot[n].kind = "fleet" => n = Len(Snapshot))
BY DEF Snapshot

\* The phases of a connection follow each other.
LEMMA PhasesStep ==
    ASSUME BoardTyped, PhasesOK, PairsOK, MovesOK, BoardNext
    PROVE  PhasesOK'
<1> USE DEF daemonVars, connVars, deskVars
<1>w. /\ Len(reqs) \in Nat /\ Len(out) \in Nat
      /\ \A n \in 1 .. Len(reqs) : reqs[n] \in BoardRequests
      /\ \A n \in 1 .. Len(out) : out[n] \in Deliveries
      /\ serving \in Hands /\ subscribed \in BOOLEAN
  BY BoardWires DEF BoardTyped
<1>e. /\ \A q \in Seq(BoardRequests) : q = << >> <=> Len(q) = 0
      /\ \A q \in Seq(Deliveries) : q = << >> <=> Len(q) = 0
  BY EmptySeq
<1>1. ASSUME \/ \E c \in BoardCards, l \in BoardLanes : OthersMove(c, l)
             \/ \E c \in BoardCards, k \in Keys : OthersRaise(c, k) \/ OthersResolve(c, k)
      PROVE PhasesOK'
  <2>1. /\ UNCHANGED << link, reqs, out, serving, half, moving, subscribed, boot, board, source >>
        /\ ~subscribed => queue' = queue
    BY <1>1 DEF OthersMove, OthersRaise, OthersResolve, Announce
  <2> QED
    BY <2>1 DEF PhasesOK, LoadingOK, SubscribesFirst
<1>2. ASSUME ForwardEvent PROVE PhasesOK'
  <2>1. /\ UNCHANGED << link, reqs, serving, half, moving, subscribed, boot, board, source >>
        /\ queue # << >>
    BY <1>2 DEF ForwardEvent
  <2>2. subscribed /\ link # "down" /\ source = "live" /\ boot \notin {"connect", "load"}
    BY <2>1 DEF PhasesOK
  <2> QED
    BY <2>1, <2>2 DEF PhasesOK, LoadingOK, SubscribesFirst
<1>3. ASSUME NEW r \in BoardRequests, TakesUp(r) PROVE
            /\ reqs # << >> /\ reqs' = Tail(reqs) /\ r = reqs[1] /\ serving = Nothing
            /\ UNCHANGED << out, link, boot, source, board, half, moving >>
            /\ link # "down" /\ source = "live" /\ boot # "connect" /\ SubscribesFirst'
            /\ (boot = "load" => r.kind \in {"cards", "fleet"})
            /\ (r.kind = "subscribe" => boot = "up" /\ out = << >>)
  <2>1. /\ reqs # << >> /\ reqs' = Tail(reqs) /\ r = reqs[1] /\ serving = Nothing
        /\ UNCHANGED << out, link, boot, source, board, half, moving >>
    BY <1>3 DEF TakesUp
  <2>2. /\ \A n \in 1 .. Len(reqs') : n + 1 \in 1 .. Len(reqs) /\ reqs'[n] = reqs[n + 1]
        /\ 1 \in 1 .. Len(reqs)
    BY <2>1, ReqsTaken
  <2>3. link # "down" /\ source = "live" /\ boot # "connect"
    BY <2>1 DEF PhasesOK
  <2>4. ASSUME NEW n \in 1 .. Len(reqs') PROVE reqs'[n].kind # "subscribe"
    <3>1. n + 1 \in 1 .. Len(reqs) /\ reqs'[n] = reqs[n + 1] /\ n + 1 # 1
      BY <2>2
    <3> QED
      BY <3>1 DEF PhasesOK, SubscribesFirst
  <2>5. boot = "load" => r.kind \in {"cards", "fleet"}
    BY <2>1, <2>2 DEF PhasesOK, LoadingOK
  <2>6. r.kind = "subscribe" => boot = "up" /\ out = << >>
    BY <2>1, <2>2 DEF PhasesOK, SubscribesFirst
  <2>7. SubscribesFirst'
    BY <2>4 DEF SubscribesFirst
  <2> QED
    BY <2>1, <2>3, <2>5, <2>6, <2>7
<1>4. ASSUME NEW r \in BoardRequests, MakesMove(r) \/ RefusesMove(r) PROVE PhasesOK'
  <2>1. TakesUp(r) /\ r.kind = "move" /\ subscribed' = subscribed /\ (~subscribed => queue' = queue)
    BY <1>4 DEF MakesMove, RefusesMove, Announce
  <2>2. boot \notin {"connect", "load"}
    BY <1>3, <2>1
  <2> QED
    BY <1>3, <2>1, <2>2 DEF PhasesOK, LoadingOK
<1>5. ASSUME NEW r \in BoardRequests, HearsLog(r) PROVE PhasesOK'
  <2>1. TakesUp(r) /\ r.kind = "subscribe" /\ subscribed'
    BY <1>5 DEF HearsLog
  <2>2. boot = "up"
    BY <1>3, <2>1
  <2> QED
    BY <1>3, <2>1, <2>2 DEF PhasesOK
<1>6. ASSUME NEW r \in BoardRequests, Reads(r) PROVE PhasesOK'
  <2>1. TakesUp(r) /\ r.kind \in {"cards", "fleet"} /\ serving' = r /\ UNCHANGED << subscribed, queue >>
    BY <1>6 DEF Reads
  <2>2. ASSUME boot = "load" PROVE LoadingOK'
    <3>1. /\ Len(reqs') = Len(reqs) - 1 /\ 1 \in 1 .. Len(reqs)
          /\ \A n \in 1 .. Len(reqs') : n + 1 \in 1 .. Len(reqs) /\ reqs'[n] = reqs[n + 1]
      BY <1>3, <2>1, ReqsTaken
    <3>2. LoadingOK
      BY <2>2 DEF PhasesOK
    <3>3. \A n \in 1 .. Len(reqs') : reqs'[n].kind \in {"cards", "fleet"} /\ (reqs'[n].kind = "fleet" => n = Len(reqs'))
      <4>1. \A n \in 1 .. Len(reqs') : reqs[n + 1].kind = "fleet" => n + 1 = Len(reqs)
        BY <3>1, <3>2 DEF LoadingOK
      <4> QED
        BY <1>w, <3>1, <3>2, <4>1 DEF LoadingOK
    <3>4. r.kind = "fleet" => reqs' = << >>
      <4>1. r.kind = "fleet" => Len(reqs) = 1
        BY <1>3, <2>1, <3>1, <3>2 DEF LoadingOK
      <4>2. r.kind = "fleet" => Len(reqs') = 0
        <5>1. Len(reqs') = Len(reqs) - 1
          BY <3>1
        <5> QED
          BY ONLY <4>1, <5>1
      <4>3. reqs' \in Seq(BoardRequests)
        <5>1. reqs \in Seq(BoardRequests) /\ reqs # << >> /\ reqs' = Tail(reqs)
          BY <1>3, <2>1 DEF BoardTyped
        <5> QED
          BY ONLY <5>1, FirstTaken
      <4> QED
        BY <1>e, <4>2, <4>3
    <3>5. \A n \in 1 .. Len(out) : out[n].kind = "cards"
      BY <1>3, <2>1, <3>2 DEF LoadingOK
    <3> QED
      BY <1>3, <2>1, <3>3, <3>4, <3>5 DEF LoadingOK
  <2> QED
    BY <1>3, <2>1, <2>2 DEF PhasesOK
<1>7. ASSUME ReadAnswer PROVE PhasesOK'
  <2>1. PICK a \in BoardAnswers : ReadsFor(a)
    BY <1>7, ReadDoes
  <2>2. /\ serving.kind \in {"move", "cards", "fleet"} /\ serving' = [kind |-> "answer", answer |-> a]
        /\ UNCHANGED << reqs, out, queue, subscribed, link, boot, source, board, half, moving >>
        /\ (serving.kind \in {"cards", "fleet"} => a.kind = serving.kind)
    BY <2>1 DEF ReadsFor
  <2>3. serving # Nothing
    BY <2>2 DEF Nothing
  <2>4. link # "down" /\ source = "live" /\ boot # "connect" /\ \A n \in 1 .. Len(reqs) : reqs[n].kind # "subscribe"
    BY <2>3 DEF PhasesOK, SubscribesFirst
  <2>5. ASSUME boot = "load" PROVE LoadingOK'
    <3>1. serving.kind \in {"cards", "fleet"} /\ a.kind = serving.kind
      BY <2>2, <2>5 DEF PhasesOK, LoadingOK
    <3> QED
      BY <2>2, <2>3, <2>5, <3>1 DEF PhasesOK, LoadingOK
  <2> QED
    BY <2>2, <2>4, <2>5 DEF PhasesOK, SubscribesFirst
<1>8. ASSUME SendAnswer PROVE PhasesOK'
  <2>1. /\ serving.kind = "answer" /\ serving.answer \in Deliveries /\ serving.answer.kind # "event"
        /\ out' = Append(out, serving.answer) /\ serving' = Nothing
        /\ UNCHANGED << reqs, queue, subscribed, link, boot, source, board, half, moving >>
    BY <1>8, <1>w, HandFields, AnswerFields DEF SendAnswer, Deliveries
  <2>2. serving # Nothing
    BY <2>1 DEF Nothing
  <2>3. link # "down" /\ source = "live" /\ boot # "connect" /\ \A n \in 1 .. Len(reqs) : reqs[n].kind # "subscribe"
    BY <2>2 DEF PhasesOK, SubscribesFirst
  <2>4. /\ Len(out') = Len(out) + 1 /\ out'[Len(out) + 1] = serving.answer
        /\ \A n \in 1 .. Len(out') : (n \in 1 .. Len(out) /\ out'[n] = out[n]) \/ n = Len(out) + 1
    BY <2>1, OutAdded
  <2>5. ASSUME boot = "load" PROVE LoadingOK'
    <3>1. LoadingOK
      BY <2>5 DEF PhasesOK
    <3>2. /\ serving.answer.kind \in {"cards", "fleet"} /\ (serving.answer.kind = "fleet" => reqs = << >>)
          /\ \A n \in 1 .. Len(out) : out[n].kind = "cards"
      BY <2>1, <2>2, <3>1 DEF LoadingOK
    <3>3. \A n \in 1 .. Len(out') : /\ out'[n].kind \in {"cards", "fleet"}
                                     /\ out'[n].kind = "fleet" => n = Len(out') /\ reqs = << >>
      BY <2>4, <3>2
    <3>4. Nothing.kind = "nothing"
      BY DEF Nothing
    <3> QED
      BY <2>1, <3>1, <3>3, <3>4 DEF LoadingOK
  <2>6. ~subscribed => \A n \in 1 .. Len(out') : out'[n].kind # "event"
    BY <2>1, <2>4 DEF PhasesOK
  <2> QED
    BY <2>1, <2>3, <2>5, <2>6 DEF PhasesOK, SubscribesFirst
<1>9. ASSUME Connect PROVE PhasesOK'
  <2>1. /\ boot = "connect" /\ link = "down"
        /\ UNCHANGED << out, queue, serving, half, moving, subscribed >>
        /\ out = << >> /\ queue = << >> /\ serving = Nothing /\ half = NoBoard /\ moving = {} /\ ~subscribed
        /\ board = NoBoard /\ reqs = << >>
    BY <1>9 DEF PhasesOK, Connect
  <2>2. Len(out) = 0
    BY <2>1
  <2>3. CASE boot' = "load" /\ source' = "live" /\ link' = "up" /\ reqs' = Snapshot /\ board' = board
    <3>1. LoadingOK'
      BY <2>1, <2>2, <2>3, SnapshotAlone DEF LoadingOK, Nothing
    <3> QED
      BY <2>1, <2>2, <2>3, <3>1, SnapshotAlone DEF PhasesOK, SubscribesFirst
  <2>4. CASE boot' = "up" /\ source' = "empty" /\ board' = NoBoard /\ link' = link /\ reqs' = reqs
    <3>1. Len(reqs) = 0
      BY <2>1
    <3> QED
      BY <2>1, <2>2, <2>4, <3>1 DEF PhasesOK, SubscribesFirst
  <2> QED
    BY <1>9, <2>3, <2>4 DEF Connect
<1>10. ASSUME TakeIn PROVE
            /\ out # << >> /\ out[1] \in Deliveries /\ Head(out) = out[1]
            /\ UNCHANGED << link, source, serving, subscribed, queue >>
            /\ link # "down" /\ source = "live" /\ boot # "connect"
            /\ \A n \in 1 .. Len(reqs) : reqs[n].kind # "subscribe"
            /\ (~subscribed => \A n \in 1 .. Len(out') : out'[n].kind # "event")
            /\ Len(out') = Len(out) - 1 /\ 1 \in 1 .. Len(out) /\ out' \in Seq(Deliveries)
            /\ \A n \in 1 .. Len(out') : n + 1 \in 1 .. Len(out) /\ out'[n] = out[n + 1]
  <2>1. out # << >> /\ out[1] \in Deliveries /\ Head(out) = out[1] /\ out' = Tail(out)
        /\ UNCHANGED << link, source, serving, subscribed, queue >>
    BY <1>10, TakeInDoes
  <2>2. /\ Len(out') = Len(out) - 1 /\ 1 \in 1 .. Len(out) /\ out' \in Seq(Deliveries)
        /\ \A n \in 1 .. Len(out') : n + 1 \in 1 .. Len(out) /\ out'[n] = out[n + 1]
    BY <2>1, FirstTaken DEF BoardTyped
  <2>3. link # "down" /\ source = "live" /\ \A n \in 1 .. Len(reqs) : reqs[n].kind # "subscribe"
    BY <2>1 DEF PhasesOK, SubscribesFirst
  <2>4. boot # "connect"
    BY <2>3 DEF PhasesOK
  <2>5. ~subscribed => \A n \in 1 .. Len(out') : out'[n].kind # "event"
    BY <2>2 DEF PhasesOK
  <2> QED
    BY <2>1, <2>2, <2>3, <2>4, <2>5
<1>11. ASSUME TakeCards PROVE PhasesOK'
  <2>1. TakeIn /\ UNCHANGED << reqs, boot, board, moving >>
    BY <1>11 DEF TakeIn, TakeCards
  <2>2. ASSUME boot = "load" PROVE LoadingOK'
    <3>1. LoadingOK
      BY <2>2 DEF PhasesOK
    <3>2. \A n \in 1 .. Len(out') : out'[n].kind = "fleet" => n = Len(out')
      <4>1. \A n \in 1 .. Len(out') : out[n + 1].kind = "fleet" => n + 1 = Len(out)
        BY <1>10, <2>1, <3>1 DEF LoadingOK
      <4> QED
        BY <1>w, <1>10, <2>1, <4>1
    <3>3. \A n \in 1 .. Len(out') : /\ out'[n].kind \in {"cards", "fleet"}
                                     /\ out'[n].kind = "fleet" => serving = Nothing /\ reqs = << >>
      BY <1>10, <2>1, <3>1 DEF LoadingOK
    <3> QED
      BY <1>10, <2>1, <3>1, <3>2, <3>3 DEF LoadingOK
  <2> QED
    BY <1>10, <2>1, <2>2 DEF PhasesOK, SubscribesFirst
<1>12. ASSUME TakeFleet PROVE PhasesOK'
  <2>1. /\ TakeIn /\ UNCHANGED moving /\ boot' = "up" /\ board' = half /\ half' = NoBoard
        /\ reqs' = IF boot = "load" THEN Append(reqs, [kind |-> "subscribe"]) ELSE reqs
        /\ Head(out).kind = "fleet"
    BY <1>12 DEF TakeIn, TakeFleet, Arrives
  <2>2. half # NoBoard
    <3>1. CardsBefore(out, 1 - 1) \/ half # NoBoard
      BY <1>10, <2>1 DEF PairsOK
    <3>2. ~ CardsBefore(out, 1 - 1)
      BY DEF CardsBefore
    <3> QED
      BY <3>1, <3>2
  <2>3. SubscribesFirst'
    <3>1. CASE boot = "load"
      <4>1. Len(out) = 1 /\ serving = Nothing /\ reqs = << >> /\ ~subscribed
        BY <1>10, <2>1, <3>1 DEF PhasesOK, LoadingOK
      <4>2. Len(out') = 0
        BY <1>10, <2>1, <4>1
      <4>3. out' = << >>
        BY <1>e, <1>10, <2>1, <4>2
      <4>4. Len(reqs') = 1
        BY <2>1, <3>1, <4>1
      <4> QED
        BY <1>10, <2>1, <4>1, <4>3, <4>4 DEF SubscribesFirst
    <3>2. CASE boot # "load"
      BY <1>10, <2>1, <3>2 DEF SubscribesFirst
    <3> QED
      BY <3>1, <3>2
  <2> QED
    BY <1>10, <2>1, <2>2, <2>3 DEF PhasesOK
<1>13. ASSUME TakeSubscribed \/ TakeEvent \/ TakeMoved \/ TakeRefused PROVE PhasesOK'
  <2>1. TakeIn /\ UNCHANGED << reqs, boot, half >> /\ moving' \subseteq moving /\ Head(out).kind \notin {"cards", "fleet"}
    BY <1>13 DEF TakeIn, TakeSubscribed, TakeEvent, TakeMoved, TakeRefused, Arrives
  <2>2. boot # "load"
    BY <1>10, <2>1 DEF PhasesOK, LoadingOK
  <2>3. moving = {} => moving' = {}
    BY <2>1
  <2>4. board' = NoBoard => moving' = {}
    <3>1. CASE board = NoBoard
      BY <2>3, <3>1 DEF PhasesOK
    <3>2. CASE board # NoBoard /\ BoardCards # {}
      <4>1. PICK c : c \in BoardCards
        BY <3>2
      <4>2. board \in Boards
        BY <3>2 DEF BoardTyped
      <4>3. DOMAIN board' = BoardCards
        BY <1>13, <4>2 DEF TakeSubscribed, TakeEvent, BoardAfter, TakeMoved, TakeRefused, Boards
      <4>4. DOMAIN NoBoard = {}
        BY DEF NoBoard
      <4> QED
        BY <4>1, <4>3, <4>4
    <3>3. CASE BoardCards = {}
      <4>1. \A p \in moving : p.card \in BoardCards
        BY DEF BoardTyped
      <4>2. moving = {}
        BY <3>3, <4>1
      <4> QED
        BY <2>3, <4>2
    <3> QED
      BY <3>1, <3>2, <3>3
  <2>5. boot \in {"connect", "load"} => board' = NoBoard /\ moving' = {} /\ ~subscribed
    BY <1>10, <2>1, <2>2
  <2> QED
    BY <1>10, <2>1, <2>2, <2>4 DEF PhasesOK, SubscribesFirst
<1>14. ASSUME NEW c \in BoardCards, NEW l \in BoardLanes, DragCard(c, l) PROVE PhasesOK'
  <2>1. board # NoBoard /\ UNCHANGED << out, queue, serving, subscribed, link, boot, source, half >>
    BY <1>14 DEF DragCard
  <2>2. source = "live" /\ boot = "up"
    BY <2>1 DEF PhasesOK, BoardTyped
  <2>3. CASE link = "up"
    <3>1. /\ reqs' = Append(reqs, [kind |-> "move", id |-> moves + 1, card |-> c, to |-> l])
          /\ board' = [board EXCEPT ![c] = l]
      BY <1>14, <2>3 DEF DragCard
    <3>2. [kind |-> "move", id |-> moves + 1, card |-> c, to |-> l] \in BoardRequests
      BY BoardAssumption DEF BoardRequests, MoveRequests, BoardTyped
    <3>3. /\ reqs'[Len(reqs) + 1].kind = "move"
          /\ \A n \in 1 .. Len(reqs') : (n \in 1 .. Len(reqs) /\ reqs'[n] = reqs[n]) \/ n = Len(reqs) + 1
      BY <3>1, <3>2, ReqsAdded
    <3>4. SubscribesFirst'
      BY <2>1, <3>3 DEF PhasesOK, SubscribesFirst
    <3>5. board' # NoBoard
      BY <2>1, <3>1, NoBoardIsNone DEF BoardTyped, Boards
    <3> QED
      BY <2>1, <2>2, <2>3, <3>4, <3>5 DEF PhasesOK
  <2>4. CASE link # "up"
    <3>1. UNCHANGED << reqs, board, moving >>
      BY <1>14, <2>4 DEF DragCard
    <3> QED
      BY <2>1, <2>2, <3>1 DEF PhasesOK, SubscribesFirst
  <2> QED
    BY <2>3, <2>4
<1>15. ASSUME Refresh PROVE PhasesOK'
  <2>1. /\ boot = "up" /\ source = "live" /\ link = "up" /\ reqs' = reqs \o Snapshot
        /\ UNCHANGED << out, queue, serving, subscribed, link, boot, source, half, board, moving >>
    BY <1>15 DEF Refresh
  <2>2. \A n \in 1 .. Len(reqs') : (n \in 1 .. Len(reqs) /\ reqs'[n] = reqs[n]) \/ reqs'[n].kind # "subscribe"
    BY <2>1, ReqsSnapshot
  <2>3. SubscribesFirst'
    BY <2>1, <2>2 DEF PhasesOK, SubscribesFirst
  <2> QED
    BY <2>1, <2>3 DEF PhasesOK
<1>16. ASSUME Drop PROVE PhasesOK'
  <2>1. /\ link' = "down" /\ reqs' = << >> /\ out' = << >> /\ queue' = << >> /\ serving' = Nothing
        /\ ~subscribed' /\ moving' = {} /\ half' = NoBoard /\ boot' = "up" /\ source' = source
        /\ (board = NoBoard => board' = NoBoard)
    BY <1>16 DEF Drop
  <2>2. Len(reqs') = 0 /\ Len(out') = 0
    BY <2>1
  <2> QED
    BY <2>1, <2>2 DEF PhasesOK, SubscribesFirst
<1>17. ASSUME Reconnect PROVE PhasesOK'
  <2>1. /\ boot = "up" /\ link = "down" /\ link' = "up"
        /\ UNCHANGED << out, queue, serving, subscribed, boot, source, half, board, moving >>
        /\ reqs' = reqs \/ (source = "live" /\ reqs' = Snapshot)
    BY <1>17 DEF Reconnect
  <2>2. reqs = << >> /\ out = << >> /\ Len(reqs) = 0 /\ Len(out) = 0
    BY <2>1 DEF PhasesOK
  <2>3. SubscribesFirst'
    BY <2>1, <2>2, SnapshotAlone DEF SubscribesFirst
  <2> QED
    BY <2>1, <2>2, <2>3 DEF PhasesOK
<1>18. ASSUME Serve PROVE PhasesOK'
  BY <1>4, <1>5, <1>6, <1>18, ServeDoes
<1> QED
  BY <1>1, <1>2, <1>7, <1>8, <1>9, <1>11, <1>12, <1>13, <1>14, <1>15, <1>16, <1>17, <1>18 DEF BoardNext, Daemon, TakeIn

\* Where the cards of a snapshot are, when the first is taken or more is added.
LEMMA CardsOfRest ==
    ASSUME NEW q, NEW p, Len(q) \in Nat, Len(p) = Len(q) - 1,
           \A n \in 1 .. Len(p) : p[n] = q[n + 1], NEW n \in 1 .. Len(q)
    PROVE  /\ NoFleet(q, n) => NoFleet(p, n - 1)
           /\ CardsBefore(q, n) => CardsBefore(p, n - 1) \/ (q[1].kind = "cards" /\ NoFleet(p, n - 1))
<1>1. ASSUME NEW m \in Int, ~ FleetIn(q, m + 1, n), m >= 0 PROVE ~ FleetIn(p, m, n - 1) \/ m = 0
  <2>1. ASSUME NEW k \in m .. n - 1, m # 0 PROVE p[k].kind # "fleet"
    <3>1. k \in 1 .. Len(p) /\ k + 1 \in m + 1 .. n
      BY <1>1, <2>1
    <3> QED
      BY <1>1, <3>1 DEF FleetIn
  <2> QED
    BY <2>1 DEF FleetIn
<1>2. ASSUME NoFleet(q, n) PROVE NoFleet(p, n - 1)
  <2>1. ASSUME NEW k \in 1 .. n - 1 PROVE p[k].kind # "fleet"
    <3>1. k \in 1 .. Len(p) /\ k + 1 \in 1 .. n
      OBVIOUS
    <3> QED
      BY <1>2, <3>1 DEF FleetIn, NoFleet
  <2> QED
    BY <2>1 DEF FleetIn, NoFleet
<1>3. ASSUME CardsBefore(q, n) PROVE CardsBefore(p, n - 1) \/ (q[1].kind = "cards" /\ NoFleet(p, n - 1))
  <2>1. PICK m \in 1 .. n : q[m].kind = "cards" /\ ~ FleetIn(q, m + 1, n)
    BY <1>3 DEF CardsBefore
  <2>2. ~ FleetIn(p, m, n - 1)
    BY <1>1, <2>1
  <2>3. CASE m = 1
    BY <2>1, <2>2, <2>3 DEF NoFleet
  <2>4. CASE m # 1
    <3>1. m - 1 \in 1 .. n - 1 /\ m - 1 \in 1 .. Len(p) /\ (m - 1) + 1 = m
      BY <2>4
    <3>2. p[m - 1].kind = "cards"
      BY <2>1, <3>1
    <3> QED
      BY <2>2, <3>1, <3>2 DEF CardsBefore
  <2> QED
    BY <2>3, <2>4
<1> QED
  BY <1>2, <1>3

LEMMA CardsOfMore ==
    ASSUME NEW q, NEW p, NEW N \in Nat, \A n \in 1 .. N : p[n] = q[n], NEW n \in 0 .. N
    PROVE  /\ NoFleet(q, n) => NoFleet(p, n)
           /\ CardsBefore(q, n) => CardsBefore(p, n)
<1>1. \A k \in 1 .. n : p[k] = q[k]
  OBVIOUS
<1>2. NoFleet(q, n) => NoFleet(p, n)
  BY <1>1 DEF NoFleet, FleetIn
<1>3. ASSUME CardsBefore(q, n) PROVE CardsBefore(p, n)
  <2>1. PICK m \in 1 .. n : q[m].kind = "cards" /\ ~ FleetIn(q, m + 1, n)
    BY <1>3 DEF CardsBefore
  <2>2. \A k \in m + 1 .. n : p[k] = q[k]
    BY <1>1
  <2>3. ~ FleetIn(p, m + 1, n)
    BY <2>1, <2>2 DEF FleetIn
  <2> QED
    BY <1>1, <2>1, <2>3 DEF CardsBefore
<1> QED
  BY <1>2, <1>3

LEMMA CardsOfNext ==
    ASSUME NEW p, NEW N \in Nat
    PROVE  /\ p[N + 1].kind # "fleet" /\ CardsBefore(p, N) => CardsBefore(p, N + 1)
           /\ p[N + 1].kind = "cards" => CardsBefore(p, N + 1)
           /\ p[N + 1].kind # "fleet" /\ NoFleet(p, N) => NoFleet(p, N + 1)
<1>1. ASSUME p[N + 1].kind # "fleet", CardsBefore(p, N) PROVE CardsBefore(p, N + 1)
  <2>1. PICK m \in 1 .. N : p[m].kind = "cards" /\ ~ FleetIn(p, m + 1, N)
    BY <1>1 DEF CardsBefore
  <2>2. \A k \in m + 1 .. N + 1 : k \in m + 1 .. N \/ k = N + 1
    OBVIOUS
  <2>3. ~ FleetIn(p, m + 1, N + 1) /\ m \in 1 .. N + 1
    BY <1>1, <2>1, <2>2 DEF FleetIn
  <2> QED
    BY <2>1, <2>3 DEF CardsBefore
<1>2. ASSUME p[N + 1].kind = "cards" PROVE CardsBefore(p, N + 1)
  <2>1. N + 1 \in 1 .. N + 1 /\ (N + 1) + 1 .. N + 1 = {}
    OBVIOUS
  <2> QED
    BY <1>2, <2>1 DEF CardsBefore, FleetIn
<1>3. ASSUME p[N + 1].kind # "fleet", NoFleet(p, N) PROVE NoFleet(p, N + 1)
  <2>1. \A k \in 1 .. N + 1 : k \in 1 .. N \/ k = N + 1
    OBVIOUS
  <2> QED
    BY <1>3, <2>1 DEF NoFleet, FleetIn
<1> QED
  BY <1>1, <1>2, <1>3

LEMMA NoneBefore == ASSUME NEW p PROVE ~ CardsBefore(p, 0) /\ NoFleet(p, 0)
BY DEF CardsBefore, NoFleet, FleetIn

\* What waits for a fleet, of the requests and of the rest, apart.
OutPairs == \A n \in 1 .. Len(out) : out[n].kind = "fleet" =>
                CardsBefore(out, n - 1) \/ (half # NoBoard /\ NoFleet(out, n - 1))
ReqPairs == \A n \in 1 .. Len(reqs) : reqs[n].kind = "fleet" =>
                \/ CardsBefore(reqs, n - 1)
                \/ NoFleet(reqs, n - 1) /\ (HandHas("cards") \/ (~HandHas("fleet") /\ CardsCome))

LEMMA PairsAre == PairsOK <=> OutPairs /\ (HandHas("fleet") => CardsCome) /\ ReqPairs
BY DEF PairsOK, OutPairs, ReqPairs

\* The requests when what they lean on still stands.
LEMMA ReqPairsKept ==
    ASSUME BoardTyped, ReqPairs,
           HandHas("cards") \/ (~HandHas("fleet") /\ CardsCome) => (HandHas("cards") \/ (~HandHas("fleet") /\ CardsCome))',
           Len(reqs') \in Nat, \A n \in 1 .. Len(reqs) : n \in 1 .. Len(reqs') /\ reqs'[n] = reqs[n],
           \A n \in 1 .. Len(reqs') : n \in 1 .. Len(reqs) \/ reqs'[n].kind # "fleet" \/ CardsBefore(reqs', n - 1)
    PROVE  ReqPairs'
<1>1. Len(reqs) \in Nat
  BY BoardWires
<1>2. ASSUME NEW n \in 1 .. Len(reqs'), reqs'[n].kind = "fleet", ~ CardsBefore(reqs', n - 1)
      PROVE  NoFleet(reqs', n - 1) /\ (HandHas("cards") \/ (~HandHas("fleet") /\ CardsCome))'
  <2>1. n \in 1 .. Len(reqs) /\ reqs[n].kind = "fleet" /\ n - 1 \in 0 .. Len(reqs)
    BY <1>1, <1>2
  <2>2. \A k \in 1 .. Len(reqs) : reqs'[k] = reqs[k]
    OBVIOUS
  <2>3. /\ NoFleet(reqs, n - 1) => NoFleet(reqs', n - 1)
        /\ CardsBefore(reqs, n - 1) => CardsBefore(reqs', n - 1)
    BY <1>1, <2>1, <2>2, CardsOfMore
  <2>4. NoFleet(reqs, n - 1) /\ (HandHas("cards") \/ (~HandHas("fleet") /\ CardsCome))
    BY <1>2, <2>1, <2>3 DEF ReqPairs
  <2> QED
    BY <2>3, <2>4
<1> QED
  BY <1>2 DEF ReqPairs

\* A delivery more.
LEMMA OutPairsMore ==
    ASSUME BoardTyped, OutPairs, half' = half, NEW m \in Deliveries, out' = Append(out, m),
           m.kind = "fleet" => CardsCome
    PROVE  /\ OutPairs'
           /\ m.kind # "fleet" /\ CardsCome => CardsCome'
           /\ m.kind = "cards" => CardsCome'
<1>1. /\ Len(out) \in Nat /\ Len(out') = Len(out) + 1 /\ out'[Len(out) + 1] = m
      /\ \A n \in 1 .. Len(out) : out'[n] = out[n]
      /\ \A n \in 1 .. Len(out') : n \in 1 .. Len(out) \/ n = Len(out) + 1
  BY OutAdded
<1>2. \A n \in 0 .. Len(out) : /\ NoFleet(out, n) => NoFleet(out', n)
                               /\ CardsBefore(out, n) => CardsBefore(out', n)
  BY <1>1, CardsOfMore
<1>3. ASSUME NEW n \in 1 .. Len(out'), out'[n].kind = "fleet"
      PROVE  CardsBefore(out', n - 1) \/ (half # NoBoard /\ NoFleet(out', n - 1))
  <2>1. n - 1 \in 0 .. Len(out)
    BY <1>1
  <2>2. CASE n \in 1 .. Len(out)
    BY <1>1, <1>2, <1>3, <2>1, <2>2 DEF OutPairs
  <2>3. CASE n = Len(out) + 1
    <3>1. n - 1 = Len(out) /\ CardsCome
      BY <1>1, <1>3, <2>3
    <3> QED
      BY <1>2, <2>1, <3>1 DEF CardsCome
  <2> QED
    BY <1>1, <2>2, <2>3
<1>4. Len(out) \in 0 .. Len(out)
  BY <1>1
<1>5. ASSUME m.kind # "fleet", CardsCome PROVE CardsCome'
  <2>1. CardsBefore(out', Len(out)) \/ (half # NoBoard /\ NoFleet(out', Len(out)))
    BY <1>2, <1>4, <1>5 DEF CardsCome
  <2>2. CardsBefore(out', Len(out) + 1) \/ (half # NoBoard /\ NoFleet(out', Len(out) + 1))
    BY <1>1, <1>5, <2>1, CardsOfNext
  <2> QED
    BY <1>1, <2>2 DEF CardsCome
<1>6. ASSUME m.kind = "cards" PROVE CardsCome'
  <2>1. CardsBefore(out', Len(out) + 1)
    BY <1>1, <1>6, CardsOfNext
  <2> QED
    BY <1>1, <2>1 DEF CardsCome
<1> QED
  BY <1>3, <1>5, <1>6 DEF OutPairs

\* A delivery less.
LEMMA OutPairsLess ==
    ASSUME BoardTyped, OutPairs, out # << >>, out' = Tail(out),
           \/ out[1].kind = "cards" /\ half' # NoBoard
           \/ out[1].kind = "fleet" /\ half' = NoBoard
           \/ out[1].kind \notin {"cards", "fleet"} /\ half' = half
    PROVE  OutPairs' /\ (CardsCome => CardsCome')
<1>1. /\ Len(out) \in Nat /\ Len(out') = Len(out) - 1 /\ 1 \in 1 .. Len(out)
      /\ \A n \in 1 .. Len(out') : out'[n] = out[n + 1]
      /\ \A n \in 1 .. Len(out') : n + 1 \in 1 .. Len(out)
  BY FirstTaken DEF BoardTyped
<1>2. \A n \in 1 .. Len(out) :
          /\ NoFleet(out, n) => NoFleet(out', n - 1)
          /\ CardsBefore(out, n) => CardsBefore(out', n - 1) \/ (out[1].kind = "cards" /\ NoFleet(out', n - 1))
  BY <1>1, CardsOfRest
<1>3. \A n \in 1 .. Len(out) : NoFleet(out, n) => out[1].kind # "fleet"
  BY DEF NoFleet, FleetIn
<1>4. ASSUME NEW n \in 1 .. Len(out), CardsBefore(out, n) \/ (half # NoBoard /\ NoFleet(out, n))
      PROVE  CardsBefore(out', n - 1) \/ (half' # NoBoard /\ NoFleet(out', n - 1))
  BY <1>2, <1>3, <1>4
<1>5. ASSUME NEW n \in 1 .. Len(out'), out'[n].kind = "fleet"
      PROVE  CardsBefore(out', n - 1) \/ (half' # NoBoard /\ NoFleet(out', n - 1))
  <2>1. n + 1 \in 1 .. Len(out) /\ out[n + 1].kind = "fleet" /\ (n + 1) - 1 = n /\ n \in 1 .. Len(out)
    BY <1>1, <1>5
  <2>2. CardsBefore(out, n) \/ (half # NoBoard /\ NoFleet(out, n))
    BY <2>1 DEF OutPairs
  <2> QED
    BY <1>4, <2>1, <2>2
<1>6. ASSUME CardsCome PROVE CardsCome'
  <2>1. Len(out) \in 1 .. Len(out) /\ Len(out) - 1 = Len(out')
    BY <1>1
  <2> QED
    BY <1>4, <1>6, <2>1 DEF CardsCome
<1> QED
  BY <1>5, <1>6 DEF OutPairs

\* The requests when the loop takes one up.
LEMMA ReqPairsLess ==
    ASSUME BoardTyped, ReqPairs, reqs # << >>, reqs' = Tail(reqs),
           NEW n \in 1 .. Len(reqs'), reqs'[n].kind = "fleet"
    PROVE  \/ CardsBefore(reqs', n - 1)
           \/ NoFleet(reqs', n - 1) /\ reqs[1].kind = "cards"
           \/ /\ NoFleet(reqs', n - 1) /\ reqs[1].kind # "fleet"
              /\ HandHas("cards") \/ (~HandHas("fleet") /\ CardsCome)
<1>1. /\ Len(reqs) \in Nat /\ Len(reqs') = Len(reqs) - 1 /\ 1 \in 1 .. Len(reqs)
      /\ \A k \in 1 .. Len(reqs') : reqs'[k] = reqs[k + 1]
  BY ReqsTaken
<1>2. n + 1 \in 1 .. Len(reqs) /\ (n + 1) - 1 = n /\ n \in 1 .. Len(reqs) /\ reqs[n + 1].kind = "fleet"
  BY <1>1
<1>3. /\ NoFleet(reqs, n) => NoFleet(reqs', n - 1)
      /\ CardsBefore(reqs, n) => CardsBefore(reqs', n - 1) \/ (reqs[1].kind = "cards" /\ NoFleet(reqs', n - 1))
  BY <1>1, <1>2, CardsOfRest
<1>4. NoFleet(reqs, n) => reqs[1].kind # "fleet"
  BY <1>2 DEF NoFleet, FleetIn
<1>5. \/ CardsBefore(reqs, n)
      \/ NoFleet(reqs, n) /\ (HandHas("cards") \/ (~HandHas("fleet") /\ CardsCome))
  BY <1>2 DEF ReqPairs
<1> QED
  BY <1>3, <1>4, <1>5

LEMMA PairsStep ==
    ASSUME BoardTyped, PhasesOK, PairsOK, BoardNext
    PROVE  PairsOK'
<1> USE DEF daemonVars, connVars, deskVars
<1>w. /\ Len(reqs) \in Nat /\ Len(out) \in Nat /\ serving \in Hands
      /\ \A n \in 1 .. Len(reqs) : reqs[n] \in BoardRequests
  BY BoardWires DEF BoardTyped
<1>p. OutPairs /\ (HandHas("fleet") => CardsCome) /\ ReqPairs
  BY PairsAre
<1>g. ASSUME OutPairs', (HandHas("fleet") => CardsCome)', ReqPairs' PROVE PairsOK'
  BY <1>g DEF PairsOK, OutPairs, ReqPairs
<1>0. ASSUME UNCHANGED << out, half >> PROVE OutPairs' /\ (CardsCome' <=> CardsCome)
  BY <1>p, <1>0 DEF OutPairs, CardsCome
<1>h. ASSUME UNCHANGED serving PROVE \A k : HandHas(k)' <=> HandHas(k)
  BY <1>h DEF HandHas
<1>1. ASSUME UNCHANGED << reqs, serving, out, half >> PROVE PairsOK'
  BY <1>1 DEF PairsOK, HandHas, CardsCome
<1>2. ASSUME \/ \E c \in BoardCards, l \in BoardLanes : OthersMove(c, l)
             \/ \E c \in BoardCards, k \in Keys : OthersRaise(c, k) \/ OthersResolve(c, k)
      PROVE  UNCHANGED << reqs, serving, out, half >>
  BY <1>2 DEF OthersMove, OthersRaise, OthersResolve
<1>3. ASSUME ForwardEvent PROVE PairsOK'
  <2> DEFINE m == [kind |-> "event", event |-> Head(queue)]
  <2>1. queue # << >> /\ queue \in Seq(BoardEvents)
    BY <1>3 DEF ForwardEvent, BoardTyped
  <2>2. m \in Deliveries
    BY <2>1, FirstTaken DEF Deliveries, Announcements
  <2>3. out' = Append(out, m) /\ m.kind = "event" /\ UNCHANGED << reqs, serving, half >>
    BY <1>3 DEF ForwardEvent
  <2> HIDE DEF m
  <2>4. OutPairs' /\ (CardsCome => CardsCome')
    BY <1>p, <2>2, <2>3, OutPairsMore
  <2>5. (HandHas("fleet") => CardsCome)'
    BY <1>h, <1>p, <2>3, <2>4
  <2>6. ReqPairs'
    BY <1>h, <1>p, <1>w, <2>3, <2>4, ReqPairsKept
  <2> QED
    BY <1>g, <2>4, <2>5, <2>6
<1>4. ASSUME NEW r \in BoardRequests, MakesMove(r) \/ RefusesMove(r) \/ HearsLog(r) \/ Reads(r) PROVE PairsOK'
  <2>1. /\ reqs # << >> /\ reqs' = Tail(reqs) /\ r = reqs[1] /\ serving = Nothing /\ UNCHANGED << out, half >>
        /\ r.kind \notin {"cards", "fleet"} => ~ HandHas("cards")' /\ ~ HandHas("fleet")'
        /\ r.kind = "cards" => HandHas("cards")' /\ ~ HandHas("fleet")'
        /\ r.kind = "fleet" => HandHas("fleet")'
    BY <1>4 DEF MakesMove, RefusesMove, HearsLog, Reads, TakesUp, HandHas
  <2>2. ~ HandHas("cards") /\ ~ HandHas("fleet")
    BY <2>1 DEF HandHas, Nothing
  <2>3. OutPairs' /\ (CardsCome' <=> CardsCome)
    BY <1>0, <2>1
  <2>4. r.kind = "fleet" => CardsCome
    <3>1. 1 \in 1 .. Len(reqs)
      BY <2>1, ReqsTaken
    <3>2. r.kind = "fleet" => CardsBefore(reqs, 1 - 1) \/ CardsCome
      BY <1>p, <2>1, <2>2, <3>1 DEF ReqPairs
    <3> QED
      BY <3>2, NoneBefore
  <2>5. (HandHas("fleet") => CardsCome)'
    BY <2>1, <2>3, <2>4
  <2>6. ASSUME NEW n \in 1 .. Len(reqs'), reqs'[n].kind = "fleet"
        PROVE  \/ CardsBefore(reqs', n - 1)
               \/ NoFleet(reqs', n - 1) /\ (HandHas("cards") \/ (~HandHas("fleet") /\ CardsCome))'
    <3>1. \/ CardsBefore(reqs', n - 1)
          \/ NoFleet(reqs', n - 1) /\ r.kind = "cards"
          \/ NoFleet(reqs', n - 1) /\ r.kind # "fleet" /\ CardsCome
      BY <1>p, <2>1, <2>2, <2>6, ReqPairsLess
    <3> QED
      BY <2>1, <2>3, <3>1
  <2>7. ReqPairs'
    BY <2>6 DEF ReqPairs
  <2> QED
    BY <1>g, <2>3, <2>5, <2>7
<1>5. ASSUME ReadAnswer PROVE PairsOK'
  <2>1. PICK a \in BoardAnswers : ReadsFor(a)
    BY <1>5, ReadDoes
  <2>2. UNCHANGED << reqs, out, half >> /\ (HandHas("fleet")' <=> HandHas("fleet")) /\ (HandHas("cards")' <=> HandHas("cards"))
    BY <2>1 DEF ReadsFor, HandHas
  <2>3. OutPairs' /\ (CardsCome' <=> CardsCome)
    BY <1>0, <2>2
  <2>4. (HandHas("fleet") => CardsCome)'
    BY <1>p, <2>2, <2>3
  <2>5. ReqPairs'
    BY <1>p, <1>w, <2>2, <2>3, ReqPairsKept
  <2> QED
    BY <1>g, <2>3, <2>4, <2>5
<1>6. ASSUME SendAnswer PROVE PairsOK'
  <2>1. /\ serving.kind = "answer" /\ serving.answer \in Deliveries
        /\ out' = Append(out, serving.answer) /\ serving' = Nothing /\ UNCHANGED << reqs, half >>
    BY <1>6, <1>w, HandFields DEF SendAnswer, Deliveries
  <2>2. \A k : HandHas(k) <=> serving.answer.kind = k \/ k = "answer"
    BY <2>1 DEF HandHas
  <2>3. ~ HandHas("fleet")' /\ ~ HandHas("cards")'
    BY <2>1 DEF HandHas, Nothing
  <2>4. /\ OutPairs'
        /\ serving.answer.kind # "fleet" /\ CardsCome => CardsCome'
        /\ serving.answer.kind = "cards" => CardsCome'
    BY <1>p, <2>1, <2>2, OutPairsMore
  <2>5. HandHas("cards") \/ (~HandHas("fleet") /\ CardsCome) => CardsCome'
    BY <2>2, <2>4
  <2>6. ReqPairs'
    BY <1>p, <1>w, <2>1, <2>3, <2>5, ReqPairsKept
  <2> QED
    BY <1>g, <2>3, <2>4, <2>6
<1>7. ASSUME serving' = Nothing, out' = << >>, half' = NoBoard, reqs' = << >> \/ reqs' = Snapshot PROVE PairsOK'
  <2>1. Len(out') = 0 /\ ~ HandHas("fleet")'
    BY <1>7 DEF HandHas, Nothing
  <2>2. OutPairs'
    BY <2>1 DEF OutPairs
  <2>3. ASSUME NEW n \in 1 .. Len(reqs'), reqs'[n].kind = "fleet" PROVE CardsBefore(reqs', n - 1)
    <3>1. reqs' # << >>
      <4>1. reqs' = << >> => Len(reqs') = 0
        OBVIOUS
      <4> QED
        BY <4>1
    <3>2. Len(reqs') = 2 /\ reqs'[1].kind = "cards" /\ reqs'[2].kind = "fleet"
      BY <1>7, <3>1, SnapshotAlone
    <3>3. n = 2 /\ n - 1 = 0 + 1
      BY <2>3, <3>2
    <3> QED
      BY <3>2, <3>3, CardsOfNext
  <2>4. ReqPairs'
    BY <2>3 DEF ReqPairs
  <2> QED
    BY <1>g, <2>1, <2>2, <2>4
<1>8. ASSUME Connect PROVE PairsOK'
  <2>1. /\ UNCHANGED << out, serving, half >> /\ (reqs' = Snapshot \/ reqs' = reqs)
        /\ out = << >> /\ serving = Nothing /\ half = NoBoard /\ reqs = << >>
    BY <1>8 DEF Connect, PhasesOK
  <2> QED
    BY <1>7, <2>1
<1>9. ASSUME Reconnect PROVE PairsOK'
  <2>1. /\ UNCHANGED << out, serving, half >> /\ (reqs' = Snapshot \/ reqs' = reqs)
        /\ out = << >> /\ serving = Nothing /\ half = NoBoard /\ reqs = << >>
    BY <1>9 DEF Reconnect, PhasesOK
  <2> QED
    BY <1>7, <2>1
<1>10. ASSUME Drop PROVE PairsOK'
  BY <1>7, <1>10 DEF Drop
<1>11. ASSUME TakeIn PROVE PairsOK'
  <2>1. out # << >> /\ Head(out) = out[1] /\ out[1] \in Deliveries /\ out' = Tail(out) /\ serving' = serving
        /\ 1 \in 1 .. Len(out)
    BY <1>11, TakeInDoes, FirstTaken DEF BoardTyped
  <2>2. \/ out[1].kind = "cards" /\ half' # NoBoard
        \/ out[1].kind = "fleet" /\ half' = NoBoard
        \/ out[1].kind \notin {"cards", "fleet"} /\ half' = half
    <3>1. CASE TakeCards
      <4>1. half' \in Boards
        BY <2>1, <3>1, DeliveryFields DEF TakeCards, Arrives
      <4> QED
        BY <2>1, <3>1, <4>1, NoBoardIsNone, BoardAssumption DEF TakeCards, Arrives
    <3>2. CASE ~ TakeCards
      BY <1>11, <2>1, <3>2 DEF TakeIn, TakeFleet, TakeSubscribed, TakeEvent, TakeMoved, TakeRefused, Arrives
    <3> QED
      BY <3>1, <3>2
  <2>3. OutPairs' /\ (CardsCome => CardsCome')
    BY <1>p, <2>1, <2>2, OutPairsLess
  <2>4. (HandHas("fleet") => CardsCome)'
    BY <1>h, <1>p, <2>1, <2>3
  <2>5. /\ Len(reqs') \in Nat
        /\ \A n \in 1 .. Len(reqs) : n \in 1 .. Len(reqs') /\ reqs'[n] = reqs[n]
        /\ \A n \in 1 .. Len(reqs') : n \in 1 .. Len(reqs) \/ reqs'[n].kind # "fleet"
    <3>1. CASE reqs' = reqs
      BY <1>w, <3>1
    <3>2. CASE reqs' # reqs
      <4>1. reqs' = Append(reqs, [kind |-> "subscribe"])
        BY <1>11, <3>2 DEF TakeIn, TakeCards, TakeFleet, TakeSubscribed, TakeEvent, TakeMoved, TakeRefused
      <4>2. [kind |-> "subscribe"] \in BoardRequests
        BY DEF BoardRequests
      <4>3. /\ Len(reqs') = Len(reqs) + 1 /\ reqs'[Len(reqs) + 1] = [kind |-> "subscribe"]
            /\ \A n \in 1 .. Len(reqs) : n \in 1 .. Len(reqs') /\ reqs'[n] = reqs[n]
            /\ \A n \in 1 .. Len(reqs') : n \in 1 .. Len(reqs) \/ n = Len(reqs) + 1
        BY <4>1, <4>2, ReqsAdded
      <4> QED
        BY <1>w, <4>3
    <3> QED
      BY <3>1, <3>2
  <2>6. ReqPairs'
    BY <1>h, <1>p, <2>1, <2>3, <2>5, ReqPairsKept
  <2> QED
    BY <1>g, <2>3, <2>4, <2>6
<1>12. ASSUME NEW c \in BoardCards, NEW l \in BoardLanes, DragCard(c, l) PROVE PairsOK'
  <2>1. CASE link = "up"
    <3>1. /\ reqs' = Append(reqs, [kind |-> "move", id |-> moves + 1, card |-> c, to |-> l])
          /\ UNCHANGED << out, serving, half >>
      BY <1>12, <2>1 DEF DragCard
    <3>2. [kind |-> "move", id |-> moves + 1, card |-> c, to |-> l] \in BoardRequests
      BY BoardAssumption DEF BoardRequests, MoveRequests, BoardTyped
    <3>3. /\ Len(reqs') = Len(reqs) + 1 /\ reqs'[Len(reqs) + 1].kind = "move"
          /\ \A n \in 1 .. Len(reqs) : n \in 1 .. Len(reqs') /\ reqs'[n] = reqs[n]
          /\ \A n \in 1 .. Len(reqs') : n \in 1 .. Len(reqs) \/ n = Len(reqs) + 1
      BY <3>1, <3>2, ReqsAdded
    <3>4. OutPairs' /\ (CardsCome' <=> CardsCome) /\ \A k : HandHas(k)' <=> HandHas(k)
      BY <1>0, <1>h, <3>1
    <3>5. ReqPairs'
      BY <1>p, <1>w, <3>3, <3>4, ReqPairsKept
    <3> QED
      BY <1>g, <1>p, <3>4, <3>5
  <2>2. CASE link # "up"
    BY <1>1, <1>12, <2>2 DEF DragCard
  <2> QED
    BY <2>1, <2>2
<1>13. ASSUME Refresh PROVE PairsOK'
  <2>1. reqs' = reqs \o Snapshot /\ UNCHANGED << out, serving, half >>
    BY <1>13 DEF Refresh
  <2>2. /\ Len(reqs') = Len(reqs) + 2
        /\ reqs'[Len(reqs) + 1].kind = "cards"
        /\ \A n \in 1 .. Len(reqs) : n \in 1 .. Len(reqs') /\ reqs'[n] = reqs[n]
        /\ \A n \in 1 .. Len(reqs') : n \in 1 .. Len(reqs) \/ n = Len(reqs) + 1 \/ n = Len(reqs) + 2
    BY <2>1, ReqsSnapshot
  <2>3. OutPairs' /\ (CardsCome' <=> CardsCome) /\ \A k : HandHas(k)' <=> HandHas(k)
    BY <1>0, <1>h, <2>1
  <2>4. CardsBefore(reqs', Len(reqs) + 1) /\ (Len(reqs) + 2) - 1 = Len(reqs) + 1
    BY <1>w, <2>2, CardsOfNext
  <2>5. \A n \in 1 .. Len(reqs') : n \in 1 .. Len(reqs) \/ reqs'[n].kind # "fleet" \/ CardsBefore(reqs', n - 1)
    BY <2>2, <2>4
  <2>6. ReqPairs'
    BY <1>p, <1>w, <2>2, <2>3, <2>5, ReqPairsKept
  <2> QED
    BY <1>g, <1>p, <2>3, <2>6
<1>14. ASSUME Serve PROVE PairsOK'
  BY <1>4, <1>14, ServeDoes
<1> QED
  BY <1>1, <1>2, <1>3, <1>5, <1>6, <1>8, <1>9, <1>10, <1>11, <1>12, <1>13, <1>14 DEF BoardNext, Daemon

\* The parts of MovesOK: each move under way has its entry, and ids ascend
\* along the way.
Ascends(q) == \A n \in 1 .. Len(q) : IsMove(q[n]) =>
                  \A k \in n + 1 .. Len(q) : IsMove(q[k]) => q[n].id < q[k].id
OneEach    == \A p, q \in moving : p.id = q.id => p = q
OutEntries == \A n \in 1 .. Len(out) : IsMove(out[n]) => Entry(out[n])
ReqEntries == \A n \in 1 .. Len(reqs) : IsMove(reqs[n]) => Entry(reqs[n])
HandEntry  == /\ serving.kind = "move" => Entry(serving)
              /\ serving.kind = "answer" /\ IsMove(serving.answer) => Entry(serving.answer)
OutHand    == \A n \in 1 .. Len(out) : IsMove(out[n]) /\ HandMoves => out[n].id < HandId
OutReqs    == \A n \in 1 .. Len(out), k \in 1 .. Len(reqs) :
                  IsMove(out[n]) /\ IsMove(reqs[k]) => out[n].id < reqs[k].id
HandReqs   == \A k \in 1 .. Len(reqs) : HandMoves /\ IsMove(reqs[k]) => HandId < reqs[k].id

LEMMA MovesAre ==
    MovesOK <=> /\ OneEach /\ OutEntries /\ ReqEntries /\ HandEntry
                /\ Ascends(out) /\ Ascends(reqs) /\ OutHand /\ OutReqs /\ HandReqs
<1>1. ASSUME MovesOK
      PROVE  /\ OneEach /\ OutEntries /\ ReqEntries /\ HandEntry
             /\ Ascends(out) /\ Ascends(reqs) /\ OutHand /\ OutReqs /\ HandReqs
  BY <1>1 DEF MovesOK, OneEach, OutEntries, ReqEntries, HandEntry, Ascends, OutHand, OutReqs, HandReqs
<1>2. ASSUME /\ OneEach /\ OutEntries /\ ReqEntries /\ HandEntry
             /\ Ascends(out) /\ Ascends(reqs) /\ OutHand /\ OutReqs /\ HandReqs
      PROVE  MovesOK
  BY <1>2 DEF MovesOK, OneEach, OutEntries, ReqEntries, HandEntry, Ascends, OutHand, OutReqs, HandReqs
<1> QED
  BY <1>1, <1>2

LEMMA MovesAreNext ==
    ASSUME OneEach', OutEntries', ReqEntries', HandEntry',
           Ascends(out)', Ascends(reqs)', OutHand', OutReqs', HandReqs'
    PROVE  MovesOK'
BY DEF MovesOK, OneEach, OutEntries, ReqEntries, HandEntry, Ascends, OutHand, OutReqs, HandReqs

LEMMA AscendsRest ==
    ASSUME NEW q, NEW p, Len(q) \in Nat, Len(p) = Len(q) - 1,
           \A n \in 1 .. Len(p) : n + 1 \in 1 .. Len(q) /\ p[n] = q[n + 1], Ascends(q), 1 \in 1 .. Len(q)
    PROVE  /\ Ascends(p)
           /\ \A n \in 1 .. Len(p) : IsMove(p[n]) /\ IsMove(q[1]) => q[1].id < p[n].id
<1>1. ASSUME NEW n \in 1 .. Len(p), IsMove(p[n]), NEW k \in n + 1 .. Len(p), IsMove(p[k])
      PROVE  p[n].id < p[k].id
  <2>1. n + 1 \in 1 .. Len(q) /\ k \in 1 .. Len(p) /\ k + 1 \in (n + 1) + 1 .. Len(q)
    BY <1>1
  <2>2. p[n] = q[n + 1] /\ p[k] = q[k + 1]
    BY <2>1
  <2> QED
    BY <1>1, <2>1, <2>2 DEF Ascends
<1>2. ASSUME NEW n \in 1 .. Len(p), IsMove(p[n]), IsMove(q[1]) PROVE q[1].id < p[n].id
  <2>1. n + 1 \in 1 + 1 .. Len(q)
    BY <1>2
  <2> QED
    BY <1>2, <2>1 DEF Ascends
<1> QED
  BY <1>1, <1>2 DEF Ascends

LEMMA AscendsMore ==
    ASSUME NEW q, NEW p, NEW N \in Nat, Len(q) = N, Len(p) \in Nat,
           \A n \in 1 .. N : n \in 1 .. Len(p) /\ p[n] = q[n], Ascends(q),
           \A n \in 1 .. Len(p) : n \in 1 .. N \/ ~ IsMove(p[n]) \/
                (n = Len(p) /\ \A k \in 1 .. N : IsMove(q[k]) => q[k].id < p[n].id) ,
           Len(p) <= N + 2, Len(p) = N + 2 => ~ IsMove(p[N + 1])
    PROVE  Ascends(p)
<1>1. ASSUME NEW n \in 1 .. Len(p), IsMove(p[n]), NEW k \in n + 1 .. Len(p), IsMove(p[k])
      PROVE  p[n].id < p[k].id
  <2>1. k \in 1 .. Len(p) /\ n < k
    BY <1>1
  <2>2. n \in 1 .. N
    BY <1>1, <2>1
  <2>3. CASE k \in 1 .. N
    <3>1. k \in n + 1 .. N
      BY <2>1, <2>3
    <3> QED
      BY <1>1, <2>2, <2>3, <3>1 DEF Ascends
  <2>4. CASE k \notin 1 .. N
    BY <1>1, <2>1, <2>2, <2>4
  <2> QED
    BY <2>3, <2>4
<1> QED
  BY <1>1 DEF Ascends

\* Ids of what is under way are numbers, and of entries.
LEMMA UnderWay ==
    ASSUME BoardTyped, MovesOK
    PROVE  /\ \A n \in 1 .. Len(out) : IsMove(out[n]) => out[n].id \in 1 .. moves
           /\ \A n \in 1 .. Len(reqs) : IsMove(reqs[n]) => reqs[n].id \in 1 .. moves
           /\ HandMoves => HandId \in 1 .. moves
           /\ \A p \in moving : p.id \in 1 .. moves
           /\ moves \in Nat
<1>1. \A p \in moving : p.id \in 1 .. moves
  BY DEF BoardTyped
<1>2. \A m : Entry(m) => m.id \in 1 .. moves
  BY <1>1 DEF Entry
<1>3. moves \in Nat
  BY BoardAssumption DEF BoardTyped
<1> QED
  BY <1>1, <1>2, <1>3, MovesAre DEF OutEntries, ReqEntries, HandEntry, HandMoves, HandId

LEMMA MovesStep ==
    ASSUME BoardTyped, PhasesOK, PairsOK, MovesOK, BoardNext
    PROVE  MovesOK'
<1> USE DEF daemonVars, connVars, deskVars
<1>w. /\ Len(reqs) \in Nat /\ Len(out) \in Nat /\ serving \in Hands
      /\ \A n \in 1 .. Len(reqs) : reqs[n] \in BoardRequests
      /\ \A n \in 1 .. Len(out) : out[n] \in Deliveries
  BY BoardWires DEF BoardTyped
<1>m. /\ OneEach /\ OutEntries /\ ReqEntries /\ HandEntry
      /\ Ascends(out) /\ Ascends(reqs) /\ OutHand /\ OutReqs /\ HandReqs
  BY MovesAre
<1>n. Nothing.kind = "nothing"
  BY DEF Nothing
<1>e. ASSUME moving \subseteq moving' PROVE \A m : Entry(m) => Entry(m)'
  BY <1>e DEF Entry
<1>h. ASSUME UNCHANGED serving PROVE (HandMoves' <=> HandMoves) /\ HandId' = HandId
  BY <1>h DEF HandMoves, HandId
<1>0. ASSUME moving' = moving PROVE OneEach' /\ \A m : Entry(m)' <=> Entry(m)
  BY <1>m, <1>0 DEF OneEach, Entry
<1>1. ASSUME UNCHANGED << moving, reqs, serving, out >> PROVE MovesOK'
  BY <1>1 DEF MovesOK, Entry, HandMoves, HandId
<1>2. ASSUME \/ \E c \in BoardCards, l \in BoardLanes : OthersMove(c, l)
             \/ \E c \in BoardCards, k \in Keys : OthersRaise(c, k) \/ OthersResolve(c, k)
      PROVE  UNCHANGED << moving, reqs, serving, out >>
  BY <1>2 DEF OthersMove, OthersRaise, OthersResolve
\* A delivery more that is not about a move, or is the move in hand.
<1>3. ASSUME NEW m \in Deliveries, out' = Append(out, m), UNCHANGED << moving, reqs >>,
             IsMove(m) => HandMoves /\ m.id = HandId /\ Entry(m) /\ ~ HandMoves',
             UNCHANGED serving \/ serving' = Nothing
      PROVE  MovesOK'
  <2>1. /\ Len(out') = Len(out) + 1 /\ out'[Len(out) + 1] = m
        /\ \A n \in 1 .. Len(out) : n \in 1 .. Len(out') /\ out'[n] = out[n]
        /\ \A n \in 1 .. Len(out') : n \in 1 .. Len(out) \/ n = Len(out) + 1
    BY <1>3, OutAdded
  <2>2. OneEach' /\ OutEntries' /\ ReqEntries' /\ HandEntry'
    <3>1. OneEach' /\ \A x : Entry(x)' <=> Entry(x)
      BY <1>0, <1>3
    <3>2. OutEntries'
      <4>1. \A n \in 1 .. Len(out') : IsMove(out'[n]) => Entry(out'[n])
        BY <1>m, <1>3, <2>1 DEF OutEntries
      <4> QED
        BY <1>3, <4>1 DEF OutEntries, Entry
    <3>3. ReqEntries'
      BY <1>m, <1>3 DEF ReqEntries, Entry
    <3>4. HandEntry'
      BY <1>m, <1>n, <1>3 DEF HandEntry, Entry
    <3> QED
      BY <3>1, <3>2, <3>3, <3>4
  <2>3. Ascends(out')
    <3>1. \A n \in 1 .. Len(out') : n \in 1 .. Len(out) \/ ~ IsMove(out'[n]) \/
             (n = Len(out') /\ \A k \in 1 .. Len(out) : IsMove(out[k]) => out[k].id < out'[n].id)
      BY <1>m, <1>3, <2>1 DEF OutHand
    <3>2. Len(out') \in Nat /\ Len(out') <= Len(out) + 2 /\ Len(out') # Len(out) + 2
      BY <1>w, <2>1
    <3> QED
      BY <1>m, <1>w, <2>1, <3>1, <3>2, AscendsMore
  <2>4. Ascends(out)' /\ Ascends(reqs)'
    BY <1>m, <1>3, <2>3 DEF Ascends
  <2>5. ASSUME HandMoves' PROVE UNCHANGED serving /\ HandMoves /\ HandId' = HandId /\ ~ IsMove(m)
    <3>1. serving' # Nothing
      BY <1>n, <2>5 DEF HandMoves
    <3> QED
      BY <1>h, <1>3, <2>5, <3>1
  <2>6. OutHand'
    <3>1. ASSUME NEW n \in 1 .. Len(out'), IsMove(out'[n]), HandMoves' PROVE out'[n].id < HandId'
      <4>1. n \in 1 .. Len(out) /\ out'[n] = out[n]
        BY <2>1, <2>5, <3>1
      <4> QED
        BY <1>m, <2>5, <3>1, <4>1 DEF OutHand
    <3> QED
      BY <3>1 DEF OutHand
  <2>7. OutReqs'
    <3>1. ASSUME NEW n \in 1 .. Len(out'), NEW k \in 1 .. Len(reqs), IsMove(out'[n]), IsMove(reqs[k])
          PROVE  out'[n].id < reqs[k].id
      <4>1. CASE n \in 1 .. Len(out)
        BY <1>m, <2>1, <3>1, <4>1 DEF OutReqs
      <4>2. CASE n = Len(out) + 1
        BY <1>m, <1>3, <2>1, <3>1, <4>2 DEF HandReqs
      <4> QED
        BY <2>1, <4>1, <4>2
    <3> QED
      BY <1>3, <3>1 DEF OutReqs
  <2>8. HandReqs'
    BY <1>m, <1>3, <2>5 DEF HandReqs
  <2> QED
    BY <2>2, <2>4, <2>6, <2>7, <2>8, MovesAreNext
<1>4. ASSUME ForwardEvent PROVE MovesOK'
  <2> DEFINE m == [kind |-> "event", event |-> Head(queue)]
  <2>1. queue # << >> /\ queue \in Seq(BoardEvents)
    BY <1>4 DEF ForwardEvent, BoardTyped
  <2>2. m \in Deliveries
    BY <2>1, FirstTaken DEF Deliveries, Announcements
  <2>3. out' = Append(out, m) /\ ~ IsMove(m) /\ UNCHANGED << moving, reqs, serving >>
    BY <1>4 DEF ForwardEvent, IsMove
  <2> HIDE DEF m
  <2> QED
    BY <1>3, <2>2, <2>3
<1>5. ASSUME SendAnswer PROVE MovesOK'
  <2>1. /\ serving.kind = "answer" /\ serving.answer \in Deliveries
        /\ out' = Append(out, serving.answer) /\ serving' = Nothing /\ UNCHANGED << moving, reqs >>
    BY <1>5, <1>w, HandFields DEF SendAnswer, Deliveries
  <2>2. IsMove(serving.answer) => HandMoves /\ serving.answer.id = HandId /\ Entry(serving.answer)
    BY <1>m, <2>1 DEF HandMoves, HandId, HandEntry
  <2>3. ~ HandMoves'
    BY <1>n, <2>1 DEF HandMoves
  <2> QED
    BY <1>3, <2>1, <2>2, <2>3
\* The loop takes up the first request.
<1>6. ASSUME NEW r \in BoardRequests, MakesMove(r) \/ RefusesMove(r) \/ HearsLog(r) \/ Reads(r) PROVE MovesOK'
  <2>1. /\ reqs # << >> /\ reqs' = Tail(reqs) /\ r = reqs[1] /\ serving = Nothing /\ UNCHANGED << out, moving >>
    BY <1>6 DEF MakesMove, RefusesMove, HearsLog, Reads, TakesUp
  <2>2. /\ Len(reqs') = Len(reqs) - 1 /\ 1 \in 1 .. Len(reqs)
        /\ \A n \in 1 .. Len(reqs') : n + 1 \in 1 .. Len(reqs) /\ reqs'[n] = reqs[n + 1]
    BY <2>1, ReqsTaken
  <2>3. /\ Ascends(reqs')
        /\ \A n \in 1 .. Len(reqs') : IsMove(reqs'[n]) /\ IsMove(r) => r.id < reqs'[n].id
    BY <1>m, <1>w, <2>1, <2>2, AscendsRest
  <2>4. OneEach' /\ \A x : Entry(x)' <=> Entry(x)
    BY <1>0, <2>1
  <2>5. HandMoves' => IsMove(r) /\ HandId' = r.id
    BY <1>6 DEF MakesMove, RefusesMove, HearsLog, Reads, IsMove, HandMoves, HandId
  <2>6. OutEntries' /\ ReqEntries'
    BY <1>m, <2>1, <2>2 DEF OutEntries, ReqEntries, Entry
  <2>7. HandEntry'
    <3>1. IsMove(r) => Entry(r)
      BY <1>m, <2>1, <2>2 DEF ReqEntries
    <3>2. serving'.kind = "move" => serving' = r /\ IsMove(r)
      BY <1>6 DEF MakesMove, RefusesMove, HearsLog, Reads, IsMove
    <3>3. serving'.kind = "answer" /\ IsMove(serving'.answer) => serving'.answer = [kind |-> "refused", id |-> r.id] /\ IsMove(r)
      BY <1>6 DEF MakesMove, RefusesMove, HearsLog, Reads, IsMove
    <3>4. serving'.kind = "move" => Entry(serving')
      BY <3>1, <3>2
    <3>5. serving'.kind = "answer" /\ IsMove(serving'.answer) => Entry(serving'.answer)
      BY <3>1, <3>3 DEF Entry
    <3> QED
      BY <2>1, <3>4, <3>5 DEF HandEntry, Entry
  <2>8. Ascends(out)' /\ Ascends(reqs)'
    BY <1>m, <2>1, <2>3 DEF Ascends
  <2>9. OutHand'
    BY <1>m, <2>1, <2>2, <2>5 DEF OutHand, OutReqs
  <2>10. OutReqs'
    BY <1>m, <2>1, <2>2 DEF OutReqs
  <2>11. HandReqs'
    BY <2>3, <2>5 DEF HandReqs
  <2> QED
    BY <2>4, <2>6, <2>7, <2>8, <2>9, <2>10, <2>11, MovesAreNext
<1>7. ASSUME ReadAnswer PROVE MovesOK'
  <2>1. PICK a \in BoardAnswers : ReadsFor(a)
    BY <1>7, ReadDoes
  <2>2. /\ UNCHANGED << moving, reqs, out >> /\ serving' = [kind |-> "answer", answer |-> a]
        /\ serving.kind \in {"move", "cards", "fleet"}
        /\ serving.kind = "move" => a.kind = "moved" /\ a.id = serving.id /\ a.card = serving.card
        /\ serving.kind # "move" => ~ IsMove(a)
    BY <2>1 DEF ReadsFor, IsMove
  <2>3. (HandMoves' <=> HandMoves) /\ (HandMoves => HandId' = HandId)
    BY <2>2 DEF HandMoves, HandId, IsMove
  <2>4. OneEach' /\ \A x : Entry(x)' <=> Entry(x)
    BY <1>0, <2>2
  <2>5. HandEntry'
    <3>1. IsMove(a) => Entry(a)
      BY <1>m, <2>2 DEF HandEntry, Entry, IsMove
    <3> QED
      BY <2>2, <3>1 DEF HandEntry, Entry
  <2>6. OutEntries' /\ ReqEntries' /\ Ascends(out)' /\ Ascends(reqs)' /\ OutReqs'
    BY <1>m, <2>2 DEF OutEntries, ReqEntries, Entry, Ascends, OutReqs
  <2>7. OutHand' /\ HandReqs'
    BY <1>m, <2>2, <2>3 DEF OutHand, HandReqs
  <2> QED
    BY <2>4, <2>5, <2>6, <2>7, MovesAreNext
\* Requests more, of which none is a move but one of a higher id.
<1>8. ASSUME UNCHANGED << out, serving >>, Len(reqs') \in Nat, Len(reqs') <= Len(reqs) + 2,
             Len(reqs') = Len(reqs) + 2 => ~ IsMove(reqs'[Len(reqs) + 1]),
             \A n \in 1 .. Len(reqs) : n \in 1 .. Len(reqs') /\ reqs'[n] = reqs[n],
             \A n \in 1 .. Len(reqs') : n \in 1 .. Len(reqs) \/ ~ IsMove(reqs'[n]) \/
                 (n = Len(reqs') /\ reqs'[n].id = moves + 1 /\ \E p \in moving' : p.id = reqs'[n].id /\ p.card = reqs'[n].card),
             OneEach', moving \subseteq moving'
      PROVE  MovesOK'
  <2>1. /\ \A n \in 1 .. Len(out) : IsMove(out[n]) => out[n].id \in 1 .. moves
        /\ \A n \in 1 .. Len(reqs) : IsMove(reqs[n]) => reqs[n].id \in 1 .. moves
        /\ HandMoves => HandId \in 1 .. moves
        /\ moves \in Nat
    BY UnderWay
  <2>2. \A x : Entry(x) => Entry(x)'
    BY <1>e, <1>8
  <2>3. OutEntries' /\ HandEntry'
    <3>1. \A n \in 1 .. Len(out) : IsMove(out[n]) => \E p \in moving' : p.id = out[n].id /\ (out[n].kind # "refused" => p.card = out[n].card)
      BY <1>m, <1>8 DEF OutEntries, Entry
    <3>2. serving.kind = "move" => \E p \in moving' : p.id = serving.id /\ (serving.kind # "refused" => p.card = serving.card)
      BY <1>m, <1>8 DEF HandEntry, Entry
    <3>3. serving.kind = "answer" /\ IsMove(serving.answer) =>
            \E p \in moving' : p.id = serving.answer.id /\ (serving.answer.kind # "refused" => p.card = serving.answer.card)
      BY <1>m, <1>8 DEF HandEntry, Entry
    <3> QED
      BY <1>8, <3>1, <3>2, <3>3 DEF OutEntries, HandEntry, Entry
  <2>4. ReqEntries'
    <3>1. ASSUME NEW n \in 1 .. Len(reqs'), IsMove(reqs'[n])
          PROVE  \E p \in moving' : p.id = reqs'[n].id /\ (reqs'[n].kind # "refused" => p.card = reqs'[n].card)
      <4>1. CASE n \in 1 .. Len(reqs)
        BY <1>m, <1>8, <3>1, <4>1 DEF ReqEntries, Entry
      <4>2. CASE n \notin 1 .. Len(reqs)
        BY <1>8, <3>1, <4>2 DEF Entry
      <4> QED
        BY <4>1, <4>2
    <3> QED
      BY <3>1 DEF ReqEntries, Entry
  <2>5. Ascends(reqs')
    <3>1. \A n \in 1 .. Len(reqs') : n \in 1 .. Len(reqs) \/ ~ IsMove(reqs'[n]) \/
             (n = Len(reqs') /\ \A k \in 1 .. Len(reqs) : IsMove(reqs[k]) => reqs[k].id < reqs'[n].id)
      BY <1>8, <2>1
    <3> QED
      BY <1>m, <1>w, <1>8, <3>1, AscendsMore
  <2>6. Ascends(out)' /\ Ascends(reqs)'
    BY <1>m, <1>8, <2>5 DEF Ascends
  <2>7. (HandMoves' <=> HandMoves) /\ HandId' = HandId
    BY <1>h, <1>8
  <2>8. OutHand'
    BY <1>m, <1>8, <2>7 DEF OutHand
  <2>9. OutReqs'
    <3>1. ASSUME NEW n \in 1 .. Len(out), NEW k \in 1 .. Len(reqs'), IsMove(out[n]), IsMove(reqs'[k])
          PROVE  out[n].id < reqs'[k].id
      <4>1. CASE k \in 1 .. Len(reqs)
        BY <1>m, <1>8, <3>1, <4>1 DEF OutReqs
      <4>2. CASE k \notin 1 .. Len(reqs)
        BY <1>8, <2>1, <3>1, <4>2
      <4> QED
        BY <4>1, <4>2
    <3> QED
      BY <1>8, <3>1 DEF OutReqs
  <2>10. HandReqs'
    <3>1. ASSUME NEW k \in 1 .. Len(reqs'), HandMoves, IsMove(reqs'[k])
          PROVE  HandId < reqs'[k].id
      <4>1. CASE k \in 1 .. Len(reqs)
        BY <1>m, <1>8, <3>1, <4>1 DEF HandReqs
      <4>2. CASE k \notin 1 .. Len(reqs)
        BY <1>8, <2>1, <3>1, <4>2
      <4> QED
        BY <4>1, <4>2
    <3> QED
      BY <2>7, <3>1 DEF HandReqs
  <2> QED
    BY <1>8, <2>3, <2>4, <2>6, <2>8, <2>9, <2>10, MovesAreNext
<1>9. ASSUME Refresh PROVE MovesOK'
  <2>1. reqs' = reqs \o Snapshot /\ UNCHANGED << out, serving, moving >>
    BY <1>9 DEF Refresh
  <2>2. /\ Len(reqs') = Len(reqs) + 2
        /\ reqs'[Len(reqs) + 1].kind = "cards" /\ reqs'[Len(reqs) + 2].kind = "fleet"
        /\ \A n \in 1 .. Len(reqs) : n \in 1 .. Len(reqs') /\ reqs'[n] = reqs[n]
        /\ \A n \in 1 .. Len(reqs') : n \in 1 .. Len(reqs) \/ n = Len(reqs) + 1 \/ n = Len(reqs) + 2
    BY <2>1, ReqsSnapshot
  <2>3. /\ Len(reqs') \in Nat /\ Len(reqs') <= Len(reqs) + 2 /\ ~ IsMove(reqs'[Len(reqs) + 1])
        /\ \A n \in 1 .. Len(reqs') : n \in 1 .. Len(reqs) \/ ~ IsMove(reqs'[n])
    BY <1>w, <2>2 DEF IsMove
  <2> QED
    BY <1>0, <1>8, <2>1, <2>2, <2>3
<1>10. ASSUME NEW c \in BoardCards, NEW l \in BoardLanes, DragCard(c, l) PROVE MovesOK'
  <2>1. CASE link = "up"
    <3> DEFINE m == [kind |-> "move", id |-> moves + 1, card |-> c, to |-> l]
               p == [id |-> moves + 1, card |-> c, prev |-> board[c]]
    <3>1. reqs' = Append(reqs, m) /\ UNCHANGED << out, serving >> /\ moving' = moving \cup {p}
      BY <1>10, <2>1 DEF DragCard
    <3>2. m \in BoardRequests /\ m.id = moves + 1 /\ m.card = c /\ p.id = moves + 1 /\ p.card = c
      BY BoardAssumption DEF BoardRequests, MoveRequests, BoardTyped
    <3> HIDE DEF m, p
    <3>3. /\ Len(reqs') = Len(reqs) + 1 /\ reqs'[Len(reqs) + 1] = m
          /\ \A n \in 1 .. Len(reqs) : n \in 1 .. Len(reqs') /\ reqs'[n] = reqs[n]
          /\ \A n \in 1 .. Len(reqs') : n \in 1 .. Len(reqs) \/ n = Len(reqs) + 1
      BY <3>1, <3>2, ReqsAdded
    <3>4. OneEach'
      <4>1. \A q \in moving : q.id # p.id
        BY <3>2, UnderWay
      <4> QED
        BY <1>m, <3>1, <4>1 DEF OneEach
    <3>5. Len(reqs') \in Nat /\ Len(reqs') <= Len(reqs) + 2 /\ Len(reqs') # Len(reqs) + 2
      BY <1>w, <3>3
    <3>6. \A n \in 1 .. Len(reqs') : n \in 1 .. Len(reqs) \/ ~ IsMove(reqs'[n]) \/
                 (n = Len(reqs') /\ reqs'[n].id = moves + 1 /\ \E x \in moving' : x.id = reqs'[n].id /\ x.card = reqs'[n].card)
      <4>1. p \in moving'
        BY <3>1
      <4> QED
        BY <3>2, <3>3, <4>1
    <3> QED
      BY <1>8, <3>1, <3>3, <3>4, <3>5, <3>6
  <2>2. CASE link # "up"
    BY <1>1, <1>10, <2>2 DEF DragCard
  <2> QED
    BY <2>1, <2>2
\* Nothing is under way.
<1>11. ASSUME serving' = Nothing, out' = << >>, moving' = {}, reqs' = << >> \/ reqs' = Snapshot PROVE MovesOK'
  <2>1. Len(out') = 0 /\ ~ HandMoves'
    BY <1>n, <1>11 DEF HandMoves
  <2>2. \A n \in 1 .. Len(reqs') : ~ IsMove(reqs'[n])
    <3>1. reqs' = << >> => Len(reqs') = 0
      OBVIOUS
    <3> QED
      BY <1>11, <3>1, SnapshotAlone DEF IsMove
  <2>3. OneEach' /\ OutEntries' /\ OutHand' /\ OutReqs' /\ Ascends(out)'
    BY <1>11, <2>1 DEF OneEach, OutEntries, OutHand, OutReqs, Ascends
  <2>4. HandEntry' /\ ReqEntries' /\ HandReqs' /\ Ascends(reqs)'
    BY <1>n, <1>11, <2>1, <2>2 DEF HandEntry, ReqEntries, HandReqs, Ascends
  <2> QED
    BY <2>3, <2>4, MovesAreNext
<1>12. ASSUME Connect PROVE MovesOK'
  <2>1. /\ UNCHANGED << out, serving, moving >> /\ (reqs' = Snapshot \/ reqs' = reqs)
        /\ out = << >> /\ serving = Nothing /\ moving = {} /\ reqs = << >>
    BY <1>12 DEF Connect, PhasesOK
  <2> QED
    BY <1>11, <2>1
<1>13. ASSUME Reconnect PROVE MovesOK'
  <2>1. /\ UNCHANGED << out, serving, moving >> /\ (reqs' = Snapshot \/ reqs' = reqs)
        /\ out = << >> /\ serving = Nothing /\ moving = {} /\ reqs = << >>
    BY <1>13 DEF Reconnect, PhasesOK
  <2> QED
    BY <1>11, <2>1
<1>14. ASSUME Drop PROVE MovesOK'
  BY <1>11, <1>14 DEF Drop
\* The desktop takes what comes first, and forgets the move it answers.
<1>15. ASSUME out # << >>, out' = Tail(out), UNCHANGED << serving, reqs >>, moving' \subseteq moving,
              \A p \in moving : p \in moving' \/ (IsMove(out[1]) /\ p.id = out[1].id)
       PROVE  MovesOK'
  <2>1. /\ Len(out') = Len(out) - 1 /\ 1 \in 1 .. Len(out)
        /\ \A n \in 1 .. Len(out') : n + 1 \in 1 .. Len(out) /\ out'[n] = out[n + 1]
    BY <1>15, FirstTaken DEF BoardTyped
  <2>2. /\ Ascends(out')
        /\ \A n \in 1 .. Len(out') : IsMove(out'[n]) /\ IsMove(out[1]) => out[1].id < out'[n].id
    BY <1>m, <1>w, <2>1, AscendsRest
  <2>3. /\ \A n \in 1 .. Len(out) : IsMove(out[n]) => out[n].id \in Int
        /\ \A n \in 1 .. Len(reqs) : IsMove(reqs[n]) => reqs[n].id \in Int
        /\ HandMoves => HandId \in Int
    BY UnderWay
  <2>4. \A m : Entry(m) /\ (IsMove(out[1]) => m.id # out[1].id) =>
            \E p \in moving' : p.id = m.id /\ (m.kind # "refused" => p.card = m.card)
    BY <1>15 DEF Entry
  <2>5. OneEach'
    BY <1>m, <1>15 DEF OneEach
  <2>6. OutEntries'
    <3>1. ASSUME NEW n \in 1 .. Len(out'), IsMove(out'[n])
          PROVE  \E p \in moving' : p.id = out'[n].id /\ (out'[n].kind # "refused" => p.card = out'[n].card)
      <4>1. Entry(out'[n])
        BY <1>m, <2>1, <3>1 DEF OutEntries
      <4>2. IsMove(out[1]) => out'[n].id # out[1].id
        BY <2>1, <2>2, <2>3, <3>1
      <4> QED
        BY <2>4, <4>1, <4>2
    <3> QED
      BY <3>1 DEF OutEntries, Entry
  <2>7. ReqEntries'
    <3>1. ASSUME NEW n \in 1 .. Len(reqs), IsMove(reqs[n])
          PROVE  \E p \in moving' : p.id = reqs[n].id /\ (reqs[n].kind # "refused" => p.card = reqs[n].card)
      <4>1. Entry(reqs[n])
        BY <1>m, <3>1 DEF ReqEntries
      <4>2. IsMove(out[1]) => reqs[n].id # out[1].id
        <5>1. IsMove(out[1]) => out[1].id < reqs[n].id
          BY <1>m, <2>1, <3>1 DEF OutReqs
        <5> QED
          BY <2>1, <2>3, <3>1, <5>1
      <4> QED
        BY <2>4, <4>1, <4>2
    <3> QED
      BY <1>15, <3>1 DEF ReqEntries, Entry
  <2>8. HandEntry'
    <3>1. IsMove(out[1]) /\ HandMoves => HandId # out[1].id
      <4>1. IsMove(out[1]) /\ HandMoves => out[1].id < HandId
        BY <1>m, <2>1 DEF OutHand
      <4> QED
        BY <2>1, <2>3, <4>1
    <3>2. serving.kind = "move" => Entry(serving) /\ HandMoves /\ HandId = serving.id
      BY <1>m DEF HandEntry, HandMoves, HandId
    <3>3. serving.kind = "answer" /\ IsMove(serving.answer) =>
             Entry(serving.answer) /\ HandMoves /\ HandId = serving.answer.id
      BY <1>m DEF HandEntry, HandMoves, HandId
    <3>4. serving.kind = "move" =>
             \E p \in moving' : p.id = serving.id /\ (serving.kind # "refused" => p.card = serving.card)
      BY <2>4, <3>1, <3>2
    <3>5. serving.kind = "answer" /\ IsMove(serving.answer) =>
            \E p \in moving' : p.id = serving.answer.id /\ (serving.answer.kind # "refused" => p.card = serving.answer.card)
      BY <2>4, <3>1, <3>3
    <3> QED
      BY <1>15, <3>4, <3>5 DEF HandEntry, Entry
  <2>9. Ascends(out)' /\ Ascends(reqs)' /\ HandReqs'
    BY <1>h, <1>m, <1>15, <2>2 DEF Ascends, HandReqs
  <2>10. OutHand'
    BY <1>h, <1>m, <1>15, <2>1 DEF OutHand
  <2>11. OutReqs'
    BY <1>m, <1>15, <2>1 DEF OutReqs
  <2> QED
    BY <2>5, <2>6, <2>7, <2>8, <2>9, <2>10, <2>11, MovesAreNext
<1>16. ASSUME TakeIn, ~ TakeFleet PROVE MovesOK'
  <2>1. out # << >> /\ Head(out) = out[1] /\ out' = Tail(out) /\ UNCHANGED serving
    BY <1>16, TakeInDoes
  <2>2. reqs' = reqs
    BY <1>16 DEF TakeIn, TakeCards, TakeSubscribed, TakeEvent, TakeMoved, TakeRefused
  <2>3. moving' = moving \/ (IsMove(out[1]) /\ moving' = moving \ ItsMove)
    BY <1>16, <2>1 DEF TakeIn, TakeCards, TakeSubscribed, TakeEvent, TakeMoved, TakeRefused, Arrives, IsMove
  <2> QED
    BY <1>15, <2>1, <2>2, <2>3 DEF ItsMove
<1>17. ASSUME TakeFleet PROVE MovesOK'
  <2>1. out # << >> /\ Head(out) = out[1] /\ out' = Tail(out) /\ UNCHANGED serving /\ moving' = moving
    BY <1>17, TakeInDoes DEF TakeIn, TakeFleet
  <2>2. CASE boot # "load"
    BY <1>15, <1>17, <2>1, <2>2 DEF TakeFleet
  <2>3. CASE boot = "load"
    <3>1. moving = {} /\ reqs' = Append(reqs, [kind |-> "subscribe"])
      BY <1>17, <2>3 DEF TakeFleet, PhasesOK
    <3>2. [kind |-> "subscribe"] \in BoardRequests
      BY DEF BoardRequests
    <3>3. /\ reqs'[Len(reqs) + 1] = [kind |-> "subscribe"]
          /\ \A n \in 1 .. Len(reqs) : n \in 1 .. Len(reqs') /\ reqs'[n] = reqs[n]
          /\ \A n \in 1 .. Len(reqs') : n \in 1 .. Len(reqs) \/ n = Len(reqs) + 1
      BY <3>1, <3>2, ReqsAdded
    <3>4. /\ \A n \in 1 .. Len(out) : ~ IsMove(out[n])
          /\ \A n \in 1 .. Len(reqs) : ~ IsMove(reqs[n])
          /\ ~ HandMoves
      BY <1>m, <3>1 DEF OutEntries, ReqEntries, HandEntry, Entry, HandMoves
    <3>5. \A n \in 1 .. Len(out') : n + 1 \in 1 .. Len(out) /\ out'[n] = out[n + 1]
      BY <2>1, OutTaken
    <3>6. /\ \A n \in 1 .. Len(out') : ~ IsMove(out'[n])
          /\ \A n \in 1 .. Len(reqs') : ~ IsMove(reqs'[n])
          /\ ~ HandMoves'
      BY <1>h, <2>1, <3>3, <3>4, <3>5 DEF IsMove
    <3>7. OutEntries' /\ ReqEntries' /\ OutHand' /\ OutReqs' /\ HandReqs' /\ Ascends(out)' /\ Ascends(reqs)'
      BY <3>6 DEF OutEntries, ReqEntries, OutHand, OutReqs, HandReqs, Ascends
    <3>8. OneEach' /\ HandEntry'
      BY <2>1, <3>1, <3>6 DEF OneEach, HandEntry, HandMoves
    <3> QED
      BY <3>7, <3>8, MovesAreNext
  <2> QED
    BY <2>2, <2>3
<1>18. ASSUME Serve PROVE MovesOK'
  BY <1>6, <1>18, ServeDoes
<1> QED
  BY <1>1, <1>2, <1>4, <1>5, <1>7, <1>9, <1>10, <1>12, <1>13, <1>14, <1>16, <1>17, <1>18 DEF BoardNext, Daemon, TakeIn

\* The parts of LaneOK, along the way of a source.
ReqLane(c)   == \A n \in 1 .. Len(reqs) : MoveOf(reqs[n], c) => Restores(reqs[n], c) \/ ReqNews(n + 1, c)
HandLane(c)  ==
    /\ serving.kind = "move" /\ MoveOf(serving, c) => LoneMove(serving, c) \/ ReqNews(1, c)
    /\ serving.kind = "answer" /\ News(serving.answer, c) => RightAnswer(serving.answer, c) \/ ReqNews(1, c)
OutLane(c)   == \A n \in 1 .. Len(out) : News(out[n], c) => RightAnswer(out[n], c) \/ OutNews(n + 1, c)
HalfLane(c)  == half # NoBoard => half[c] = lane[c] \/ Untold(LaneOf(c)) \/ OutNews(1, c)
BoardLane(c) == board # NoBoard => \/ board[c] = lane[c] \/ Untold(LaneOf(c)) \/ OutNews(1, c) \/ half # NoBoard
                                   \/ InOut(LaneOf(c)) \/ InQueue(LaneOf(c))

LEMMA LaneParts ==
    ASSUME NEW c \in BoardCards, LaneOK(c)
    PROVE  ReqLane(c) /\ HandLane(c) /\ OutLane(c) /\ HalfLane(c) /\ BoardLane(c)
BY DEF LaneOK, ReqLane, HandLane, OutLane, HalfLane, BoardLane

LEMMA LanePartsNext ==
    ASSUME NEW c \in BoardCards, ReqLane(c)', HandLane(c)', OutLane(c)', HalfLane(c)', BoardLane(c)'
    PROVE  LaneOK(c)'
BY DEF LaneOK, ReqLane, HandLane, OutLane, HalfLane, BoardLane

\* Where the card is, which moves of it are pending and what is to be replayed
\* stay: what was right is right.
LEMMA SameSources ==
    ASSUME NEW c \in BoardCards, lane'[c] = lane[c],
           \A p : p.card = c => (p \in moving' <=> p \in moving),
           Untold(LaneOf(c)) => Untold(LaneOf(c))'
    PROVE  /\ \A m : MoveOf(m, c)' <=> MoveOf(m, c)
           /\ \A m : News(m, c)' <=> News(m, c)
           /\ \A m : Restores(m, c) => Restores(m, c)'
           /\ \A m : LoneMove(m, c) => LoneMove(m, c)'
           /\ \A m : m.kind \in {"cards", "moved", "refused"} /\ RightAnswer(m, c) => RightAnswer(m, c)'
<1>1. \A m : MoveOf(m, c)' <=> MoveOf(m, c)
  BY DEF MoveOf
<1>2. \A m : News(m, c)' <=> News(m, c)
  BY <1>1 DEF News
<1>3. \A m : Restores(m, c) => Restores(m, c)'
  BY DEF Restores
<1>4. \A m : LoneMove(m, c) => LoneMove(m, c)'
  BY DEF LoneMove
<1>5. ASSUME NEW m, m.kind \in {"cards", "moved", "refused"}, RightAnswer(m, c) PROVE RightAnswer(m, c)'
  BY <1>3, <1>4, <1>5 DEF RightAnswer
<1> QED
  BY <1>1, <1>2, <1>3, <1>4, <1>5

\* An answer that is news is one of three kinds.
LEMMA NewsAnswer ==
    ASSUME NEW m \in Deliveries, NEW c, News(m, c)
    PROVE  m.kind \in {"cards", "moved", "refused"}
BY DeliveryFields DEF News, MoveOf, IsMove

\* Nothing on the way changes.
LEMMA LaneAway ==
    ASSUME BoardTyped, NEW c \in BoardCards, LaneOK(c), lane'[c] = lane[c],
           \A p : p.card = c => (p \in moving' <=> p \in moving),
           Untold(LaneOf(c)) => Untold(LaneOf(c))',
           UNCHANGED << reqs, serving, out, half >>
    PROVE  /\ ReqLane(c)' /\ HandLane(c)' /\ OutLane(c)' /\ HalfLane(c)'
           /\ OutNews(1, c) => OutNews(1, c)'
<1>1. /\ \A m : MoveOf(m, c)' <=> MoveOf(m, c)
      /\ \A m : News(m, c)' <=> News(m, c)
      /\ \A m : Restores(m, c) => Restores(m, c)'
      /\ \A m : LoneMove(m, c) => LoneMove(m, c)'
      /\ \A m : m.kind \in {"cards", "moved", "refused"} /\ RightAnswer(m, c) => RightAnswer(m, c)'
  BY SameSources
<1>2. ReqLane(c) /\ HandLane(c) /\ OutLane(c) /\ HalfLane(c)
  BY LaneParts
<1>3. /\ \A n \in 1 .. Len(out) : out[n] \in Deliveries
      /\ serving.kind = "answer" => serving.answer \in Deliveries
  BY BoardWires, HandFields DEF BoardTyped, Deliveries
<1>4. \A n : ReqNews(n, c)' <=> ReqNews(n, c)
  BY <1>1 DEF ReqNews
<1>5. HandNews(c)' <=> HandNews(c)
  BY <1>1 DEF HandNews
<1>6. \A n : OutNews(n, c)' <=> OutNews(n, c)
  BY <1>1, <1>4, <1>5 DEF OutNews
<1>7. ReqLane(c)'
  BY <1>1, <1>2, <1>4 DEF ReqLane
<1>8. HandLane(c)'
  BY <1>1, <1>2, <1>3, <1>4, NewsAnswer DEF HandLane
<1>9. OutLane(c)'
  BY <1>1, <1>2, <1>3, <1>6, NewsAnswer DEF OutLane
<1>10. HalfLane(c)'
  BY <1>2, <1>6 DEF HalfLane
<1> QED
  BY <1>6, <1>7, <1>8, <1>9, <1>10

\* The same with the board as it was.
LEMMA LaneAwayShown ==
    ASSUME BoardTyped, NEW c \in BoardCards, LaneOK(c), lane'[c] = lane[c],
           \A p : p.card = c => (p \in moving' <=> p \in moving),
           Untold(LaneOf(c)) => Untold(LaneOf(c))',
           UNCHANGED << reqs, serving, out, half >>,
           board = NoBoard => board' = NoBoard, board # NoBoard => board'[c] = board[c],
           InQueue(LaneOf(c)) => InQueue(LaneOf(c))'
    PROVE  LaneOK(c)'
<1>1. /\ ReqLane(c)' /\ HandLane(c)' /\ OutLane(c)' /\ HalfLane(c)'
      /\ OutNews(1, c) => OutNews(1, c)'
  BY LaneAway
<1>2. InOut(LaneOf(c))' <=> InOut(LaneOf(c))
  BY DEF InOut, IsEventOf
<1>3. BoardLane(c)'
  BY <1>1, <1>2, LaneParts DEF BoardLane
<1> QED
  BY <1>1, <1>3, LanePartsNext

\* Nothing of the card is on the way but the cards of a snapshot.
LEMMA LaneOthersMove ==
    ASSUME BoardTyped, PhasesOK, NEW c \in BoardCards, LaneOK(c), NEW d \in BoardCards, NEW l \in BoardLanes,
           OthersMove(d, l), c \notin missed'
    PROVE  LaneOK(c)'
<1> DEFINE e == [type |-> "moved", card |-> d, to |-> l]
<1>1. /\ e \in BoardEvents /\ Announce(e) /\ e.type = "moved" /\ e.card = d
      /\ lane' = [lane EXCEPT ![d] = l]
      /\ UNCHANGED << subscribed, serving, reqs, out, link, upsets, deskVars >>
      /\ Overheard(d)
  BY OthersAnnounce DEF OthersMove
<1> HIDE DEF e
<1>2. /\ InHistory(About(e))'
      /\ subscribed => InQueue(About(e))'
      /\ \A x : InQueue(x) => InQueue(x)'
  <2>1. /\ InHistory(About(e))'
        /\ subscribed => InQueue(About(e))'
        /\ \A x : InQueue(x) => InQueue(x)'
    BY <1>1, Announced
  <2> QED
    BY <2>1
<1>3. \A x : InHistory(x) => InHistory(x)'
  <2>1. BoardNext
    BY DEF BoardNext
  <2> QED
    BY <2>1, LogGrows
<1>4. WillSubscribe' <=> WillSubscribe
  BY <1>1 DEF WillSubscribe, deskVars
<1>5. CASE c # d
  <2>1. lane'[c] = lane[c]
    BY <1>1, <1>5 DEF BoardTyped, Boards
  <2>2. Untold(LaneOf(c)) => Untold(LaneOf(c))'
    BY <1>3, <1>4 DEF Untold
  <2>3. InQueue(LaneOf(c)) => InQueue(LaneOf(c))'
    BY <1>2
  <2> QED
    BY <1>1, <2>1, <2>2, <2>3, LaneAwayShown DEF deskVars
<1>6. CASE c = d
  <2>0. About(e) = LaneOf(c)
    BY <1>1, <1>6 DEF About, LaneOf
  <2>1. \/ WillSubscribe /\ \A m \in moving : m.card # c
        \/ subscribed /\ ~Waiting
    BY <1>1, <1>6 DEF Overheard
  <2>2. CASE WillSubscribe /\ \A m \in moving : m.card # c
    <3>1. Untold(LaneOf(c))'
      <4>1. InHistory(LaneOf(c))'
        BY <1>2, <2>0
      <4> QED
        BY <1>4, <2>2, <4>1 DEF Untold
    <3>2. \A m : ~ MoveOf(m, c)'
      BY <1>1, <2>2 DEF MoveOf, deskVars
    <3>3. ReqLane(c)'
      BY <3>2 DEF ReqLane
    <3>4. HandLane(c)'
      BY <3>1, <3>2 DEF HandLane, News, RightAnswer
    <3>5. OutLane(c)'
      BY <3>1, <3>2 DEF OutLane, News, RightAnswer
    <3>6. HalfLane(c)' /\ BoardLane(c)'
      BY <3>1 DEF HalfLane, BoardLane
    <3> QED
      BY <3>3, <3>4, <3>5, <3>6, LanePartsNext
  <2>3. CASE subscribed /\ ~Waiting
    <3>1. /\ reqs' = << >> /\ serving' = Nothing /\ half' = NoBoard
          /\ \A n \in 1 .. Len(out') : out'[n].kind = "event"
      <4>1. DOMAIN out = 1 .. Len(out)
        BY DEF BoardTyped
      <4> QED
        BY <1>1, <2>3, <4>1 DEF Waiting, deskVars
    <3>2. InQueue(LaneOf(c))'
      BY <1>2, <2>0, <2>3
    <3>3. Len(reqs') = 0
      BY <3>1
    <3>4. ReqLane(c)' /\ HandLane(c)' /\ HalfLane(c)' /\ BoardLane(c)'
      BY <3>1, <3>2, <3>3 DEF ReqLane, HandLane, HalfLane, BoardLane, Nothing
    <3>5. OutLane(c)'
      BY <3>1 DEF OutLane, News, MoveOf, IsMove
    <3> QED
      BY <3>4, <3>5, LanePartsNext
  <2> QED
    BY <2>1, <2>2, <2>3
<1> QED
  BY <1>5, <1>6

LEMMA LaneOthersItem ==
    ASSUME BoardTyped, NEW c \in BoardCards, LaneOK(c), NEW d \in BoardCards, NEW k \in Keys,
           OthersRaise(d, k) \/ OthersResolve(d, k)
    PROVE  LaneOK(c)'
<1>1. PICK e \in BoardEvents : Announce(e)
  BY OthersAnnounce DEF OthersRaise, OthersResolve
<1>2. /\ UNCHANGED << lane, subscribed, serving, reqs, out, link, upsets, deskVars >>
  BY DEF OthersRaise, OthersResolve
<1>3. \A x : InQueue(x) => InQueue(x)'
  BY <1>1, Announced
<1>4. \A x : InHistory(x) => InHistory(x)'
  <2>1. BoardNext
    BY DEF BoardNext
  <2> QED
    BY <2>1, LogGrows
<1>5. Untold(LaneOf(c)) => Untold(LaneOf(c))'
  BY <1>2, <1>4 DEF Untold, WillSubscribe, deskVars
<1>6. InQueue(LaneOf(c)) => InQueue(LaneOf(c))'
  BY <1>3
<1> QED
  BY <1>2, <1>5, <1>6, LaneAwayShown DEF deskVars

\* A delivery more: news in hand goes on its way, or something that is no news.
LEMMA LaneDelivered ==
    ASSUME BoardTyped, NEW c \in BoardCards, LaneOK(c), NEW m \in Deliveries, out' = Append(out, m),
           UNCHANGED << lane, moving, reqs, half, board >>,
           Untold(LaneOf(c)) => Untold(LaneOf(c))',
           \/ ~ News(m, c) /\ serving' = serving
           \/ serving.kind = "answer" /\ serving.answer = m /\ serving' = Nothing,
           InQueue(LaneOf(c)) => InQueue(LaneOf(c))' \/ IsEventOf(m, LaneOf(c))
    PROVE  LaneOK(c)'
<1>1. /\ \A x : MoveOf(x, c)' <=> MoveOf(x, c)
      /\ \A x : News(x, c)' <=> News(x, c)
      /\ \A x : Restores(x, c) => Restores(x, c)'
      /\ \A x : LoneMove(x, c) => LoneMove(x, c)'
      /\ \A x : x.kind \in {"cards", "moved", "refused"} /\ RightAnswer(x, c) => RightAnswer(x, c)'
  BY SameSources
<1>2. ReqLane(c) /\ HandLane(c) /\ OutLane(c) /\ HalfLane(c) /\ BoardLane(c)
  BY LaneParts
<1>3. /\ Len(out) \in Nat /\ Len(out') = Len(out) + 1 /\ out'[Len(out) + 1] = m
      /\ \A n \in 1 .. Len(out) : n \in 1 .. Len(out') /\ out'[n] = out[n]
      /\ \A n \in 1 .. Len(out') : n \in 1 .. Len(out) \/ n = Len(out) + 1
      /\ \A n \in 1 .. Len(out) : out[n] \in Deliveries
  BY OutAdded, BoardWires
<1>4. \A n : ReqNews(n, c)' <=> ReqNews(n, c)
  BY <1>1 DEF ReqNews
<1>5. HandNews(c) => HandNews(c)' \/ News(m, c)
  <2>1. CASE serving' = serving
    BY <1>1, <2>1 DEF HandNews
  <2>2. CASE serving.kind = "answer" /\ serving.answer = m
    BY <2>2 DEF HandNews, News, MoveOf, IsMove
  <2> QED
    BY <2>1, <2>2
<1>6. ASSUME NEW n \in 1 .. Len(out) + 1, OutNews(n, c) PROVE OutNews(n, c)'
  <2>1. CASE \E k \in n .. Len(out) : News(out[k], c)
    <3>1. PICK k \in n .. Len(out) : News(out[k], c)
      BY <2>1
    <3>2. k \in 1 .. Len(out) /\ k \in n .. Len(out')
      BY <1>3
    <3>3. PICK x : x = out[k]
      OBVIOUS
    <3>4. x = out'[k] /\ News(x, c)'
      BY <1>1, <1>3, <3>1, <3>2, <3>3
    <3> QED
      BY <3>2, <3>4 DEF OutNews
  <2>2. CASE HandNews(c)
    <3>1. HandNews(c)' \/ News(m, c)'
      BY <1>1, <1>5, <2>2
    <3>2. Len(out) + 1 \in n .. Len(out')
      BY <1>3
    <3> QED
      BY <1>3, <3>1, <3>2 DEF OutNews
  <2>3. CASE ReqNews(1, c)
    BY <1>4, <2>3 DEF OutNews
  <2> QED
    BY <1>6, <2>1, <2>2, <2>3 DEF OutNews
<1>7. ReqLane(c)'
  BY <1>1, <1>2, <1>4 DEF ReqLane
<1>8. HandLane(c)'
  <2>1. CASE serving' = serving
    <3>1. serving.kind = "answer" => serving.answer \in Deliveries
      BY HandFields DEF BoardTyped, Deliveries
    <3> QED
      BY <1>1, <1>2, <1>4, <2>1, <3>1, NewsAnswer DEF HandLane
  <2>2. CASE serving' = Nothing
    BY <2>2 DEF HandLane, Nothing
  <2> QED
    BY <2>1, <2>2
<1>9. OutLane(c)'
  <2>1. ASSUME NEW n \in 1 .. Len(out'), NEW x, x = out'[n], News(x, c)
        PROVE  RightAnswer(x, c)' \/ OutNews(n + 1, c)'
    <3>1. CASE n \in 1 .. Len(out)
      <4>1. x = out[n] /\ x \in Deliveries /\ n + 1 \in 1 .. Len(out) + 1
        BY <1>3, <2>1, <3>1
      <4>2. RightAnswer(x, c) \/ OutNews(n + 1, c)
        BY <1>2, <2>1, <3>1, <4>1 DEF OutLane
      <4> QED
        BY <1>1, <1>6, <2>1, <4>1, <4>2, NewsAnswer
    <3>2. CASE n = Len(out) + 1
      <4>1. x = m /\ serving.kind = "answer" /\ serving.answer = m
        BY <1>3, <2>1, <3>2
      <4>2. RightAnswer(x, c) \/ ReqNews(1, c)
        BY <1>2, <2>1, <4>1 DEF HandLane
      <4> QED
        BY <1>1, <1>4, <2>1, <4>1, <4>2, NewsAnswer DEF OutNews
    <3> QED
      BY <1>3, <3>1, <3>2
  <2> QED
    BY <1>1, <2>1 DEF OutLane
<1>10. OutNews(1, c) => OutNews(1, c)'
  <2>1. 1 \in 1 .. Len(out) + 1
    BY <1>3
  <2> QED
    BY <1>6, <2>1
<1>11. HalfLane(c)'
  BY <1>2, <1>10 DEF HalfLane
<1>12. InOut(LaneOf(c)) => InOut(LaneOf(c))'
  BY <1>3 DEF InOut, IsEventOf
<1>13. IsEventOf(m, LaneOf(c)) => InOut(LaneOf(c))'
  <2>1. Len(out) + 1 \in 1 .. Len(out')
    BY <1>3
  <2> QED
    BY <1>3, <2>1 DEF InOut, IsEventOf
<1>14. BoardLane(c)'
  BY <1>2, <1>10, <1>12, <1>13 DEF BoardLane
<1> QED
  BY <1>7, <1>8, <1>9, <1>11, <1>14, LanePartsNext

LEMMA LaneForwarded ==
    ASSUME BoardTyped, NEW c \in BoardCards, LaneOK(c), ForwardEvent
    PROVE  LaneOK(c)'
<1> DEFINE m == [kind |-> "event", event |-> queue[1]]
<1>1. /\ queue # << >> /\ queue' = Tail(queue) /\ out' = Append(out, m) /\ queue[1] \in BoardEvents
      /\ UNCHANGED << lane, history, moving, reqs, half, board, serving, boot >>
  BY FirstTaken DEF ForwardEvent, BoardTyped, daemonVars, deskVars
<1>2. m \in Deliveries /\ ~ News(m, c)
  BY <1>1 DEF Deliveries, Announcements, News, MoveOf, IsMove
<1>3. Untold(LaneOf(c)) => Untold(LaneOf(c))'
  BY <1>1 DEF Untold, WillSubscribe, InHistory
<1>4. InQueue(LaneOf(c)) => InQueue(LaneOf(c))' \/ IsEventOf(m, LaneOf(c))
  <2>1. \A n \in 1 .. Len(queue) : n = 1 \/ (n - 1 \in 1 .. Len(queue') /\ queue'[n - 1] = queue[n])
    BY <1>1, FirstTaken DEF BoardTyped
  <2> QED
    BY <2>1 DEF InQueue, IsEventOf
<1> HIDE DEF m
<1> QED
  BY <1>1, <1>2, <1>3, <1>4, LaneDelivered

LEMMA LaneSent ==
    ASSUME BoardTyped, NEW c \in BoardCards, LaneOK(c), SendAnswer
    PROVE  LaneOK(c)'
<1>1. /\ serving.kind = "answer" /\ serving.answer \in Deliveries
      /\ out' = Append(out, serving.answer) /\ serving' = Nothing
      /\ UNCHANGED << lane, history, moving, reqs, half, board, boot, queue >>
  BY HandFields DEF SendAnswer, Deliveries, BoardTyped, daemonVars, deskVars
<1>2. Untold(LaneOf(c)) => Untold(LaneOf(c))'
  BY <1>1 DEF Untold, WillSubscribe, InHistory
<1>3. InQueue(LaneOf(c)) => InQueue(LaneOf(c))'
  BY <1>1 DEF InQueue
<1>4. PICK m \in Deliveries : m = serving.answer
  BY <1>1
<1>5. out' = Append(out, m)
  BY <1>1, <1>4
<1> QED
  BY <1>1, <1>2, <1>3, <1>4, <1>5, LaneDelivered

\* A snapshot's fleet follows its cards with nothing between but events.
FleetFrom(m) ==
    \/ \E n \in m .. Len(out) : out[n].kind = "fleet" /\ \A k \in m .. n - 1 : out[k].kind = "event"
    \/ /\ \A k \in m .. Len(out) : out[k].kind = "event"
       /\ HandHas("fleet") \/ (serving = Nothing /\ reqs # << >> /\ reqs[1].kind = "fleet")

OutWhole   == \A n \in 1 .. Len(out) : out[n].kind = "cards" => FleetFrom(n + 1)
HandWhole  == HandHas("cards") => reqs # << >> /\ reqs[1].kind = "fleet"
ReqsWhole  == \A n \in 1 .. Len(reqs) : reqs[n].kind = "cards" => n + 1 \in 1 .. Len(reqs) /\ reqs[n + 1].kind = "fleet"
SnapshotsWhole == (half # NoBoard => FleetFrom(1)) /\ OutWhole /\ HandWhole /\ ReqsWhole

\* What comes next for the loop is still what it was.
NextFleet == HandHas("fleet") \/ (serving = Nothing /\ reqs # << >> /\ reqs[1].kind = "fleet")

\* A delivery more.
LEMMA WholeMore ==
    ASSUME BoardTyped, NEW m \in Deliveries, out' = Append(out, m),
           NextFleet => m.kind = "fleet" \/ (m.kind = "event" /\ NextFleet')
    PROVE  /\ \A n \in 1 .. Len(out) + 1 : FleetFrom(n) => FleetFrom(n)'
           /\ NextFleet' => \A n \in {Len(out) + 2} : FleetFrom(n)'
<1>1. /\ Len(out) \in Nat /\ Len(out') = Len(out) + 1 /\ out'[Len(out) + 1] = m
      /\ \A n \in 1 .. Len(out) : n \in 1 .. Len(out') /\ out'[n] = out[n]
      /\ \A n \in 1 .. Len(out') : n \in 1 .. Len(out) \/ n = Len(out) + 1
  BY OutAdded
<1>2. ASSUME NEW n \in 1 .. Len(out) + 1, NEW k \in n .. Len(out), out[k].kind = "fleet",
             \A j \in n .. k - 1 : out[j].kind = "event"
      PROVE  FleetFrom(n)'
  <2>1. k \in n .. Len(out') /\ out'[k].kind = "fleet"
    BY <1>1, <1>2
  <2>2. \A j \in n .. k - 1 : j \in 1 .. Len(out) /\ out'[j].kind = "event"
    BY <1>1, <1>2
  <2> QED
    BY <2>1, <2>2 DEF FleetFrom
<1>3. ASSUME NEW n \in 1 .. Len(out) + 1, \A j \in n .. Len(out) : out[j].kind = "event", NextFleet
      PROVE  FleetFrom(n)'
  <2>1. \A j \in n .. Len(out) : j \in 1 .. Len(out) /\ out'[j].kind = "event"
    BY <1>1, <1>3
  <2>2. CASE m.kind = "fleet"
    <3>1. Len(out) + 1 \in n .. Len(out') /\ out'[Len(out) + 1].kind = "fleet"
      BY <1>1, <2>2
    <3>2. (Len(out) + 1) - 1 = Len(out)
      BY <1>1
    <3> QED
      BY <2>1, <3>1, <3>2 DEF FleetFrom
  <2>3. CASE m.kind = "event" /\ NextFleet'
    <3>1. \A j \in n .. Len(out') : j \in n .. Len(out) \/ j = Len(out) + 1
      BY <1>1
    <3>2. \A j \in n .. Len(out') : out'[j].kind = "event"
      BY <1>1, <2>1, <2>3, <3>1
    <3> QED
      BY <2>3, <3>2 DEF FleetFrom, NextFleet
  <2> QED
    BY <1>3, <2>2, <2>3
<1>4. ASSUME NextFleet', NEW n \in {Len(out) + 2} PROVE FleetFrom(n)'
  <2>1. \A j \in n .. Len(out') : out'[j].kind = "event"
    BY <1>1
  <2> QED
    BY <1>4, <2>1 DEF FleetFrom, NextFleet
<1>5. ASSUME NEW n \in 1 .. Len(out) + 1, FleetFrom(n) PROVE FleetFrom(n)'
  BY <1>2, <1>3, <1>5 DEF FleetFrom, NextFleet
<1> QED
  BY <1>4, <1>5

\* A delivery less.
LEMMA WholeLess ==
    ASSUME BoardTyped, out # << >>, out' = Tail(out), NextFleet => NextFleet'
    PROVE  /\ \A n \in 1 .. Len(out) : FleetFrom(n + 1) => FleetFrom(n)'
           /\ FleetFrom(1) /\ out[1].kind = "event" => FleetFrom(1)'
<1>1. /\ Len(out) \in Nat /\ Len(out') = Len(out) - 1 /\ 1 \in 1 .. Len(out)
      /\ \A n \in 1 .. Len(out') : n + 1 \in 1 .. Len(out) /\ out'[n] = out[n + 1]
      /\ \A n \in 1 .. Len(out) : n = 1 \/ (n - 1 \in 1 .. Len(out') /\ out'[n - 1] = out[n])
  BY OutTaken, FirstTaken DEF BoardTyped
<1>2. ASSUME NEW n \in 1 .. Len(out), FleetFrom(n + 1) PROVE FleetFrom(n)'
  <2>1. ASSUME NEW k \in n + 1 .. Len(out), out[k].kind = "fleet",
               \A j \in n + 1 .. k - 1 : out[j].kind = "event"
        PROVE  FleetFrom(n)'
    <3>1. k - 1 \in n .. Len(out') /\ out'[k - 1].kind = "fleet"
      BY <1>1, <2>1
    <3>2. \A j \in n .. (k - 1) - 1 : j \in 1 .. Len(out') /\ j + 1 \in n + 1 .. k - 1
      BY <1>1, <2>1
    <3>3. \A j \in n .. (k - 1) - 1 : out'[j].kind = "event"
      BY <1>1, <2>1, <3>2
    <3> QED
      BY <3>1, <3>3 DEF FleetFrom
  <2>2. ASSUME \A j \in n + 1 .. Len(out) : out[j].kind = "event", NextFleet
        PROVE  FleetFrom(n)'
    <3>1. \A j \in n .. Len(out') : j \in 1 .. Len(out') /\ j + 1 \in n + 1 .. Len(out)
      BY <1>1
    <3>2. \A j \in n .. Len(out') : out'[j].kind = "event"
      BY <1>1, <2>2, <3>1
    <3> QED
      BY <2>2, <3>2 DEF FleetFrom, NextFleet
  <2> QED
    BY <1>2, <2>1, <2>2 DEF FleetFrom, NextFleet
<1>3. ASSUME FleetFrom(1), out[1].kind = "event" PROVE FleetFrom(2)
  <2>1. \A k \in 1 .. Len(out) : out[k].kind = "fleet" => k \in 2 .. Len(out)
    BY <1>1, <1>3
  <2>2. /\ \A j \in 2 .. Len(out) : j \in 1 .. Len(out)
        /\ \A k \in 1 .. Len(out) : \A j \in 2 .. k - 1 : j \in 1 .. k - 1
    BY <1>1
  <2> QED
    BY <1>3, <2>1, <2>2 DEF FleetFrom
<1> QED
  BY <1>1, <1>2, <1>3

\* The rest stays.
LEMMA WholeSame ==
    ASSUME out' = out, NextFleet => NextFleet'
    PROVE  \A n : FleetFrom(n) => FleetFrom(n)'
BY DEF FleetFrom, NextFleet

LEMMA WholeStep ==
    ASSUME BoardTyped, PhasesOK, SnapshotsWhole, BoardNext
    PROVE  SnapshotsWhole'
<1> USE DEF daemonVars, connVars, deskVars
<1>w. /\ Len(reqs) \in Nat /\ Len(out) \in Nat /\ serving \in Hands
      /\ \A n \in 1 .. Len(reqs) : reqs[n] \in BoardRequests
      /\ reqs # << >> => 1 \in 1 .. Len(reqs)
  BY BoardWires, FirstTaken DEF BoardTyped
<1>p. (half # NoBoard => FleetFrom(1)) /\ OutWhole /\ HandWhole /\ ReqsWhole
  BY DEF SnapshotsWhole
<1>g. ASSUME (half # NoBoard => FleetFrom(1))', OutWhole', HandWhole', ReqsWhole' PROVE SnapshotsWhole'
  BY <1>g DEF SnapshotsWhole
<1>h. ASSUME UNCHANGED serving PROVE \A k : HandHas(k)' <=> HandHas(k)
  BY <1>h DEF HandHas
<1>1. ASSUME UNCHANGED << reqs, serving, out, half >> PROVE SnapshotsWhole'
  BY <1>1 DEF SnapshotsWhole, OutWhole, HandWhole, ReqsWhole, FleetFrom, HandHas
<1>2. ASSUME \/ \E c \in BoardCards, l \in BoardLanes : OthersMove(c, l)
             \/ \E c \in BoardCards, k \in Keys : OthersRaise(c, k) \/ OthersResolve(c, k)
      PROVE  UNCHANGED << reqs, serving, out, half >>
  BY <1>2 DEF OthersMove, OthersRaise, OthersResolve
\* A delivery more.
<1>3. ASSUME NEW m \in Deliveries, out' = Append(out, m), UNCHANGED << reqs, half >>,
             NextFleet => m.kind = "fleet" \/ (m.kind = "event" /\ NextFleet'),
             m.kind = "cards" => NextFleet', HandHas("cards")' => HandHas("cards")
      PROVE  SnapshotsWhole'
  <2>1. /\ \A n \in 1 .. Len(out) + 1 : FleetFrom(n) => FleetFrom(n)'
        /\ NextFleet' => \A n \in {Len(out) + 2} : FleetFrom(n)'
    BY <1>3, WholeMore
  <2>2. /\ out'[Len(out) + 1] = m
        /\ \A n \in 1 .. Len(out') : (n \in 1 .. Len(out) /\ out'[n] = out[n]) \/ n = Len(out) + 1
    BY <1>3, OutAdded
  <2>3. \A n \in 1 .. Len(out') : out'[n].kind = "cards" => FleetFrom(n + 1)'
    <3>1. ASSUME NEW n \in 1 .. Len(out'), out'[n].kind = "cards" PROVE FleetFrom(n + 1)'
      <4>1. CASE n \in 1 .. Len(out) /\ out'[n] = out[n]
        <5>1. FleetFrom(n + 1) /\ n + 1 \in 1 .. Len(out) + 1
          BY <1>p, <1>w, <3>1, <4>1 DEF OutWhole
        <5>2. PICK k : k = n + 1
          OBVIOUS
        <5>3. FleetFrom(k) /\ k \in 1 .. Len(out) + 1
          BY <5>1, <5>2
        <5>4. FleetFrom(k)'
          BY <2>1, <5>3
        <5> QED
          BY <5>2, <5>4
      <4>2. CASE n = Len(out) + 1
        <5>1. m.kind = "cards" /\ n + 1 = Len(out) + 2
          BY <1>w, <2>2, <3>1, <4>2
        <5>2. PICK k : k = n + 1
          OBVIOUS
        <5>3. FleetFrom(k)'
          BY <1>3, <2>1, <5>1, <5>2
        <5> QED
          BY <5>2, <5>3
      <4> QED
        BY <2>2, <4>1, <4>2
    <3> QED
      BY <3>1
  <2>4. (half # NoBoard => FleetFrom(1))'
    <3>1. 1 \in 1 .. Len(out) + 1
      BY <1>w
    <3> QED
      BY <1>3, <1>p, <2>1, <3>1
  <2> QED
    BY <1>3, <1>g, <1>p, <2>3, <2>4 DEF OutWhole, HandWhole, ReqsWhole
<1>4. ASSUME ForwardEvent PROVE SnapshotsWhole'
  <2> DEFINE m == [kind |-> "event", event |-> Head(queue)]
  <2>1. queue # << >> /\ queue \in Seq(BoardEvents)
    BY <1>4 DEF ForwardEvent, BoardTyped
  <2>2. m \in Deliveries
    BY <2>1, FirstTaken DEF Deliveries, Announcements
  <2>3. out' = Append(out, m) /\ m.kind = "event" /\ UNCHANGED << reqs, serving, half >>
    BY <1>4 DEF ForwardEvent
  <2> HIDE DEF m
  <2>4. (NextFleet => NextFleet') /\ \A k : HandHas(k)' <=> HandHas(k)
    BY <2>3 DEF NextFleet, HandHas
  <2> QED
    BY <1>3, <2>2, <2>3, <2>4
<1>5. ASSUME SendAnswer PROVE SnapshotsWhole'
  <2>1. /\ serving.kind = "answer" /\ serving.answer \in Deliveries
        /\ out' = Append(out, serving.answer) /\ serving' = Nothing /\ UNCHANGED << reqs, half >>
    BY <1>5, HandFields DEF SendAnswer, Deliveries, BoardTyped
  <2>2. PICK m \in Deliveries : m = serving.answer
    BY <2>1
  <2>3. NextFleet => m.kind = "fleet"
    BY <2>1, <2>2 DEF NextFleet, HandHas, Nothing
  <2>4. m.kind = "cards" => NextFleet'
    BY <1>p, <2>1, <2>2 DEF HandWhole, HandHas, NextFleet
  <2>5. ~ HandHas("cards")'
    BY <2>1 DEF HandHas, Nothing
  <2>6. out' = Append(out, m)
    BY <2>1, <2>2
  <2> QED
    BY <1>3, <2>1, <2>3, <2>4, <2>5, <2>6
\* Nothing leaves or reaches the socket to the desktop.
<1>6. ASSUME UNCHANGED << out, half >>, NextFleet => NextFleet', HandWhole', ReqsWhole' PROVE SnapshotsWhole'
  <2>1. \A n : FleetFrom(n) => FleetFrom(n)'
    BY <1>6, WholeSame
  <2>2. OutWhole'
    <3>1. ASSUME NEW n \in 1 .. Len(out), out[n].kind = "cards" PROVE FleetFrom(n + 1)'
      BY <1>p, <2>1, <3>1 DEF OutWhole
    <3> QED
      BY <1>6, <3>1 DEF OutWhole
  <2> QED
    BY <1>6, <1>g, <1>p, <2>1, <2>2
<1>7. ASSUME NEW a \in BoardAnswers, ReadsFor(a) PROVE SnapshotsWhole'
  <2>1. /\ UNCHANGED << reqs, out, half >>
        /\ (HandHas("fleet")' <=> HandHas("fleet")) /\ (HandHas("cards")' <=> HandHas("cards"))
        /\ serving # Nothing
    <3>1. serving # Nothing
      BY <1>7 DEF ReadsFor, Nothing
    <3> QED
      BY <1>7, <3>1 DEF ReadsFor, HandHas
  <2>2. NextFleet => NextFleet'
    BY <2>1 DEF NextFleet
  <2> QED
    BY <1>6, <1>p, <2>1, <2>2 DEF HandWhole, ReqsWhole
<1>8. ASSUME ReadAnswer PROVE SnapshotsWhole'
  BY <1>7, <1>8, ReadDoes
<1>9. ASSUME NEW r \in BoardRequests, TakesUp(r), \/ serving' = r /\ r.kind # "subscribe"
                                                  \/ /\ serving'.kind = "answer" /\ r.kind \in {"move", "subscribe"}
                                                     /\ serving'.answer.kind \in {"refused", "subscribed"}
      PROVE  SnapshotsWhole'
  <2>1. /\ serving = Nothing /\ reqs # << >> /\ r = reqs[1] /\ reqs' = Tail(reqs) /\ UNCHANGED << out, half >>
    BY <1>9 DEF TakesUp
  <2>2. /\ Len(reqs') = Len(reqs) - 1 /\ 1 \in 1 .. Len(reqs)
        /\ \A n \in 1 .. Len(reqs') : n + 1 \in 1 .. Len(reqs) /\ reqs'[n] = reqs[n + 1]
        /\ \A n \in 1 .. Len(reqs) : n = 1 \/ (n - 1 \in 1 .. Len(reqs') /\ reqs'[n - 1] = reqs[n])
    BY <2>1, ReqsTaken
  <2>3. NextFleet => NextFleet'
    BY <1>9, <2>1 DEF NextFleet, HandHas, Nothing
  <2>4. HandWhole'
    <3>1. HandHas("cards")' => reqs[1].kind = "cards"
      BY <1>9, <2>1, RequestFields DEF HandHas
    <3>2. reqs[1].kind = "cards" => 1 \in 1 .. Len(reqs') /\ reqs'[1].kind = "fleet"
      <4>1. reqs[1].kind = "cards" => 2 \in 1 .. Len(reqs) /\ reqs[2].kind = "fleet"
        <5>1. 1 + 1 = 2
          OBVIOUS
        <5> QED
          BY <1>p, <2>2, <5>1 DEF ReqsWhole
      <4>2. 2 \in 1 .. Len(reqs) => 1 \in 1 .. Len(reqs')
        BY <1>w, <2>2
      <4>3. 1 \in 1 .. Len(reqs') => reqs'[1] = reqs[2]
        <5>1. 1 + 1 = 2
          OBVIOUS
        <5> QED
          BY <2>2, <5>1
      <4> QED
        BY <4>1, <4>2, <4>3
    <3>3. 1 \in 1 .. Len(reqs') => reqs' # << >>
      OBVIOUS
    <3> QED
      BY <3>1, <3>2, <3>3 DEF HandWhole
  <2>5. ReqsWhole'
    <3>1. ASSUME NEW n \in 1 .. Len(reqs'), reqs'[n].kind = "cards"
          PROVE  n + 1 \in 1 .. Len(reqs') /\ reqs'[n + 1].kind = "fleet"
      <4>1. n + 1 \in 1 .. Len(reqs) /\ reqs[n + 1].kind = "cards"
        BY <2>2, <3>1
      <4>2. (n + 1) + 1 \in 1 .. Len(reqs) /\ reqs[(n + 1) + 1].kind = "fleet"
        BY <1>p, <4>1 DEF ReqsWhole
      <4>3. n + 1 \in 1 .. Len(reqs')
        BY <1>w, <2>2, <4>2
      <4> QED
        BY <2>2, <4>2, <4>3
    <3> QED
      BY <3>1 DEF ReqsWhole
  <2> QED
    BY <1>6, <2>1, <2>3, <2>4, <2>5
<1>10. ASSUME Serve PROVE SnapshotsWhole'
  <2>1. PICK r \in BoardRequests : MakesMove(r) \/ RefusesMove(r) \/ HearsLog(r) \/ Reads(r)
    BY <1>10, ServeDoes
  <2>2. TakesUp(r)
    BY <2>1 DEF MakesMove, RefusesMove, HearsLog, Reads
  <2>3. CASE MakesMove(r)
    BY <1>9, <2>2, <2>3 DEF MakesMove
  <2>4. CASE RefusesMove(r)
    BY <1>9, <2>2, <2>4 DEF RefusesMove
  <2>5. CASE HearsLog(r)
    BY <1>9, <2>2, <2>5 DEF HearsLog
  <2>6. CASE Reads(r)
    BY <1>9, <2>2, <2>6 DEF Reads
  <2> QED
    BY <2>1, <2>3, <2>4, <2>5, <2>6
\* Requests more.
<1>11. ASSUME UNCHANGED serving, Len(reqs') \in Nat,
              \A n \in 1 .. Len(reqs) : n \in 1 .. Len(reqs') /\ reqs'[n] = reqs[n],
              \A n \in 1 .. Len(reqs') : n \in 1 .. Len(reqs) \/ reqs'[n].kind # "cards"
                                         \/ (n + 1 \in 1 .. Len(reqs') /\ reqs'[n + 1].kind = "fleet")
       PROVE  HandWhole' /\ ReqsWhole' /\ (NextFleet => NextFleet')
  <2>1. reqs # << >> => reqs' # << >> /\ reqs'[1] = reqs[1]
    <3>1. 1 \in 1 .. Len(reqs') => reqs' # << >>
      OBVIOUS
    <3> QED
      BY <1>w, <1>11, <3>1
  <2>2. HandWhole' /\ (NextFleet => NextFleet')
    BY <1>11, <1>h, <1>p, <2>1 DEF HandWhole, NextFleet
  <2>3. ReqsWhole'
    <3>1. ASSUME NEW n \in 1 .. Len(reqs'), reqs'[n].kind = "cards"
          PROVE  n + 1 \in 1 .. Len(reqs') /\ reqs'[n + 1].kind = "fleet"
      <4>1. CASE n \in 1 .. Len(reqs)
        <5>1. n + 1 \in 1 .. Len(reqs) /\ reqs[n + 1].kind = "fleet"
          BY <1>11, <1>p, <3>1, <4>1 DEF ReqsWhole
        <5> QED
          BY <1>11, <5>1
      <4>2. CASE n \notin 1 .. Len(reqs)
        BY <1>11, <3>1, <4>2
      <4> QED
        BY <4>1, <4>2
    <3> QED
      BY <3>1 DEF ReqsWhole
  <2> QED
    BY <2>2, <2>3
<1>12. ASSUME NEW m \in BoardRequests, m.kind # "cards", reqs' = Append(reqs, m), UNCHANGED serving
       PROVE  HandWhole' /\ ReqsWhole' /\ (NextFleet => NextFleet')
  <2>1. /\ Len(reqs') = Len(reqs) + 1 /\ reqs'[Len(reqs) + 1] = m
        /\ \A n \in 1 .. Len(reqs) : n \in 1 .. Len(reqs') /\ reqs'[n] = reqs[n]
        /\ \A n \in 1 .. Len(reqs') : n \in 1 .. Len(reqs) \/ n = Len(reqs) + 1
    BY <1>12, ReqsAdded
  <2>2. Len(reqs') \in Nat
    BY <1>w, <2>1
  <2> QED
    BY <1>11, <1>12, <2>1, <2>2
<1>13. ASSUME NEW c \in BoardCards, NEW l \in BoardLanes, DragCard(c, l) PROVE SnapshotsWhole'
  <2>1. CASE link = "up"
    <3>1. /\ reqs' = Append(reqs, [kind |-> "move", id |-> moves + 1, card |-> c, to |-> l])
          /\ UNCHANGED << out, serving, half >>
      BY <1>13, <2>1 DEF DragCard
    <3>2. [kind |-> "move", id |-> moves + 1, card |-> c, to |-> l] \in BoardRequests
      BY BoardAssumption DEF BoardRequests, MoveRequests, BoardTyped
    <3> QED
      BY <1>6, <1>12, <3>1, <3>2
  <2>2. CASE link # "up"
    BY <1>1, <1>13, <2>2 DEF DragCard
  <2> QED
    BY <2>1, <2>2
<1>14. ASSUME Refresh PROVE SnapshotsWhole'
  <2>1. reqs' = reqs \o Snapshot /\ UNCHANGED << out, serving, half >>
    BY <1>14 DEF Refresh
  <2>2. /\ Len(reqs') = Len(reqs) + 2
        /\ reqs'[Len(reqs) + 2].kind = "fleet" /\ Len(reqs) + 2 \in 1 .. Len(reqs')
        /\ \A n \in 1 .. Len(reqs) : n \in 1 .. Len(reqs') /\ reqs'[n] = reqs[n]
        /\ \A n \in 1 .. Len(reqs') : n \in 1 .. Len(reqs) \/ n = Len(reqs) + 1 \/ n = Len(reqs) + 2
    BY <2>1, ReqsSnapshot
  <2>3. Len(reqs') \in Nat /\ (Len(reqs) + 1) + 1 = Len(reqs) + 2
    BY <1>w, <2>2
  <2>4. \A n \in 1 .. Len(reqs') : n \in 1 .. Len(reqs) \/ reqs'[n].kind # "cards"
                                   \/ (n + 1 \in 1 .. Len(reqs') /\ reqs'[n + 1].kind = "fleet")
    BY <2>2, <2>3
  <2>5. HandWhole' /\ ReqsWhole' /\ (NextFleet => NextFleet')
    BY <1>11, <2>1, <2>2, <2>3, <2>4
  <2> QED
    BY <1>6, <2>1, <2>5
\* The desktop takes what comes first.
<1>15. ASSUME TakeIn PROVE SnapshotsWhole'
  <2>1. out # << >> /\ Head(out) = out[1] /\ out[1] \in Deliveries /\ out' = Tail(out) /\ serving' = serving
    BY <1>15, TakeInDoes
  <2>2. HandWhole' /\ ReqsWhole' /\ (NextFleet => NextFleet')
    <3>1. CASE reqs' = reqs
      BY <1>h, <1>p, <2>1, <3>1 DEF HandWhole, ReqsWhole, NextFleet
    <3>2. CASE reqs' # reqs
      <4>1. reqs' = Append(reqs, [kind |-> "subscribe"])
        BY <1>15, <3>2 DEF TakeIn, TakeCards, TakeFleet, TakeSubscribed, TakeEvent, TakeMoved, TakeRefused
      <4>2. [kind |-> "subscribe"] \in BoardRequests /\ [kind |-> "subscribe"].kind # "cards"
        BY DEF BoardRequests
      <4> QED
        BY <1>12, <2>1, <4>1, <4>2
    <3> QED
      BY <3>1, <3>2
  <2>3. /\ \A n \in 1 .. Len(out) : FleetFrom(n + 1) => FleetFrom(n)'
        /\ FleetFrom(1) /\ out[1].kind = "event" => FleetFrom(1)'
    BY <2>1, <2>2, WholeLess
  <2>4. /\ \A n \in 1 .. Len(out') : n + 1 \in 1 .. Len(out) /\ out'[n] = out[n + 1]
        /\ 1 \in 1 .. Len(out)
    BY <2>1, OutTaken, FirstTaken DEF BoardTyped
  <2>5. \A n \in 1 .. Len(out') : out'[n].kind = "cards" => FleetFrom(n + 1)'
    <3>1. ASSUME NEW n \in 1 .. Len(out'), out'[n].kind = "cards" PROVE FleetFrom(n + 1)'
      <4>1. PICK k : k = n + 1
        OBVIOUS
      <4>2. k \in 1 .. Len(out) /\ out[k].kind = "cards"
        BY <2>4, <3>1, <4>1
      <4>3. FleetFrom(k + 1)
        BY <1>p, <4>2 DEF OutWhole
      <4>4. FleetFrom(k)'
        BY <2>3, <4>2, <4>3
      <4> QED
        BY <4>1, <4>4
    <3> QED
      BY <3>1
  <2>6. (half # NoBoard => FleetFrom(1))'
    <3>1. CASE TakeCards
      <4>1. FleetFrom(1 + 1)
        BY <1>p, <2>1, <2>4, <3>1 DEF OutWhole, TakeCards, Arrives
      <4> QED
        BY <2>3, <2>4, <4>1
    <3>2. CASE TakeFleet
      BY <3>2 DEF TakeFleet
    <3>3. CASE ~ TakeCards /\ ~ TakeFleet
      <4>1. half' = half /\ out[1].kind \notin {"cards", "fleet"}
        BY <1>15, <2>1, <3>3 DEF TakeIn, TakeSubscribed, TakeEvent, TakeMoved, TakeRefused, Arrives
      <4>2. FleetFrom(1) => out[1].kind = "event"
        <5>1. \A n \in 1 .. Len(out) : n = 1 \/ 1 \in 1 .. n - 1
          OBVIOUS
        <5> QED
          BY <2>4, <4>1, <5>1 DEF FleetFrom
      <4> QED
        BY <1>p, <2>3, <4>1, <4>2
    <3> QED
      BY <3>1, <3>2, <3>3
  <2> QED
    BY <1>g, <2>2, <2>5, <2>6 DEF OutWhole
\* Nothing is under way.
<1>16. ASSUME serving' = Nothing, out' = << >>, half' = NoBoard, reqs' = << >> \/ reqs' = Snapshot PROVE SnapshotsWhole'
  <2>1. Len(out') = 0 /\ ~ HandHas("cards")'
    BY <1>16 DEF HandHas, Nothing
  <2>2. ReqsWhole'
    <3>1. reqs' = << >> => Len(reqs') = 0
      OBVIOUS
    <3> QED
      BY <1>16, <3>1, SnapshotAlone DEF ReqsWhole
  <2> QED
    BY <1>16, <1>g, <2>1, <2>2 DEF OutWhole, HandWhole
<1>17. ASSUME Connect \/ Reconnect PROVE SnapshotsWhole'
  <2>1. /\ UNCHANGED << out, serving, half >> /\ (reqs' = Snapshot \/ reqs' = reqs)
        /\ out = << >> /\ serving = Nothing /\ half = NoBoard /\ reqs = << >>
    BY <1>17 DEF Connect, Reconnect, PhasesOK
  <2> QED
    BY <1>16, <2>1
<1>18. ASSUME Drop PROVE SnapshotsWhole'
  BY <1>16, <1>18 DEF Drop
<1> QED
  BY <1>1, <1>2, <1>4, <1>5, <1>8, <1>10, <1>13, <1>14, <1>15, <1>17, <1>18 DEF BoardNext, Daemon

\* The loop takes up a request of the connection.
LEMMA LaneTakenUp ==
    ASSUME BoardTyped, NEW c \in BoardCards, LaneOK(c), NEW r \in BoardRequests, TakesUp(r),
           News(r, c) => HandNews(c)'
    PROVE  /\ \A m : News(m, c)' <=> News(m, c)
           /\ \A n : OutNews(n, c) => OutNews(n, c)'
           /\ \A n \in 1 .. Len(reqs') : n + 1 \in 1 .. Len(reqs) /\ reqs'[n] = reqs[n + 1]
           /\ \A n \in 1 .. Len(reqs) : ReqNews(n + 1, c) => ReqNews(n, c)'
           /\ MoveOf(r, c) => Restores(r, c) \/ ReqNews(1, c)'
<1>1. /\ UNCHANGED << moving, out, half, board, boot >> /\ serving = Nothing /\ reqs # << >>
      /\ r = reqs[1] /\ reqs' = Tail(reqs)
  BY DEF TakesUp, deskVars
<1>2. /\ Len(reqs) \in Nat /\ Len(reqs') = Len(reqs) - 1 /\ 1 \in 1 .. Len(reqs)
      /\ \A n \in 1 .. Len(reqs') : n + 1 \in 1 .. Len(reqs) /\ reqs'[n] = reqs[n + 1]
      /\ \A n \in 1 .. Len(reqs) : n = 1 \/ (n - 1 \in 1 .. Len(reqs') /\ reqs'[n - 1] = reqs[n])
  BY <1>1, ReqsTaken
<1>3. /\ \A m : MoveOf(m, c)' <=> MoveOf(m, c)
      /\ \A m : News(m, c)' <=> News(m, c)
  BY <1>1 DEF MoveOf, News
<1>4. ASSUME NEW n \in 1 .. Len(reqs), ReqNews(n + 1, c) PROVE ReqNews(n, c)'
  <2>1. PICK k \in n + 1 .. Len(reqs) : News(reqs[k], c)
    BY <1>4 DEF ReqNews
  <2>2. k \in 1 .. Len(reqs) /\ k # 1
    BY <1>2
  <2>3. PICK x : x = reqs[k]
    OBVIOUS
  <2>4. k - 1 \in n .. Len(reqs') /\ x = reqs'[k - 1] /\ News(x, c)'
    BY <1>2, <1>3, <2>1, <2>2, <2>3
  <2> QED
    BY <2>4 DEF ReqNews
<1>5. ReqNews(1, c) => ReqNews(1, c)' \/ HandNews(c)'
  <2>1. ASSUME NEW k \in 1 .. Len(reqs), News(reqs[k], c) PROVE ReqNews(1, c)' \/ HandNews(c)'
    <3>1. CASE k = 1
      BY <1>1, <2>1, <3>1
    <3>2. CASE k # 1
      <4>1. k \in 1 + 1 .. Len(reqs)
        BY <1>2, <3>2
      <4> QED
        BY <1>2, <1>4, <2>1, <4>1 DEF ReqNews
    <3> QED
      BY <3>1, <3>2
  <2> QED
    BY <2>1 DEF ReqNews
<1>6. ~ HandNews(c)
  BY <1>1 DEF HandNews, News, MoveOf, IsMove, Nothing
<1>7. ASSUME NEW n, OutNews(n, c) PROVE OutNews(n, c)'
  BY <1>1, <1>3, <1>5, <1>6, <1>7 DEF OutNews
<1>8. MoveOf(r, c) => Restores(r, c) \/ ReqNews(1, c)'
  <2>1. MoveOf(reqs[1], c) => Restores(reqs[1], c) \/ ReqNews(1 + 1, c)
    BY <1>2, LaneParts DEF ReqLane
  <2> QED
    BY <1>1, <1>2, <1>4, <2>1
<1> QED
  BY <1>2, <1>3, <1>4, <1>7, <1>8

\* The request for events is as far as it was.
LEMMA StillWaits ==
    ASSUME BoardTyped, NEW r \in BoardRequests, TakesUp(r), r.kind # "subscribe"
    PROVE  WillSubscribe => WillSubscribe'
<1>1. reqs # << >> /\ r = reqs[1] /\ reqs' = Tail(reqs) /\ boot' = boot
  BY DEF TakesUp, deskVars
<1>2. \A i \in 1 .. Len(reqs) : reqs[i].kind = "subscribe" => i - 1 \in 1 .. Len(reqs') /\ reqs'[i - 1].kind = "subscribe"
  <2>1. \A n \in 1 .. Len(reqs) : n = 1 \/ (n - 1 \in 1 .. Len(reqs') /\ reqs'[n - 1] = reqs[n])
    BY <1>1, ReqsTaken
  <2> QED
    BY <1>1, <2>1
<1>3. DOMAIN reqs = 1 .. Len(reqs) /\ DOMAIN reqs' = 1 .. Len(reqs')
  <2>1. reqs \in Seq(BoardRequests) /\ reqs' \in Seq(BoardRequests)
    BY <1>1, FirstTaken DEF BoardTyped
  <2> QED
    BY <2>1
<1> QED
  BY <1>1, <1>2, <1>3 DEF WillSubscribe

\* A request taken up that leaves the card where it is.
LEMMA LaneTakenSame ==
    ASSUME BoardTyped, NEW c \in BoardCards, LaneOK(c), NEW r \in BoardRequests, TakesUp(r),
           News(r, c) => HandNews(c)', lane'[c] = lane[c], HandLane(c)',
           Untold(LaneOf(c)) => Untold(LaneOf(c))' \/ (InQueue(LaneOf(c))' /\ out = << >> /\ half = NoBoard),
           InQueue(LaneOf(c)) => InQueue(LaneOf(c))'
    PROVE  LaneOK(c)'
<1>1. UNCHANGED << moving, out, half, board >>
  BY DEF TakesUp, deskVars
<1>3. /\ \A m : News(m, c)' <=> News(m, c)
      /\ \A n : OutNews(n, c) => OutNews(n, c)'
      /\ \A n \in 1 .. Len(reqs') : n + 1 \in 1 .. Len(reqs) /\ reqs'[n] = reqs[n + 1]
      /\ \A n \in 1 .. Len(reqs) : ReqNews(n + 1, c) => ReqNews(n, c)'
  BY LaneTakenUp
<1>4. \A m : MoveOf(m, c)' <=> MoveOf(m, c)
  BY <1>1 DEF MoveOf
<1>5. \A m : Restores(m, c) => Restores(m, c)'
  BY <1>1 DEF Restores
<1>6. \/ out = << >> /\ half = NoBoard /\ Len(out) = 0
      \/ /\ Untold(LaneOf(c)) => Untold(LaneOf(c))'
         /\ \A m : m.kind \in {"cards", "moved", "refused"} /\ RightAnswer(m, c) => RightAnswer(m, c)'
  <2>1. CASE Untold(LaneOf(c)) => Untold(LaneOf(c))'
    BY <1>1, <2>1, SameSources
  <2>2. CASE out = << >> /\ half = NoBoard
    BY <2>2
  <2> QED
    BY <2>1, <2>2
<1>7. ReqLane(c)'
  <2>1. ASSUME NEW n \in 1 .. Len(reqs'), NEW x, x = reqs'[n], MoveOf(x, c) PROVE Restores(x, c)' \/ ReqNews(n + 1, c)'
    <3>1. PICK k : k = n + 1
      OBVIOUS
    <3>2. k \in 1 .. Len(reqs) /\ x = reqs[k]
      BY <1>3, <2>1, <3>1
    <3>3. Restores(x, c) \/ ReqNews(k + 1, c)
      BY <2>1, <3>2, LaneParts DEF ReqLane
    <3>4. Restores(x, c)' \/ ReqNews(k, c)'
      BY <1>3, <1>5, <3>2, <3>3
    <3> QED
      BY <3>1, <3>4
  <2> QED
    BY <1>4, <2>1 DEF ReqLane
<1>9. OutLane(c)'
  <2>1. ASSUME NEW n \in 1 .. Len(out), NEW x, x = out[n], News(x, c) PROVE RightAnswer(x, c)' \/ OutNews(n + 1, c)'
    <3>1. RightAnswer(x, c) \/ OutNews(n + 1, c)
      BY <2>1, LaneParts DEF OutLane
    <3>2. x.kind \in {"cards", "moved", "refused"}
      BY <2>1, BoardWires, NewsAnswer
    <3>3. PICK k : k = n + 1
      OBVIOUS
    <3>4. RightAnswer(x, c)' \/ OutNews(k, c)'
      BY <1>3, <1>6, <3>1, <3>2, <3>3
    <3> QED
      BY <3>3, <3>4
  <2> QED
    BY <1>1, <1>3, <2>1 DEF OutLane
<1>10. HalfLane(c)'
  BY <1>1, <1>3, <1>6, LaneParts DEF HalfLane
<1>11. BoardLane(c)'
  <2>1. InOut(LaneOf(c))' <=> InOut(LaneOf(c))
    BY <1>1 DEF InOut, IsEventOf
  <2> QED
    BY <1>1, <1>3, <2>1, LaneParts DEF BoardLane
<1> QED
  BY <1>7, <1>9, <1>10, <1>11, LanePartsNext

\* A move of the card is made.
LEMMA LaneMade ==
    ASSUME BoardTyped, MovesOK, NEW c \in BoardCards, LaneOK(c), NEW r \in BoardRequests, MakesMove(r)
    PROVE  LaneOK(c)'
<1>1. /\ TakesUp(r) /\ r.kind = "move" /\ serving' = r /\ lane' = [lane EXCEPT ![r.card] = r.to] /\ r.card \in BoardCards
      /\ UNCHANGED << moving, out, half, board, boot, subscribed >> /\ serving = Nothing /\ r = reqs[1] /\ reqs # << >>
  BY RequestFields DEF MakesMove, TakesUp, deskVars
<1>2. News(r, c) => HandNews(c)'
  BY <1>1 DEF HandNews, News, MoveOf
<1>3. /\ \A m : News(m, c)' <=> News(m, c)
      /\ \A n : OutNews(n, c) => OutNews(n, c)'
      /\ \A n \in 1 .. Len(reqs') : n + 1 \in 1 .. Len(reqs) /\ reqs'[n] = reqs[n + 1]
      /\ \A n \in 1 .. Len(reqs) : ReqNews(n + 1, c) => ReqNews(n, c)'
      /\ MoveOf(r, c) => Restores(r, c) \/ ReqNews(1, c)'
  BY <1>1, <1>2, LaneTakenUp
<1>4. \A m : MoveOf(m, c)' <=> MoveOf(m, c)
  BY <1>1 DEF MoveOf
<1>5. /\ OneEach /\ Ascends(reqs) /\ 1 \in 1 .. Len(reqs) /\ Len(reqs) \in Nat
      /\ \E p \in moving : p.id = r.id /\ p.card = r.card
  <2>1. OneEach /\ Ascends(reqs) /\ ReqEntries
    BY MovesAre
  <2>2. 1 \in 1 .. Len(reqs) /\ Len(reqs) \in Nat
    BY <1>1, ReqsTaken DEF TakesUp
  <2> QED
    BY <1>1, <2>1, <2>2 DEF ReqEntries, Entry, IsMove
<1>6. CASE c = r.card
  <2>1. MoveOf(r, c) /\ HandNews(c)'
    <3>1. MoveOf(r, c)
      BY <1>1, <1>5, <1>6 DEF MoveOf, IsMove
    <3> QED
      BY <1>2, <3>1 DEF News
  <2>2. \A n : OutNews(n, c)'
    BY <2>1 DEF OutNews
  <2>3. OutLane(c)' /\ HalfLane(c)' /\ BoardLane(c)'
    BY <2>2 DEF OutLane, HalfLane, BoardLane
  <2>4. HandLane(c)'
    <3>1. Restores(r, c) => LoneMove(r, c)'
      BY <1>1 DEF Restores, LoneMove
    <3> QED
      BY <1>1, <1>3, <2>1, <3>1 DEF HandLane
  <2>5. ReqLane(c)'
    <3>1. ASSUME NEW n \in 1 .. Len(reqs'), MoveOf(reqs'[n], c) PROVE ReqNews(n + 1, c)'
      <4>1. n + 1 \in 1 .. Len(reqs) /\ reqs'[n] = reqs[n + 1] /\ MoveOf(reqs[n + 1], c) /\ n + 1 \in 2 .. Len(reqs)
        BY <1>3, <1>5, <3>1
      <4>2. Restores(reqs[n + 1], c) \/ ReqNews((n + 1) + 1, c)
        BY <4>1, LaneParts DEF ReqLane
      <4>3. r.id < reqs[n + 1].id
        <5>1. IsMove(reqs[1]) /\ IsMove(reqs[n + 1]) /\ n + 1 \in 1 + 1 .. Len(reqs)
          BY <1>1, <4>1 DEF MoveOf, IsMove
        <5> QED
          BY <1>1, <1>5, <5>1 DEF Ascends
      <4>4. r.id \in Nat /\ reqs[n + 1].id \in Nat
        <5>1. IsMove(reqs[1]) /\ IsMove(reqs[n + 1])
          BY <1>1, <4>1 DEF MoveOf, IsMove
        <5> QED
          BY <1>1, <1>5, <4>1, <5>1, UnderWay
      <4>5. ~ Restores(reqs[n + 1], c)
        BY <1>5, <1>6, <4>3, <4>4 DEF Restores
      <4>6. PICK k : k = n + 1
        OBVIOUS
      <4>7. ReqNews(k, c)'
        BY <1>3, <4>1, <4>2, <4>5, <4>6
      <4> QED
        BY <4>6, <4>7
    <3>2. \A n \in 1 .. Len(reqs') : MoveOf(reqs'[n], c) <=> (MoveOf(reqs[n], c))'
      BY <1>1 DEF MoveOf
    <3> QED
      BY <3>1, <3>2 DEF ReqLane
  <2> QED
    BY <2>3, <2>4, <2>5, LanePartsNext
<1>7. CASE c # r.card
  <2>1. ~ MoveOf(r, c)
    BY <1>5, <1>7 DEF MoveOf, OneEach
  <2>2. lane'[c] = lane[c]
    BY <1>1, <1>7 DEF BoardTyped, Boards
  <2>3. /\ \A x : InQueue(x) => InQueue(x)'
        /\ \A x : InHistory(x) => InHistory(x)'
    <3>1. PICK e \in BoardEvents : Announce(e)
      BY <1>1, OthersAnnounce, RequestFields DEF MakesMove
    <3>2. \A x : InQueue(x) => InQueue(x)'
      BY <3>1, Announced
    <3>3. ASSUME NEW x, InHistory(x) PROVE InHistory(x)'
      <4>1. /\ Len(history') = Len(history) + 1 /\ Len(history) \in Nat
            /\ \A n \in 1 .. Len(history) : history'[n] = history[n]
        BY <3>1, AnnounceAdds, BoardWires
      <4> QED
        BY <3>3, <4>1 DEF InHistory
    <3> QED
      BY <3>2, <3>3
  <2>4. Untold(LaneOf(c)) => Untold(LaneOf(c))'
    BY <1>1, <2>3, StillWaits DEF Untold
  <2>5. HandLane(c)'
    BY <1>1, <1>4, <2>1 DEF HandLane
  <2> QED
    BY <1>1, <1>2, <2>2, <2>3, <2>4, <2>5, LaneTakenSame
<1> QED
  BY <1>6, <1>7

LEMMA LaneRefusing ==
    ASSUME BoardTyped, NEW c \in BoardCards, LaneOK(c), NEW r \in BoardRequests, RefusesMove(r)
    PROVE  LaneOK(c)'
<1> DEFINE m == [kind |-> "refused", id |-> r.id]
<1>1. /\ TakesUp(r) /\ r.kind = "move" /\ r.kind # "subscribe" /\ serving' = [kind |-> "answer", answer |-> m]
      /\ UNCHANGED << lane, history, queue, moving >>
  BY DEF RefusesMove, TakesUp, deskVars
<1>2. m.kind = "refused" /\ m.id = r.id
  OBVIOUS
<1> HIDE DEF m
<1>3. serving'.kind = "answer" /\ serving'.answer = m
  BY <1>1
<1>4. (News(r, c) <=> MoveOf(r, c)) /\ (News(m, c)' <=> MoveOf(r, c))
  BY <1>1, <1>2 DEF News, MoveOf, IsMove
<1>5. News(r, c) => HandNews(c)'
  BY <1>3, <1>4 DEF HandNews
<1>6. MoveOf(r, c) => Restores(r, c) \/ ReqNews(1, c)'
  BY <1>1, <1>5, LaneTakenUp
<1>7. Restores(r, c) => RightAnswer(m, c)'
  BY <1>1, <1>2 DEF RightAnswer, Restores
<1>8. HandLane(c)'
  BY <1>3, <1>4, <1>6, <1>7 DEF HandLane
<1>9. Untold(LaneOf(c)) => Untold(LaneOf(c))'
  BY <1>1, StillWaits DEF Untold, InHistory
<1>10. InQueue(LaneOf(c)) => InQueue(LaneOf(c))'
  BY <1>1 DEF InQueue
<1> QED
  BY <1>1, <1>5, <1>8, <1>9, <1>10, LaneTakenSame

LEMMA LaneReading ==
    ASSUME BoardTyped, NEW c \in BoardCards, LaneOK(c), NEW r \in BoardRequests, Reads(r)
    PROVE  LaneOK(c)'
<1>1. /\ TakesUp(r) /\ r.kind \in {"cards", "fleet"} /\ serving' = r
      /\ UNCHANGED << lane, history, queue, moving >>
  BY DEF Reads, TakesUp, deskVars
<1>2. News(r, c) => HandNews(c)'
  BY <1>1 DEF HandNews, News, MoveOf
<1>3. HandLane(c)'
  BY <1>1 DEF HandLane
<1>4. Untold(LaneOf(c)) => Untold(LaneOf(c))'
  BY <1>1, StillWaits DEF Untold, InHistory
<1>5. InQueue(LaneOf(c)) => InQueue(LaneOf(c))'
  BY <1>1 DEF InQueue
<1> QED
  BY <1>1, <1>2, <1>3, <1>4, <1>5, LaneTakenSame

LEMMA LaneHearing ==
    ASSUME BoardTyped, PhasesOK, NEW c \in BoardCards, LaneOK(c), NEW r \in BoardRequests, HearsLog(r)
    PROVE  LaneOK(c)'
<1>1. /\ TakesUp(r) /\ r.kind = "subscribe" /\ queue' = history /\ r = reqs[1] /\ reqs # << >>
      /\ serving' = [kind |-> "answer", answer |-> [kind |-> "subscribed"]]
      /\ UNCHANGED << lane, history, moving >>
  BY DEF HearsLog, TakesUp, deskVars
<1>2. out = << >> /\ half = NoBoard /\ ~subscribed
  <2>1. 1 \in 1 .. Len(reqs)
    BY <1>1, ReqsTaken DEF TakesUp
  <2> QED
    BY <1>1, <2>1 DEF PhasesOK, SubscribesFirst
<1>3. queue = << >>
  BY <1>2 DEF PhasesOK
<1>4. ~ News(r, c)
  BY <1>1 DEF News, MoveOf, IsMove
<1>5. HandLane(c)'
  BY <1>1 DEF HandLane, News, MoveOf, IsMove
<1>6. Untold(LaneOf(c)) => InQueue(LaneOf(c))'
  BY <1>1 DEF Untold, InHistory, InQueue
<1>7. ~ InQueue(LaneOf(c))
  BY <1>3 DEF InQueue
<1> QED
  BY <1>1, <1>2, <1>4, <1>5, <1>6, <1>7, LaneTakenSame

\* The answer is read.
LEMMA LaneRead ==
    ASSUME BoardTyped, MovesOK, NEW c \in BoardCards, LaneOK(c), NEW a \in BoardAnswers, ReadsFor(a)
    PROVE  LaneOK(c)'
<1>1. /\ serving' = [kind |-> "answer", answer |-> a] /\ serving.kind \in {"move", "cards", "fleet"}
      /\ UNCHANGED << lane, history, queue, reqs, out, half, board, boot, moving >>
      /\ serving.kind = "move" => a = [kind |-> "moved", id |-> serving.id, card |-> serving.card,
                                       lane |-> lane[serving.card]]
      /\ serving.kind = "cards" => a = [kind |-> "cards", lanes |-> lane]
      /\ serving.kind = "fleet" => a = [kind |-> "fleet", items |-> open]
  BY DEF ReadsFor, daemonVars, deskVars
<1>2. Untold(LaneOf(c)) => Untold(LaneOf(c))'
  BY <1>1 DEF Untold, WillSubscribe, InHistory
<1>3. /\ \A m : MoveOf(m, c)' <=> MoveOf(m, c)
      /\ \A m : News(m, c)' <=> News(m, c)
      /\ \A m : Restores(m, c) => Restores(m, c)'
      /\ \A m : m.kind \in {"cards", "moved", "refused"} /\ RightAnswer(m, c) => RightAnswer(m, c)'
  BY <1>1, <1>2, SameSources
<1>4. \A n : ReqNews(n, c)' <=> ReqNews(n, c)
  BY <1>1, <1>3 DEF ReqNews
<1>5. HandNews(c) => HandNews(c)'
  BY <1>1, <1>3 DEF HandNews, News, MoveOf, IsMove
<1>6. \A n : OutNews(n, c) => OutNews(n, c)'
  BY <1>1, <1>3, <1>4, <1>5 DEF OutNews
<1>7. ReqLane(c)'
  BY <1>1, <1>3, <1>4, LaneParts DEF ReqLane
<1>8. OutLane(c)'
  <2>1. ASSUME NEW n \in 1 .. Len(out), NEW x, x = out[n], News(x, c) PROVE RightAnswer(x, c)' \/ OutNews(n + 1, c)'
    <3>1. RightAnswer(x, c) \/ OutNews(n + 1, c)
      BY <2>1, LaneParts DEF OutLane
    <3>2. x.kind \in {"cards", "moved", "refused"}
      BY <2>1, BoardWires, NewsAnswer
    <3> QED
      BY <1>3, <1>6, <3>1, <3>2
  <2> QED
    BY <1>1, <1>3, <2>1 DEF OutLane
<1>9. HalfLane(c)'
  BY <1>1, <1>2, <1>6, LaneParts DEF HalfLane
<1>10. BoardLane(c)'
  <2>1. (InOut(LaneOf(c))' <=> InOut(LaneOf(c))) /\ (InQueue(LaneOf(c))' <=> InQueue(LaneOf(c)))
    BY <1>1 DEF InOut, IsEventOf, InQueue
  <2> QED
    BY <1>1, <1>2, <1>6, <2>1, LaneParts DEF BoardLane
<1>11. HandLane(c)'
  <2>1. News(a, c)' => RightAnswer(a, c)' \/ ReqNews(1, c)'
    <3>1. CASE serving.kind = "cards"
      <4>1. a.kind = "cards" /\ a.lanes[c] = lane'[c]
        BY <1>1, <3>1
      <4> QED
        BY <4>1 DEF RightAnswer
    <3>2. CASE serving.kind = "fleet"
      BY <1>1, <3>2 DEF News, MoveOf, IsMove
    <3>3. CASE serving.kind = "move"
      <4>1. ASSUME MoveOf(a, c) PROVE serving.card = c /\ MoveOf(serving, c)
        <5>1. OneEach /\ HandEntry
          BY MovesAre
        <5>2. PICK p \in moving : p.id = serving.id /\ p.card = c
          BY <1>1, <3>3, <4>1 DEF MoveOf
        <5>3. PICK q \in moving : q.id = serving.id /\ q.card = serving.card
          BY <3>3, <5>1 DEF HandEntry, Entry
        <5>4. p = q
          BY <5>1, <5>2, <5>3 DEF OneEach
        <5> QED
          BY <3>3, <5>2, <5>3, <5>4 DEF MoveOf, IsMove
      <4>2. MoveOf(a, c) => LoneMove(serving, c) \/ ReqNews(1, c)
        BY <3>3, <4>1, LaneParts DEF HandLane
      <4>3. LoneMove(serving, c) => LoneMove(a, c)'
        BY <1>1, <3>3 DEF LoneMove
      <4>4. News(a, c)' => MoveOf(a, c)
        BY <1>1, <1>3, <3>3 DEF News
      <4>5. a.kind = "moved" /\ a.lane = lane[serving.card]
        BY <1>1, <3>3
      <4>6. MoveOf(a, c) => a.lane = lane'[c]
        BY <1>1, <4>1, <4>5
      <4>7. a.kind = "moved" /\ LoneMove(a, c)' /\ a.lane = lane'[c] => RightAnswer(a, c)'
        BY DEF RightAnswer
      <4> QED
        BY <1>4, <4>2, <4>3, <4>4, <4>5, <4>6, <4>7
    <3> QED
      BY <1>1, <3>1, <3>2, <3>3
  <2> QED
    BY <1>1, <2>1 DEF HandLane
<1> QED
  BY <1>7, <1>8, <1>9, <1>10, <1>11, LanePartsNext

\* With nothing under way, or a snapshot asked for and no move.
LEMMA LaneQuiet ==
    ASSUME NEW c \in BoardCards, moving' = {}, out' = << >>, serving' = Nothing, half' = NoBoard,
           board' = NoBoard \/ reqs' = Snapshot
    PROVE  LaneOK(c)'
<1>1. \A m : ~ MoveOf(m, c)'
  BY DEF MoveOf
<1>2. Len(out') = 0
  OBVIOUS
<1>3. reqs' = Snapshot => ReqNews(1, c)'
  <2>1. reqs' = Snapshot => 1 \in 1 .. Len(reqs') /\ reqs'[1].kind = "cards"
    BY SnapshotAlone
  <2> QED
    BY <2>1 DEF ReqNews, News
<1>4. ReqLane(c)' /\ HandLane(c)' /\ OutLane(c)' /\ HalfLane(c)'
  BY <1>1, <1>2 DEF ReqLane, HandLane, OutLane, HalfLane, Nothing
<1>5. BoardLane(c)'
  BY <1>3 DEF BoardLane, OutNews
<1> QED
  BY <1>4, <1>5, LanePartsNext

\* With news asked for behind whatever moves there are.
LEMMA LaneAsked ==
    ASSUME NEW c \in BoardCards, NEW N \in Nat, \A n \in 1 .. N : ReqNews(n, c)',
           \A n \in 1 .. Len(reqs') : n + 1 \in 1 .. N \/
               \A x : x = reqs'[n] /\ MoveOf(x, c)' => Restores(x, c)',
           1 <= N
    PROVE  LaneOK(c)'
<1>1. ReqNews(1, c)'
  OBVIOUS
<1>2. \A n : OutNews(n, c)'
  BY <1>1 DEF OutNews
<1>3. ReqLane(c)'
  <2>1. ASSUME NEW n \in 1 .. Len(reqs'), n + 1 \in 1 .. N PROVE ReqNews(n + 1, c)'
    <3>1. PICK k : k = n + 1
      OBVIOUS
    <3>2. ReqNews(k, c)'
      BY <2>1, <3>1
    <3> QED
      BY <3>1, <3>2
  <2>2. ASSUME NEW n \in 1 .. Len(reqs'), NEW x, x = reqs'[n], MoveOf(x, c)'
        PROVE  Restores(x, c)' \/ ReqNews(n + 1, c)'
    BY <2>1, <2>2
  <2> QED
    BY <2>2 DEF ReqLane
<1>4. HandLane(c)' /\ OutLane(c)' /\ HalfLane(c)' /\ BoardLane(c)'
  BY <1>1, <1>2 DEF HandLane, OutLane, HalfLane, BoardLane
<1> QED
  BY <1>3, <1>4, LanePartsNext

LEMMA LaneRefreshed ==
    ASSUME BoardTyped, NEW c \in BoardCards, Refresh
    PROVE  LaneOK(c)'
<1>1. reqs' = reqs \o Snapshot
  BY DEF Refresh
<1>2. /\ Len(reqs) \in Nat /\ Len(reqs') = Len(reqs) + 2
      /\ reqs'[Len(reqs) + 1].kind = "cards" /\ reqs'[Len(reqs) + 2].kind = "fleet"
      /\ \A n \in 1 .. Len(reqs') : n \in 1 .. Len(reqs) \/ n = Len(reqs) + 1 \/ n = Len(reqs) + 2
  BY <1>1, ReqsSnapshot
<1>3. ASSUME NEW n \in 1 .. Len(reqs) + 1 PROVE ReqNews(n, c)'
  <2>1. Len(reqs) + 1 \in n .. Len(reqs')
    BY <1>2
  <2> QED
    BY <1>2, <2>1 DEF ReqNews, News
<1>5. PICK N \in Nat : N = Len(reqs) + 1
  BY <1>2
<1>6. \A n \in 1 .. N : ReqNews(n, c)'
  BY <1>3, <1>5
<1>7. ASSUME NEW n \in 1 .. Len(reqs'), n + 1 \notin 1 .. N, NEW x, x = reqs'[n], MoveOf(x, c)' PROVE FALSE
  <2>1. n = Len(reqs) + 1 \/ n = Len(reqs) + 2
    BY <1>2, <1>5, <1>7
  <2>2. ~ IsMove(x)
    BY <1>2, <1>7, <2>1 DEF IsMove
  <2> QED
    BY <1>7, <2>2 DEF MoveOf
<1>8. 1 <= N
  BY <1>2, <1>5
<1> QED
  BY <1>6, <1>7, <1>8, LaneAsked

LEMMA LaneDragged ==
    ASSUME BoardTyped, PhasesOK, MovesOK, NEW c \in BoardCards, LaneOK(c), NEW d \in BoardCards, NEW l \in BoardLanes,
           DragCard(d, l), c \notin missed'
    PROVE  LaneOK(c)'
<1> USE DEF daemonVars, connVars
<1>1. board # NoBoard /\ UNCHANGED << lane, history, queue, serving, out, half, boot >>
  BY DEF DragCard
<1>2. CASE link # "up"
  <2>1. UNCHANGED << board, moving, reqs >>
    BY <1>2 DEF DragCard
  <2>2. (Untold(LaneOf(c)) => Untold(LaneOf(c))') /\ (InQueue(LaneOf(c)) => InQueue(LaneOf(c))')
    BY <1>1, <2>1 DEF Untold, InHistory, InQueue, WillSubscribe
  <2> QED
    BY <1>1, <2>1, <2>2, LaneAwayShown
<1>3. CASE link = "up"
  <2> DEFINE m == [kind |-> "move", id |-> moves + 1, card |-> d, to |-> l]
             p == [id |-> moves + 1, card |-> d, prev |-> board[d]]
  <2>1. /\ reqs' = Append(reqs, m) /\ moving' = moving \cup {p} /\ board' = [board EXCEPT ![d] = l]
        /\ missed' = IF InDoubt(d) THEN missed \cup {d} ELSE missed
    BY <1>3 DEF DragCard
  <2>2. /\ m \in BoardRequests /\ m.kind = "move" /\ m.id = moves + 1 /\ m.card = d
        /\ p.id = moves + 1 /\ p.card = d /\ p.prev = board[d]
    BY BoardAssumption DEF BoardRequests, MoveRequests, BoardTyped
  <2> HIDE DEF m, p
  <2>3. /\ Len(reqs) \in Nat /\ Len(reqs') = Len(reqs) + 1 /\ reqs'[Len(reqs) + 1] = m
        /\ \A n \in 1 .. Len(reqs) : n \in 1 .. Len(reqs') /\ reqs'[n] = reqs[n]
        /\ \A n \in 1 .. Len(reqs') : n \in 1 .. Len(reqs) \/ n = Len(reqs) + 1
    BY <2>1, <2>2, ReqsAdded
  <2>4. \A q \in moving : q.id # moves + 1
    BY UnderWay
  <2>5. CASE c = d
    <3>1. board[c] = lane[c] /\ \A q \in moving : q.card # c
      BY <2>1, <2>5 DEF InDoubt
    <3>2. PICK x : x = m
      OBVIOUS
    <3>3. MoveOf(x, c)' /\ Restores(x, c)'
      <4>1. MoveOf(x, c)'
        BY <2>1, <2>2, <2>5, <3>2 DEF MoveOf, IsMove
      <4>2. \A q \in moving' : q.card = c => q = p
        BY <2>1, <3>1
      <4> QED
        BY <1>1, <2>2, <2>5, <3>1, <3>2, <4>1, <4>2 DEF Restores
    <3>4. PICK N \in Nat : N = Len(reqs) + 1
      BY <2>3
    <3>5. ASSUME NEW n \in 1 .. N PROVE ReqNews(n, c)'
      <4>1. N \in n .. Len(reqs') /\ reqs'[N] = x
        BY <2>3, <3>2, <3>4
      <4> QED
        BY <3>3, <4>1 DEF ReqNews, News
    <3>6. ASSUME NEW n \in 1 .. Len(reqs'), n + 1 \notin 1 .. N, NEW y, y = reqs'[n] PROVE y = x
      <4>1. n = Len(reqs) + 1
        BY <2>3, <3>4, <3>6
      <4> QED
        BY <2>3, <3>2, <3>6, <4>1
    <3>7. 1 <= N
      BY <2>3, <3>4
    <3>8. \A n \in 1 .. Len(reqs') : n + 1 \in 1 .. N \/
               \A y : y = reqs'[n] /\ MoveOf(y, c)' => Restores(y, c)'
      BY <3>3, <3>6
    <3> QED
      BY <3>5, <3>7, <3>8, LaneAsked
  <2>6. CASE c # d
    <3>1. \A q : q.card = c => (q \in moving' <=> q \in moving)
      BY <2>1, <2>2, <2>6
    <3>2. (Untold(LaneOf(c)) => Untold(LaneOf(c))') /\ (InQueue(LaneOf(c)) => InQueue(LaneOf(c))')
      <4>1. DOMAIN reqs = 1 .. Len(reqs) /\ DOMAIN reqs' = 1 .. Len(reqs')
        <5>1. reqs \in Seq(BoardRequests) /\ reqs' \in Seq(BoardRequests)
          BY <2>1, <2>2, OneAdded DEF BoardTyped
        <5> QED
          BY <5>1
      <4> QED
        BY <1>1, <2>3, <4>1 DEF Untold, InHistory, InQueue, WillSubscribe
    <3>3. /\ \A x : MoveOf(x, c)' <=> MoveOf(x, c)
          /\ \A x : News(x, c)' <=> News(x, c)
          /\ \A x : Restores(x, c) => Restores(x, c)'
          /\ \A x : LoneMove(x, c) => LoneMove(x, c)'
          /\ \A x : x.kind \in {"cards", "moved", "refused"} /\ RightAnswer(x, c) => RightAnswer(x, c)'
      BY <1>1, <3>1, <3>2, SameSources
    <3>4. ~ MoveOf(m, c)
      BY <2>2, <2>4 DEF MoveOf
    <3>5. ASSUME NEW n \in Nat \ {0}, ReqNews(n, c) PROVE ReqNews(n, c)'
      <4>1. PICK k \in n .. Len(reqs) : News(reqs[k], c)
        BY <3>5 DEF ReqNews
      <4>2. PICK x : x = reqs[k]
        OBVIOUS
      <4>3. k \in n .. Len(reqs') /\ x = reqs'[k] /\ News(x, c)'
        BY <2>3, <3>3, <4>1, <4>2
      <4> QED
        BY <4>3 DEF ReqNews
    <3>6. HandNews(c)' <=> HandNews(c)
      BY <1>1, <3>3 DEF HandNews
    <3>7. \A n : OutNews(n, c) => OutNews(n, c)'
      BY <1>1, <3>3, <3>5, <3>6 DEF OutNews
    <3>8. ReqLane(c)'
      <4>1. ASSUME NEW n \in 1 .. Len(reqs'), NEW x, x = reqs'[n], MoveOf(x, c)' PROVE Restores(x, c)' \/ ReqNews(n + 1, c)'
        <5>1. MoveOf(x, c) /\ n \in 1 .. Len(reqs) /\ x = reqs[n]
          BY <2>3, <3>3, <3>4, <4>1
        <5>2. Restores(x, c) \/ ReqNews(n + 1, c)
          BY <5>1, LaneParts DEF ReqLane
        <5>3. PICK k \in Nat \ {0} : k = n + 1
          OBVIOUS
        <5>4. Restores(x, c)' \/ ReqNews(k, c)'
          BY <3>3, <3>5, <5>2, <5>3
        <5> QED
          BY <5>3, <5>4
      <4> QED
        BY <4>1 DEF ReqLane
    <3>9. HandLane(c)'
      <4>1. serving.kind = "answer" => serving.answer \in Deliveries
        BY HandFields DEF BoardTyped, Deliveries
      <4> QED
        BY <1>1, <3>3, <3>5, <4>1, NewsAnswer, LaneParts DEF HandLane
    <3>10. OutLane(c)'
      <4>1. ASSUME NEW n \in 1 .. Len(out), NEW x, x = out[n], News(x, c) PROVE RightAnswer(x, c)' \/ OutNews(n + 1, c)'
        <5>1. RightAnswer(x, c) \/ OutNews(n + 1, c)
          BY <4>1, LaneParts DEF OutLane
        <5>2. x.kind \in {"cards", "moved", "refused"}
          BY <4>1, BoardWires, NewsAnswer
        <5> QED
          BY <3>3, <3>7, <5>1, <5>2
      <4> QED
        BY <1>1, <3>3, <4>1 DEF OutLane
    <3>11. HalfLane(c)'
      BY <1>1, <3>2, <3>7, LaneParts DEF HalfLane
    <3>12. BoardLane(c)'
      <4>1. board'[c] = board[c]
        BY <1>1, <2>1, <2>6 DEF BoardTyped, Boards
      <4>2. InOut(LaneOf(c)) => InOut(LaneOf(c))'
        BY <1>1 DEF InOut, IsEventOf
      <4> QED
        BY <1>1, <3>2, <3>7, <4>1, <4>2, LaneParts DEF BoardLane
    <3> QED
      BY <3>8, <3>9, <3>10, <3>11, <3>12, LanePartsNext
  <2> QED
    BY <2>5, <2>6
<1> QED
  BY <1>2, <1>3

\* The desktop takes what comes first, and forgets the move it answers.
LEMMA LaneTaken ==
    ASSUME BoardTyped, MovesOK, NEW c \in BoardCards, LaneOK(c), out # << >>, out' = Tail(out),
           UNCHANGED << lane, serving >>, moving' \subseteq moving,
           \A p \in moving : p \in moving' \/ (IsMove(out[1]) /\ p.id = out[1].id),
           \A n \in 1 .. Len(reqs) : n \in 1 .. Len(reqs') /\ reqs'[n] = reqs[n],
           \A n \in 1 .. Len(reqs') : n \in 1 .. Len(reqs) \/ reqs'[n].kind = "subscribe",
           Untold(LaneOf(c)) => Untold(LaneOf(c))'
    PROVE  /\ ReqLane(c)' /\ HandLane(c)' /\ OutLane(c)'
           /\ OutNews(1, c) => OutNews(1, c)' \/ News(out[1], c)
           /\ News(out[1], c) => RightAnswer(out[1], c) \/ OutNews(1, c)'
<1>m. /\ OneEach /\ OutEntries /\ ReqEntries /\ HandEntry
      /\ Ascends(out) /\ Ascends(reqs) /\ OutHand /\ OutReqs /\ HandReqs
  BY MovesAre
<1>1. /\ Len(out) \in Nat /\ Len(out') = Len(out) - 1 /\ 1 \in 1 .. Len(out)
      /\ \A n \in 1 .. Len(out') : n + 1 \in 1 .. Len(out) /\ out'[n] = out[n + 1]
      /\ \A n \in 1 .. Len(out) : n = 1 \/ (n - 1 \in 1 .. Len(out') /\ out'[n - 1] = out[n])
      /\ \A n \in 1 .. Len(out) : out[n] \in Deliveries
  BY OutTaken, FirstTaken, BoardWires DEF BoardTyped
<1>i. IsMove(out[1]) => out[1].id \in Int
  BY <1>1, UnderWay
<1>2. \A m : MoveOf(m, c)' => MoveOf(m, c)
  BY DEF MoveOf
<1>3. \A m : (IsMove(out[1]) /\ IsMove(m) => m.id # out[1].id) => (MoveOf(m, c) => MoveOf(m, c)')
  BY DEF MoveOf
<1>4. /\ \A m : News(m, c)' => News(m, c)
      /\ \A m : (IsMove(out[1]) /\ IsMove(m) => m.id # out[1].id) => (News(m, c) => News(m, c)')
  BY <1>2, <1>3 DEF News
<1>5. /\ \A m : Restores(m, c) => Restores(m, c)'
      /\ \A m : LoneMove(m, c) => LoneMove(m, c)'
  BY DEF Restores, LoneMove
<1>6. ASSUME NEW m, m.kind \in {"cards", "moved", "refused"}, RightAnswer(m, c) PROVE RightAnswer(m, c)'
  BY <1>5, <1>6 DEF RightAnswer
\* What is behind has other ids.
<1>7. ASSUME NEW n \in 1 .. Len(out), n # 1, IsMove(out[1]), IsMove(out[n]) PROVE out[n].id # out[1].id
  <2>1. n \in 1 + 1 .. Len(out)
    BY <1>1, <1>7
  <2>2. out[1].id < out[n].id /\ out[n].id \in Int
    BY <1>1, <1>m, <1>7, <2>1, UnderWay DEF Ascends
  <2> QED
    BY <1>i, <1>7, <2>2
<1>8. ASSUME NEW n \in 1 .. Len(reqs), IsMove(out[1]), IsMove(reqs[n]) PROVE reqs[n].id # out[1].id
  <2>1. out[1].id < reqs[n].id /\ reqs[n].id \in Int
    BY <1>1, <1>m, <1>8, UnderWay DEF OutReqs
  <2> QED
    BY <1>i, <1>8, <2>1
<1>9. IsMove(out[1]) /\ HandMoves => HandId # out[1].id
  <2>1. IsMove(out[1]) /\ HandMoves => out[1].id < HandId /\ HandId \in Int
    BY <1>1, <1>m, UnderWay DEF OutHand
  <2> QED
    BY <1>i, <2>1
<1>10. /\ ~ IsMove(Nothing) /\ (IsMove(serving) => serving.kind = "move")
  BY HandFields DEF BoardTyped, IsMove, Nothing
<1>11. /\ IsMove(serving) => HandMoves /\ HandId = serving.id
       /\ serving.kind = "answer" /\ IsMove(serving.answer) => HandMoves /\ HandId = serving.answer.id
  BY <1>10 DEF HandMoves, HandId
<1>12. ASSUME NEW n \in 1 .. Len(reqs), NEW x, x = reqs[n] PROVE News(x, c) => News(x, c)'
  BY <1>4, <1>8, <1>12
<1>13. ASSUME NEW n, n \in Nat \ {0}, ReqNews(n, c) PROVE ReqNews(n, c)'
  <2>1. PICK k \in n .. Len(reqs) : News(reqs[k], c)
    BY <1>13 DEF ReqNews
  <2>2. k \in 1 .. Len(reqs)
    BY <1>13, BoardWires
  <2>3. PICK x : x = reqs[k]
    OBVIOUS
  <2>4. k \in 1 .. Len(reqs') /\ x = reqs'[k] /\ News(x, c)'
    BY <1>12, <2>1, <2>2, <2>3
  <2>5. k \in n .. Len(reqs')
    BY <2>1, <2>4
  <2> QED
    BY <2>4, <2>5 DEF ReqNews
<1>14. HandNews(c) => HandNews(c)'
  <2>1. News(serving, c) => News(serving, c)'
    BY <1>4, <1>9, <1>11
  <2>2. ASSUME serving.kind = "answer" PROVE News(serving.answer, c) => News(serving.answer, c)'
    <3>1. IsMove(out[1]) /\ IsMove(serving.answer) => serving.answer.id # out[1].id
      BY <1>9, <1>11, <2>2
    <3> QED
      BY <1>4, <3>1
  <2> QED
    BY <2>1, <2>2 DEF HandNews
<1>15. ASSUME NEW n \in 1 .. Len(out), NEW h, h = n + 1, OutNews(h, c) PROVE OutNews(n, c)'
  <2>1. CASE \E k \in h .. Len(out) : News(out[k], c)
    <3>1. PICK k \in h .. Len(out) : News(out[k], c)
      BY <2>1
    <3>2. PICK x : x = out[k]
      OBVIOUS
    <3>3. k \in 1 .. Len(out) /\ k # 1 /\ k - 1 \in n .. Len(out')
      BY <1>1, <1>15, <3>1
    <3>4. x = out'[k - 1]
      BY <1>1, <3>2, <3>3
    <3>5. IsMove(out[1]) /\ IsMove(x) => x.id # out[1].id
      BY <1>7, <3>2, <3>3
    <3>6. News(x, c)'
      BY <1>4, <3>1, <3>2, <3>5
    <3> QED
      BY <3>3, <3>4, <3>6 DEF OutNews
  <2>2. CASE HandNews(c)
    BY <1>14, <2>2 DEF OutNews
  <2>3. CASE ReqNews(1, c)
    BY <1>13, <2>3 DEF OutNews
  <2> QED
    BY <1>15, <2>1, <2>2, <2>3 DEF OutNews
<1>16. ReqLane(c)'
  <2>1. ASSUME NEW n \in 1 .. Len(reqs'), NEW x, x = reqs'[n], MoveOf(x, c)' PROVE Restores(x, c)' \/ ReqNews(n + 1, c)'
    <3>1. n \in 1 .. Len(reqs) /\ x = reqs[n]
      <4>1. IsMove(x)
        BY <1>2, <2>1 DEF MoveOf
      <4> QED
        BY <2>1, <4>1 DEF IsMove
    <3>2. Restores(x, c) \/ ReqNews(n + 1, c)
      BY <1>2, <2>1, <3>1, LaneParts DEF ReqLane
    <3>3. PICK k \in Nat \ {0} : k = n + 1
      OBVIOUS
    <3>4. Restores(x, c)' \/ ReqNews(k, c)'
      BY <1>5, <1>13, <3>2, <3>3
    <3> QED
      BY <3>3, <3>4
  <2> QED
    BY <2>1 DEF ReqLane
<1>17. HandLane(c)'
  <2>1. serving.kind = "move" /\ MoveOf(serving, c)' => LoneMove(serving, c)' \/ ReqNews(1, c)'
    BY <1>2, <1>5, <1>13, LaneParts DEF HandLane
  <2>2. ASSUME serving.kind = "answer", News(serving.answer, c)' PROVE RightAnswer(serving.answer, c)' \/ ReqNews(1, c)'
    <3>1. News(serving.answer, c) /\ serving.answer \in Deliveries
      BY <1>4, <2>2, HandFields DEF BoardTyped, Deliveries
    <3>2. RightAnswer(serving.answer, c) \/ ReqNews(1, c)
      BY <2>2, <3>1, LaneParts DEF HandLane
    <3>3. RightAnswer(serving.answer, c) => RightAnswer(serving.answer, c)'
      BY <1>6, <3>1, NewsAnswer
    <3> QED
      BY <1>13, <3>2, <3>3
  <2> QED
    BY <2>1, <2>2 DEF HandLane
<1>18. OutLane(c)'
  <2>1. ASSUME NEW n \in 1 .. Len(out'), NEW x, x = out'[n], News(x, c)' PROVE RightAnswer(x, c)' \/ OutNews(n + 1, c)'
    <3>1. PICK k : k = n + 1
      OBVIOUS
    <3>2. k \in 1 .. Len(out) /\ x = out[k] /\ News(x, c)
      BY <1>1, <1>4, <2>1, <3>1
    <3>3. RightAnswer(x, c) \/ OutNews(k + 1, c)
      BY <3>2, LaneParts DEF OutLane
    <3>4. x.kind \in {"cards", "moved", "refused"}
      BY <1>1, <3>2, NewsAnswer
    <3>5. OutNews(k + 1, c) => OutNews(k, c)'
      BY <1>15, <3>2
    <3>6. RightAnswer(x, c)' \/ OutNews(k, c)'
      BY <1>6, <3>3, <3>4, <3>5
    <3> QED
      BY <3>1, <3>6
  <2> QED
    BY <2>1 DEF OutLane
<1>19. OutNews(1 + 1, c) => OutNews(1, c)'
  BY <1>1, <1>15
<1>20. OutNews(1, c) => OutNews(1 + 1, c) \/ News(out[1], c)
  <2>1. \A k \in 1 .. Len(out) : k = 1 \/ k \in 1 + 1 .. Len(out)
    BY <1>1
  <2> QED
    BY <2>1 DEF OutNews
<1>21. News(out[1], c) => RightAnswer(out[1], c) \/ OutNews(1 + 1, c)
  BY <1>1, LaneParts DEF OutLane
<1> QED
  BY <1>16, <1>17, <1>18, <1>19, <1>20, <1>21

LEMMA LaneTakes ==
    ASSUME BoardTyped, EventsTell, PhasesOK, MovesOK, SnapshotsWhole, NEW c \in BoardCards, LaneOK(c), TakeIn
    PROVE  LaneOK(c)'
<1> USE DEF daemonVars, connVars
<1>1. /\ out # << >> /\ Head(out) = out[1] /\ out[1] \in Deliveries /\ out' = Tail(out)
      /\ UNCHANGED << daemonVars, connVars, link, upsets, source, moves, missed >>
  BY TakeInDoes
<1>2. /\ moving' \subseteq moving
      /\ \A p \in moving : p \in moving' \/ (IsMove(out[1]) /\ p.id = out[1].id)
  <2>1. moving' = moving \/ (IsMove(out[1]) /\ moving' = moving \ ItsMove)
    BY <1>1 DEF TakeIn, TakeCards, TakeFleet, TakeSubscribed, TakeEvent, TakeMoved, TakeRefused, Arrives, IsMove, deskVars
  <2> QED
    BY <1>1, <2>1 DEF ItsMove
<1>3. /\ \A n \in 1 .. Len(reqs) : n \in 1 .. Len(reqs') /\ reqs'[n] = reqs[n]
      /\ \A n \in 1 .. Len(reqs') : n \in 1 .. Len(reqs) \/ reqs'[n].kind = "subscribe"
      /\ WillSubscribe => WillSubscribe'
  <2>1. boot # "connect"
    BY <1>1 DEF PhasesOK
  <2>2. CASE TakeFleet /\ boot = "load"
    <3>1. reqs' = Append(reqs, [kind |-> "subscribe"])
      BY <2>2 DEF TakeFleet
    <3>2. [kind |-> "subscribe"] \in BoardRequests
      BY DEF BoardRequests
    <3>3. /\ Len(reqs) \in Nat /\ Len(reqs') = Len(reqs) + 1 /\ reqs'[Len(reqs) + 1] = [kind |-> "subscribe"]
          /\ \A n \in 1 .. Len(reqs) : n \in 1 .. Len(reqs') /\ reqs'[n] = reqs[n]
          /\ \A n \in 1 .. Len(reqs') : n \in 1 .. Len(reqs) \/ n = Len(reqs) + 1
      BY <3>1, <3>2, ReqsAdded
    <3>4. Len(reqs) + 1 \in DOMAIN reqs'
      <4>1. reqs' \in Seq(BoardRequests)
        BY <3>1, <3>2, OneAdded DEF BoardTyped
      <4> QED
        BY <3>3, <4>1
    <3> QED
      BY <3>3, <3>4 DEF WillSubscribe
  <2>3. CASE ~ (TakeFleet /\ boot = "load")
    <3>1. reqs' = reqs
      BY <2>3 DEF TakeIn, TakeCards, TakeFleet, TakeSubscribed, TakeEvent, TakeMoved, TakeRefused
    <3>2. boot = "load" => boot' = boot
      BY <2>3 DEF TakeIn, TakeCards, TakeSubscribed, TakeEvent, TakeMoved, TakeRefused, deskVars
    <3> QED
      BY <2>1, <3>1, <3>2 DEF WillSubscribe
  <2> QED
    BY <2>2, <2>3
<1>4. Untold(LaneOf(c)) => Untold(LaneOf(c))'
  BY <1>1, <1>3 DEF Untold, InHistory
<1>5. /\ ReqLane(c)' /\ HandLane(c)' /\ OutLane(c)'
      /\ OutNews(1, c) => OutNews(1, c)' \/ News(out[1], c)
      /\ News(out[1], c) => RightAnswer(out[1], c) \/ OutNews(1, c)'
  BY <1>1, <1>2, <1>3, <1>4, LaneTaken
<1>6. /\ InQueue(LaneOf(c)) => InQueue(LaneOf(c))'
      /\ InOut(LaneOf(c)) => InOut(LaneOf(c))' \/ IsEventOf(out[1], LaneOf(c))
  <2>1. \A n \in 1 .. Len(out) : n = 1 \/ (n - 1 \in 1 .. Len(out') /\ out'[n - 1] = out[n])
    BY <1>1, OutTaken
  <2> QED
    BY <1>1, <2>1 DEF InQueue, InOut, IsEventOf
<1>7. (HalfLane(c) /\ BoardLane(c)) /\ 1 \in 1 .. Len(out)
  BY <1>1, LaneParts, FirstTaken DEF BoardTyped
\* Only an answer to what changed the lanes comes between cards and fleet.
<1>8. out[1].kind \in {"moved", "refused", "subscribed"} => half = NoBoard
  <2>1. \A n \in 1 .. Len(out) : n = 1 \/ 1 \in 1 .. n - 1
    OBVIOUS
  <2>2. FleetFrom(1) => out[1].kind \in {"fleet", "event"}
    BY <1>7, <2>1 DEF FleetFrom
  <2> QED
    BY <2>2 DEF SnapshotsWhole
<1>9. ASSUME HalfLane(c)', BoardLane(c)' PROVE LaneOK(c)'
  BY <1>5, <1>9, LanePartsNext
<1>10. CASE TakeCards
  <2>1. out[1].kind = "cards" /\ half' = out[1].lanes
    BY <1>1, <1>10 DEF TakeCards, Arrives
  <2>2. half' # NoBoard
    BY <1>1, <2>1, DeliveryFields, NoBoardIsNone
  <2>3. lane' = lane
    BY <1>1
  <2>4. HalfLane(c)'
    <3>1. News(out[1], c)
      BY <2>1 DEF News
    <3>2. RightAnswer(out[1], c) => out[1].lanes[c] = lane[c] \/ Untold(LaneOf(c))
      BY <2>1 DEF RightAnswer
    <3> QED
      BY <1>4, <1>5, <2>1, <2>3, <3>1, <3>2 DEF HalfLane
  <2>5. BoardLane(c)'
    BY <2>2 DEF BoardLane
  <2> QED
    BY <1>9, <2>4, <2>5
<1>11. CASE TakeFleet
  <2>1. out[1].kind = "fleet" /\ half' = NoBoard /\ board' = half /\ lane' = lane
    BY <1>1, <1>11 DEF TakeFleet, Arrives
  <2>2. ~ News(out[1], c)
    BY <2>1 DEF News, MoveOf, IsMove
  <2>3. HalfLane(c)'
    BY <2>1 DEF HalfLane
  <2>4. BoardLane(c)'
    BY <1>4, <1>5, <1>7, <2>1, <2>2 DEF HalfLane, BoardLane
  <2> QED
    BY <1>9, <2>3, <2>4
<1>12. CASE TakeSubscribed
  <2>1. out[1].kind = "subscribed" /\ UNCHANGED << half, board, lane >>
    BY <1>1, <1>12 DEF TakeSubscribed, Arrives, deskVars
  <2>2. ~ News(out[1], c) /\ ~ IsEventOf(out[1], LaneOf(c))
    BY <2>1 DEF News, MoveOf, IsMove, IsEventOf
  <2>3. HalfLane(c)'
    BY <1>4, <1>5, <1>7, <2>1, <2>2 DEF HalfLane
  <2>4. BoardLane(c)'
    BY <1>4, <1>5, <1>6, <1>7, <2>1, <2>2 DEF BoardLane
  <2> QED
    BY <1>9, <2>3, <2>4
<1>13. CASE TakeEvent
  <2> DEFINE e == out[1].event
  <2>1. /\ out[1].kind = "event" /\ UNCHANGED << half, lane >> /\ e \in BoardEvents
        /\ board' = IF board = NoBoard THEN board ELSE BoardAfter(board, e)
    BY <1>1, <1>13, DeliveryFields DEF TakeEvent, Arrives
  <2>2. ~ News(out[1], c)
    BY <2>1 DEF News, MoveOf, IsMove
  <2>3. HalfLane(c)'
    BY <1>4, <1>5, <1>7, <2>1, <2>2 DEF HalfLane
  <2>4. IsEventOf(out[1], LaneOf(c)) <=> e.type = "moved" /\ e.card = c
    BY <2>1 DEF IsEventOf, LaneOf, About
  <2>5. BoardLane(c)'
    <3>1. CASE board = NoBoard
      BY <2>1, <3>1 DEF BoardLane
    <3>2. CASE board # NoBoard /\ e.type = "moved" /\ e.card = c
      <4>1. board \in Boards /\ e.to \in BoardLanes
        BY <2>1, <3>2, EventFields DEF BoardTyped
      <4>2. board'[c] = e.to
        BY <2>1, <3>2, <4>1 DEF BoardAfter, Boards
      <4>3. About(e) = LaneOf(c)
        BY <3>2 DEF About, LaneOf
      <4>4. \/ Tells(e)
            \/ \E k \in 1 + 1 .. Len(out) : IsEventOf(out[k], About(e))
            \/ InQueue(About(e))
        BY <1>7, <2>1 DEF EventsTell
      <4>5. Tells(e) => lane[c] = e.to
        BY <3>2 DEF Tells
      <4>6. (\E k \in 1 + 1 .. Len(out) : IsEventOf(out[k], About(e))) => InOut(LaneOf(c))'
        <5>1. ASSUME NEW k \in 1 + 1 .. Len(out), IsEventOf(out[k], LaneOf(c)) PROVE InOut(LaneOf(c))'
          <6>1. k \in 1 .. Len(out) /\ k # 1
            OBVIOUS
          <6>2. k - 1 \in 1 .. Len(out') /\ out'[k - 1] = out[k]
            BY <1>1, <6>1, OutTaken
          <6> QED
            BY <5>1, <6>2 DEF InOut, IsEventOf
        <5> QED
          BY <4>3, <5>1
      <4>7. InQueue(About(e)) => InQueue(LaneOf(c))'
        BY <1>6, <4>3
      <4> QED
        BY <2>1, <4>2, <4>4, <4>5, <4>6, <4>7 DEF BoardLane
    <3>3. CASE board # NoBoard /\ ~ (e.type = "moved" /\ e.card = c)
      <4>1. board'[c] = board[c]
        BY <2>1, <3>3 DEF BoardAfter, BoardTyped, Boards
      <4> QED
        BY <1>4, <1>5, <1>6, <1>7, <2>1, <2>2, <2>4, <3>3, <4>1 DEF BoardLane
    <3> QED
      BY <3>1, <3>2, <3>3
  <2> QED
    BY <1>9, <2>3, <2>5
\* An answer to a move, right or overtaken, and about this card or another.
<1>14. ASSUME half = NoBoard, UNCHANGED << half, lane >>, out[1].kind # "event", board # NoBoard,
              ~ News(out[1], c) => board'[c] = board[c],
              News(out[1], c) /\ RightAnswer(out[1], c) => board'[c] = lane[c]
       PROVE  LaneOK(c)'
  <2>1. HalfLane(c)'
    BY <1>14 DEF HalfLane
  <2>2. ~ IsEventOf(out[1], LaneOf(c))
    BY <1>14 DEF IsEventOf
  <2>3. CASE News(out[1], c)
    <3>1. BoardLane(c)'
      BY <1>5, <1>14, <2>3 DEF BoardLane
    <3> QED
      BY <1>9, <2>1, <3>1
  <2>4. CASE ~ News(out[1], c)
    <3>1. BoardLane(c)'
      BY <1>4, <1>5, <1>6, <1>7, <1>14, <2>2, <2>4 DEF BoardLane
    <3> QED
      BY <1>9, <2>1, <3>1
  <2> QED
    BY <2>3, <2>4
<1>m. OneEach /\ OutEntries
  BY MovesAre
<1>15. CASE TakeMoved
  <2>1. /\ out[1].kind = "moved" /\ UNCHANGED << half, lane >> /\ half = NoBoard
        /\ board' = [board EXCEPT ![out[1].card] = out[1].lane]
    BY <1>1, <1>8, <1>15 DEF TakeMoved, Arrives
  <2>2. PICK p \in moving : p.id = out[1].id /\ p.card = out[1].card
    BY <1>7, <1>m, <2>1 DEF OutEntries, Entry, IsMove
  <2>3. board # NoBoard /\ board \in Boards
    BY <2>2 DEF PhasesOK, BoardTyped
  <2>4. News(out[1], c) <=> c = out[1].card
    <3>1. ASSUME News(out[1], c) PROVE c = out[1].card
      <4>1. PICK q \in moving : q.id = out[1].id /\ q.card = c
        BY <2>1, <3>1 DEF News, MoveOf
      <4> QED
        BY <1>m, <2>2, <4>1 DEF OneEach
    <3>2. ASSUME c = out[1].card PROVE News(out[1], c)
      BY <2>1, <2>2, <3>2 DEF News, MoveOf, IsMove
    <3> QED
      BY <3>1, <3>2
  <2>5. RightAnswer(out[1], c) => out[1].lane = lane[c]
    BY <2>1 DEF RightAnswer
  <2>6. /\ c # out[1].card => board'[c] = board[c]
        /\ c = out[1].card => board'[c] = out[1].lane
    BY <2>1, <2>3 DEF Boards
  <2> QED
    BY <1>14, <2>1, <2>3, <2>4, <2>5, <2>6
<1>16. CASE TakeRefused
  <2>1. /\ out[1].kind = "refused" /\ UNCHANGED << half, lane >> /\ half = NoBoard
    BY <1>1, <1>8, <1>16 DEF TakeRefused, Arrives
  <2>2. PICK p \in moving : p.id = out[1].id /\ board' = [board EXCEPT ![p.card] = p.prev]
    BY <1>1, <1>16 DEF TakeRefused, ItsMove
  <2>3. board # NoBoard /\ board \in Boards
    BY <2>2 DEF PhasesOK, BoardTyped
  <2>4. News(out[1], c) <=> c = p.card
    <3>1. ASSUME News(out[1], c) PROVE c = p.card
      <4>1. PICK q \in moving : q.id = out[1].id /\ q.card = c
        BY <2>1, <3>1 DEF News, MoveOf
      <4> QED
        BY <1>m, <2>2, <4>1 DEF OneEach
    <3>2. ASSUME c = p.card PROVE News(out[1], c)
      BY <2>1, <2>2, <3>2 DEF News, MoveOf, IsMove
    <3> QED
      BY <3>1, <3>2
  <2>5. RightAnswer(out[1], c) /\ c = p.card => p.prev = lane[c]
    BY <2>1, <2>2 DEF RightAnswer, Restores
  <2>6. /\ c # p.card => board'[c] = board[c]
        /\ c = p.card => board'[c] = p.prev
    BY <2>2, <2>3 DEF Boards
  <2> QED
    BY <1>14, <2>1, <2>3, <2>4, <2>5, <2>6
<1> QED
  BY <1>10, <1>11, <1>12, <1>13, <1>15, <1>16 DEF TakeIn

LEMMA LanesStep ==
    ASSUME BoardTyped, EventsTell, PhasesOK, MovesOK, SnapshotsWhole, LanesOK, BoardNext
    PROVE  LanesOK'
<1>1. SUFFICES ASSUME NEW c \in BoardCards, c \notin missed' PROVE LaneOK(c)'
  BY DEF LanesOK
<1>2. CASE Refresh
  BY <1>2, LaneRefreshed
<1>3. CASE Drop
  BY <1>1, <1>3 DEF Drop
<1>4. CASE Connect \/ Reconnect
  <2>1. moving' = {} /\ out' = << >> /\ serving' = Nothing /\ half' = NoBoard
    BY <1>4 DEF Connect, Reconnect, PhasesOK, connVars, deskVars
  <2>2. board' = NoBoard \/ reqs' = Snapshot
    BY <1>4 DEF Connect, Reconnect, PhasesOK, deskVars
  <2> QED
    BY <2>1, <2>2, LaneQuiet
<1>5. ASSUME ~ Refresh, ~ Drop, ~ Connect, ~ Reconnect PROVE missed \subseteq missed'
  BY <1>5 DEF BoardNext, OthersMove, OthersRaise, OthersResolve, Overheard, Daemon, ForwardEvent, Serve, ReadAnswer,
              SendAnswer, TakeIn, TakeCards, TakeFleet, TakeSubscribed, TakeEvent, TakeMoved, TakeRefused, DragCard
<1>6. CASE ~ Refresh /\ ~ Drop /\ ~ Connect /\ ~ Reconnect
  <2>0. LaneOK(c)
    BY <1>1, <1>5, <1>6 DEF LanesOK
  <2>1. ASSUME NEW d \in BoardCards, NEW l \in BoardLanes, OthersMove(d, l) PROVE LaneOK(c)'
    BY <1>1, <2>0, <2>1, LaneOthersMove
  <2>2. ASSUME NEW d \in BoardCards, NEW k \in Keys, OthersRaise(d, k) \/ OthersResolve(d, k) PROVE LaneOK(c)'
    BY <2>0, <2>2, LaneOthersItem
  <2>3. ASSUME NEW d \in BoardCards, NEW l \in BoardLanes, DragCard(d, l) PROVE LaneOK(c)'
    BY <1>1, <2>0, <2>3, LaneDragged
  <2>4. CASE ForwardEvent
    BY <2>0, <2>4, LaneForwarded
  <2>5. CASE Serve
    <3>1. PICK r \in BoardRequests : MakesMove(r) \/ RefusesMove(r) \/ HearsLog(r) \/ Reads(r)
      BY <2>5, ServeDoes
    <3> QED
      BY <2>0, <3>1, LaneMade, LaneRefusing, LaneHearing, LaneReading
  <2>6. CASE ReadAnswer
    BY <2>0, <2>6, ReadDoes, LaneRead
  <2>7. CASE SendAnswer
    BY <2>0, <2>7, LaneSent
  <2>8. CASE TakeIn
    BY <2>0, <2>8, LaneTakes
  <2> QED
    BY <1>6, <2>1, <2>2, <2>3, <2>4, <2>5, <2>6, <2>7, <2>8 DEF BoardNext, Daemon
<1> QED
  BY <1>2, <1>3, <1>4, <1>6

\* The parts of ItemOK, along the way of a fleet's items.
ItemHand(i)  == serving.kind = "answer" /\ serving.answer.kind = "fleet" => RightItems(serving.answer.items, i) \/ ReqFleet
ItemOut(i)   == \A n \in 1 .. Len(out) : out[n].kind = "fleet" => RightItems(out[n].items, i) \/ OutFleet(n + 1)
ItemShown(i) == board # NoBoard => \/ RightItems(needs, i) \/ OutFleet(1)
                                   \/ InOut(ItemOf(i)) \/ InQueue(ItemOf(i))

LEMMA ItemParts ==
    ASSUME NEW i, ItemOK(i)
    PROVE  ItemHand(i) /\ ItemOut(i) /\ ItemShown(i)
BY DEF ItemOK, ItemHand, ItemOut, ItemShown

LEMMA ItemPartsNext ==
    ASSUME NEW i, ItemHand(i)', ItemOut(i)', ItemShown(i)'
    PROVE  ItemOK(i)'
BY DEF ItemOK, ItemHand, ItemOut, ItemShown

\* A fleet is still to come behind a place of the socket.
FleetBehind == HandHas("fleet") \/ ReqFleet

LEMMA FleetsBehind ==
    ASSUME BoardTyped, Len(out') \in Nat, \A n \in 1 .. Len(out) : n \in 1 .. Len(out') /\ out'[n] = out[n],
           FleetBehind => FleetBehind' \/ (Len(out) + 1 \in 1 .. Len(out') /\ out'[Len(out) + 1].kind = "fleet")
    PROVE  \A n \in 1 .. Len(out) + 1 : OutFleet(n) => OutFleet(n)'
<1>1. Len(out) \in Nat
  BY BoardWires
<1>2. ASSUME NEW n \in 1 .. Len(out) + 1, OutFleet(n) PROVE OutFleet(n)'
  <2>1. CASE \E k \in n .. Len(out) : out[k].kind = "fleet"
    <3>1. PICK k \in n .. Len(out) : out[k].kind = "fleet"
      BY <2>1
    <3>2. k \in n .. Len(out') /\ out'[k].kind = "fleet"
      BY <1>1, <3>1
    <3> QED
      BY <3>2 DEF OutFleet
  <2>2. CASE FleetBehind
    <3>1. Len(out) + 1 \in 1 .. Len(out') => Len(out) + 1 \in n .. Len(out')
      BY <1>1
    <3> QED
      BY <2>2, <3>1 DEF OutFleet, FleetBehind
  <2> QED
    BY <1>2, <2>1, <2>2 DEF OutFleet, FleetBehind
<1> QED
  BY <1>2

\* What is on the way goes on, and what was right is right.
LEMMA ItemGoes ==
    ASSUME BoardTyped, NEW i \in Items, ItemOK(i), \A s : RightItems(s, i) => RightItems(s, i)', needs' = needs,
           board = NoBoard => board' = NoBoard,
           Len(out') \in Nat, \A n \in 1 .. Len(out) : n \in 1 .. Len(out') /\ out'[n] = out[n],
           \A n \in 1 .. Len(out') : n \in 1 .. Len(out) \/ out'[n].kind # "fleet"
               \/ \A s : s = out'[n].items => RightItems(s, i)' \/ ReqFleet',
           FleetBehind => FleetBehind' \/ (Len(out) + 1 \in 1 .. Len(out') /\ out'[Len(out) + 1].kind = "fleet"),
           ItemHand(i)',
           InQueue(ItemOf(i)) => InQueue(ItemOf(i))' \/ InOut(ItemOf(i))'
    PROVE  ItemOK(i)'
<1>1. Len(out) \in Nat
  BY BoardWires
<1>2. \A n \in 1 .. Len(out) + 1 : OutFleet(n) => OutFleet(n)'
  BY FleetsBehind
<1>3. ItemOut(i)'
  <2>1. ASSUME NEW n \in 1 .. Len(out'), out'[n].kind = "fleet", NEW s, s = out'[n].items
        PROVE  RightItems(s, i)' \/ OutFleet(n + 1)'
    <3>1. CASE n \in 1 .. Len(out)
      <4>1. RightItems(s, i) \/ OutFleet(n + 1)
        BY <2>1, <3>1, ItemParts DEF ItemOut
      <4>2. PICK k : k = n + 1
        OBVIOUS
      <4>3. k \in 1 .. Len(out) + 1
        BY <1>1, <3>1, <4>2
      <4>4. RightItems(s, i)' \/ OutFleet(k)'
        BY <1>2, <4>1, <4>2, <4>3
      <4> QED
        BY <4>2, <4>4
    <3>2. CASE n \notin 1 .. Len(out)
      BY <2>1, <3>2 DEF OutFleet
    <3> QED
      BY <3>1, <3>2
  <2> QED
    BY <2>1 DEF ItemOut
<1>4. OutFleet(1) => OutFleet(1)'
  BY <1>1, <1>2
<1>5. InOut(ItemOf(i)) => InOut(ItemOf(i))'
  BY DEF InOut, IsEventOf
<1>6. ItemShown(i)'
  BY <1>4, <1>5, ItemParts DEF ItemShown
<1> QED
  BY <1>3, <1>6, ItemPartsNext

\* What was right is right while the item is as it was.
LEMMA RightStays ==
    ASSUME NEW i, i \in open' <=> i \in open, Untold(ItemOf(i)) => Untold(ItemOf(i))'
    PROVE  \A s : RightItems(s, i) => RightItems(s, i)'
BY DEF RightItems

\* The socket and the view stay.
LEMMA ItemAway ==
    ASSUME BoardTyped, NEW i \in Items, ItemOK(i), \A s : RightItems(s, i) => RightItems(s, i)',
           UNCHANGED << reqs, serving, out, needs >>, board = NoBoard => board' = NoBoard,
           InQueue(ItemOf(i)) => InQueue(ItemOf(i))'
    PROVE  ItemOK(i)'
<1>1. (ReqFleet' <=> ReqFleet) /\ (HandHas("fleet")' <=> HandHas("fleet")) /\ Len(out) \in Nat
  BY BoardWires DEF ReqFleet, HandHas
<1>2. ItemHand(i)'
  BY <1>1, ItemParts DEF ItemHand
<1>3. FleetBehind => FleetBehind'
  BY <1>1 DEF FleetBehind
<1> QED
  BY <1>1, <1>2, <1>3, ItemGoes

\* A fleet is asked for.
LEMMA ItemAsked ==
    ASSUME NEW i \in Items, ReqFleet'
    PROVE  ItemOK(i)'
BY DEF ItemOK, OutFleet

LEMMA ItemOthersMove ==
    ASSUME BoardTyped, NEW i \in Items, ItemOK(i), NEW d \in BoardCards, NEW l \in BoardLanes, OthersMove(d, l)
    PROVE  ItemOK(i)'
<1>1. PICK e \in BoardEvents : Announce(e)
  BY OthersAnnounce DEF OthersMove
<1>2. UNCHANGED << open, subscribed, serving, reqs, out, link, upsets, deskVars >>
  BY DEF OthersMove
<1>3. \A x : InQueue(x) => InQueue(x)'
  BY <1>1, Announced
<1>4. \A x : InHistory(x) => InHistory(x)'
  <2>1. BoardNext
    BY DEF BoardNext
  <2> QED
    BY <2>1, LogGrows
<1>5. Untold(ItemOf(i)) => Untold(ItemOf(i))'
  BY <1>2, <1>4 DEF Untold, WillSubscribe, deskVars
<1>6. \A s : RightItems(s, i) => RightItems(s, i)'
  BY <1>2, <1>5, RightStays
<1>7. InQueue(ItemOf(i)) => InQueue(ItemOf(i))'
  BY <1>3
<1> QED
  BY <1>2, <1>6, <1>7, ItemAway DEF deskVars

LEMMA ItemOthersItem ==
    ASSUME BoardTyped, NEW i \in Items, ItemOK(i), NEW d \in BoardCards, NEW k \in Keys,
           OthersRaise(d, k) \/ OthersResolve(d, k), i[1] \notin missed'
    PROVE  ItemOK(i)'
<1>1. PICK e \in BoardEvents : Announce(e) /\ e.type # "moved" /\ e.card = d /\ e.key = k
  <2>1. \/ Announce([type |-> "raised", card |-> d, key |-> k])
        \/ Announce([type |-> "resolved", card |-> d, key |-> k])
    BY DEF OthersRaise, OthersResolve
  <2> QED
    BY <2>1, OthersAnnounce
<1>2. UNCHANGED << lane, subscribed, serving, reqs, out, link, upsets, deskVars >> /\ Overheard(d)
  BY DEF OthersRaise, OthersResolve
<1>3. /\ InHistory(About(e))'
      /\ subscribed => InQueue(About(e))'
      /\ \A x : InQueue(x) => InQueue(x)'
  BY <1>1, Announced
<1>4. \A x : InHistory(x) => InHistory(x)'
  <2>1. BoardNext
    BY DEF BoardNext
  <2> QED
    BY <2>1, LogGrows
<1>5. WillSubscribe' <=> WillSubscribe
  BY <1>2 DEF WillSubscribe, deskVars
<1>6. CASE i # << d, k >>
  <2>1. i \in open' <=> i \in open
    BY <1>6 DEF OthersRaise, OthersResolve
  <2>2. Untold(ItemOf(i)) => Untold(ItemOf(i))'
    BY <1>4, <1>5 DEF Untold
  <2>3. \A s : RightItems(s, i) => RightItems(s, i)'
    BY <2>1, <2>2, RightStays
  <2>4. InQueue(ItemOf(i)) => InQueue(ItemOf(i))'
    BY <1>3
  <2> QED
    BY <1>2, <2>3, <2>4, ItemAway DEF deskVars
<1>7. CASE i = << d, k >>
  <2>1. About(e) = ItemOf(i)
    BY <1>1, <1>7 DEF About, ItemOf
  <2>2. i[1] = d
    BY <1>7
  <2>3. WillSubscribe \/ (subscribed /\ ~Waiting)
    BY <1>2, <2>2 DEF Overheard
  <2>4. CASE WillSubscribe
    <3>1. Untold(ItemOf(i))'
      <4>1. InHistory(ItemOf(i))'
        BY <1>3, <2>1
      <4> QED
        BY <1>5, <2>4, <4>1 DEF Untold
    <3>2. \A s : RightItems(s, i)'
      BY <3>1 DEF RightItems
    <3>3. ItemHand(i)'
      BY <3>1 DEF ItemHand, RightItems
    <3>4. ItemOut(i)'
      BY <3>1 DEF ItemOut, RightItems
    <3>5. ItemShown(i)'
      BY <3>1 DEF ItemShown, RightItems
    <3> QED
      BY <3>3, <3>4, <3>5, ItemPartsNext
  <2>5. CASE subscribed /\ ~Waiting
    <3>1. /\ serving' = Nothing /\ \A n \in 1 .. Len(out') : out'[n].kind = "event"
      <4>1. DOMAIN out = 1 .. Len(out)
        BY DEF BoardTyped
      <4> QED
        BY <1>2, <2>5, <4>1 DEF Waiting, deskVars
    <3>2. InQueue(ItemOf(i))'
      BY <1>3, <2>1, <2>5
    <3>3. ItemHand(i)' /\ ItemShown(i)'
      BY <3>1, <3>2 DEF ItemHand, ItemShown, Nothing
    <3>4. ItemOut(i)'
      BY <3>1 DEF ItemOut
    <3> QED
      BY <3>3, <3>4, ItemPartsNext
  <2> QED
    BY <2>3, <2>4, <2>5
<1> QED
  BY <1>6, <1>7

\* A delivery more.
LEMMA ItemDelivered ==
    ASSUME BoardTyped, NEW i \in Items, ItemOK(i), NEW m \in Deliveries, out' = Append(out, m),
           UNCHANGED << open, history, boot, reqs, needs, board >>,
           \/ m.kind = "event" /\ serving' = serving
           \/ serving.kind = "answer" /\ serving.answer = m /\ serving' = Nothing,
           InQueue(ItemOf(i)) => InQueue(ItemOf(i))' \/ IsEventOf(m, ItemOf(i))
    PROVE  ItemOK(i)'
<1>1. /\ Len(out) \in Nat /\ Len(out') = Len(out) + 1 /\ out'[Len(out) + 1] = m
      /\ \A n \in 1 .. Len(out) : n \in 1 .. Len(out') /\ out'[n] = out[n]
      /\ \A n \in 1 .. Len(out') : n \in 1 .. Len(out) \/ n = Len(out) + 1
  BY OutAdded
<1>2. Untold(ItemOf(i)) => Untold(ItemOf(i))'
  BY DEF Untold, WillSubscribe, InHistory
<1>3. \A s : RightItems(s, i) => RightItems(s, i)'
  BY <1>2, RightStays
<1>4. ReqFleet' <=> ReqFleet
  BY DEF ReqFleet
<1>5. ItemHand(i) /\ Len(out) + 1 \in 1 .. Len(out') /\ Len(out') \in Nat
  BY <1>1, ItemParts
<1>6. IsEventOf(m, ItemOf(i)) => InOut(ItemOf(i))'
  BY <1>1, <1>5 DEF InOut, IsEventOf
<1>7. CASE m.kind = "event" /\ serving' = serving
  <2>1. ItemHand(i)'
    BY <1>3, <1>4, <1>5, <1>7 DEF ItemHand
  <2>2. FleetBehind => FleetBehind'
    BY <1>4, <1>7 DEF FleetBehind, HandHas
  <2>3. \A n \in 1 .. Len(out') : n \in 1 .. Len(out) \/ out'[n].kind # "fleet"
    BY <1>1, <1>7
  <2> QED
    BY <1>1, <1>3, <1>5, <1>6, <2>1, <2>2, <2>3, ItemGoes
<1>8. CASE serving.kind = "answer" /\ serving.answer = m /\ serving' = Nothing
  <2>1. ItemHand(i)'
    BY <1>8 DEF ItemHand, Nothing
  <2>2. FleetBehind => FleetBehind' \/ (Len(out) + 1 \in 1 .. Len(out') /\ out'[Len(out) + 1].kind = "fleet")
    BY <1>1, <1>4, <1>5, <1>8 DEF FleetBehind, HandHas
  <2>3. \A n \in 1 .. Len(out') : n \in 1 .. Len(out) \/ out'[n].kind # "fleet"
               \/ \A s : s = out'[n].items => RightItems(s, i)' \/ ReqFleet'
    <3>1. m.kind = "fleet" => RightItems(m.items, i) \/ ReqFleet
      BY <1>5, <1>8 DEF ItemHand
    <3> QED
      BY <1>1, <1>3, <1>4, <3>1
  <2> QED
    BY <1>1, <1>3, <1>5, <1>6, <2>1, <2>2, <2>3, ItemGoes
<1> QED
  BY <1>7, <1>8

\* The connection and its task go on.
LEMMA ItemForwarded ==
    ASSUME BoardTyped, NEW i \in Items, ItemOK(i), ForwardEvent
    PROVE  ItemOK(i)'
<1> DEFINE m == [kind |-> "event", event |-> queue[1]]
<1>1. /\ queue # << >> /\ queue' = Tail(queue) /\ out' = Append(out, m) /\ queue[1] \in BoardEvents
      /\ UNCHANGED << open, history, boot, reqs, needs, board, serving >>
  BY FirstTaken DEF ForwardEvent, BoardTyped, daemonVars, deskVars
<1>2. m \in Deliveries /\ m.kind = "event"
  BY <1>1 DEF Deliveries, Announcements
<1>3. InQueue(ItemOf(i)) => InQueue(ItemOf(i))' \/ IsEventOf(m, ItemOf(i))
  <2>1. \A n \in 1 .. Len(queue) : n = 1 \/ (n - 1 \in 1 .. Len(queue') /\ queue'[n - 1] = queue[n])
    BY <1>1, FirstTaken DEF BoardTyped
  <2> QED
    BY <2>1 DEF InQueue, IsEventOf
<1> HIDE DEF m
<1> QED
  BY <1>1, <1>2, <1>3, ItemDelivered

LEMMA ItemSent ==
    ASSUME BoardTyped, NEW i \in Items, ItemOK(i), SendAnswer
    PROVE  ItemOK(i)'
<1>1. /\ serving.kind = "answer" /\ serving.answer \in Deliveries
      /\ out' = Append(out, serving.answer) /\ serving' = Nothing
      /\ UNCHANGED << open, history, boot, reqs, needs, board, queue >>
  BY HandFields DEF SendAnswer, Deliveries, BoardTyped, daemonVars, deskVars
<1>2. PICK m \in Deliveries : m = serving.answer
  BY <1>1
<1>3. out' = Append(out, m) /\ (InQueue(ItemOf(i)) => InQueue(ItemOf(i))')
  BY <1>1, <1>2 DEF InQueue
<1> QED
  BY <1>1, <1>2, <1>3, ItemDelivered

LEMMA ItemRead ==
    ASSUME BoardTyped, NEW i \in Items, ItemOK(i), NEW a \in BoardAnswers, ReadsFor(a)
    PROVE  ItemOK(i)'
<1>1. /\ serving' = [kind |-> "answer", answer |-> a] /\ serving.kind \in {"move", "cards", "fleet"}
      /\ UNCHANGED << open, history, queue, reqs, out, needs, board, boot >>
      /\ serving.kind # "fleet" => a.kind \in {"moved", "cards"}
      /\ serving.kind = "fleet" => a.kind = "fleet" /\ a.items = open
  BY DEF ReadsFor, daemonVars, deskVars
<1>2. Untold(ItemOf(i)) => Untold(ItemOf(i))'
  BY <1>1 DEF Untold, WillSubscribe, InHistory
<1>3. \A s : RightItems(s, i) => RightItems(s, i)'
  BY <1>1, <1>2, RightStays
<1>4. ItemHand(i)'
  <2>1. a.kind = "fleet" => RightItems(a.items, i)'
    BY <1>1 DEF RightItems
  <2> QED
    BY <1>1, <2>1 DEF ItemHand
<1>5. FleetBehind => FleetBehind'
  BY <1>1 DEF FleetBehind, HandHas, ReqFleet
<1>6. (InQueue(ItemOf(i)) => InQueue(ItemOf(i))') /\ Len(out) \in Nat
  BY <1>1, BoardWires DEF InQueue
<1> QED
  BY <1>1, <1>3, <1>4, <1>5, <1>6, ItemGoes

LEMMA ItemTakenUp ==
    ASSUME BoardTyped, PhasesOK, NEW i \in Items, ItemOK(i), Serve
    PROVE  ItemOK(i)'
<1>1. PICK r \in BoardRequests : MakesMove(r) \/ RefusesMove(r) \/ HearsLog(r) \/ Reads(r)
  BY ServeDoes
<1>2. /\ TakesUp(r) /\ serving = Nothing /\ reqs # << >> /\ r = reqs[1] /\ reqs' = Tail(reqs)
      /\ UNCHANGED << open, out, needs, board, half, boot >>
  BY <1>1 DEF MakesMove, RefusesMove, HearsLog, Reads, TakesUp, deskVars
<1>3. ItemHand(i)'
  BY <1>1 DEF MakesMove, RefusesMove, HearsLog, Reads, ItemHand
<1>4. FleetBehind => FleetBehind'
  <2>1. \A n \in 1 .. Len(reqs) : n = 1 \/ (n - 1 \in 1 .. Len(reqs') /\ reqs'[n - 1] = reqs[n])
    BY <1>2, ReqsTaken
  <2>2. ~ HandHas("fleet")
    BY <1>2 DEF HandHas, Nothing
  <2>3. r.kind = "fleet" => HandHas("fleet")'
    BY <1>1 DEF MakesMove, RefusesMove, HearsLog, Reads, HandHas
  <2> QED
    BY <1>2, <2>1, <2>2, <2>3 DEF FleetBehind, ReqFleet
<1>5. Len(out) \in Nat
  BY BoardWires
<1>6. CASE r.kind # "subscribe"
  <2>1. /\ InQueue(ItemOf(i)) => InQueue(ItemOf(i))'
        /\ InHistory(ItemOf(i)) => InHistory(ItemOf(i))'
    <3>1. CASE MakesMove(r)
      <4>1. PICK e \in BoardEvents : Announce(e)
        BY <3>1, OthersAnnounce, RequestFields DEF MakesMove
      <4>2. \A x : InQueue(x) => InQueue(x)'
        BY <4>1, Announced
      <4>3. /\ Len(history') = Len(history) + 1 /\ Len(history) \in Nat
            /\ \A n \in 1 .. Len(history) : history'[n] = history[n]
        BY <4>1, AnnounceAdds, BoardWires
      <4>4. InHistory(ItemOf(i)) => InHistory(ItemOf(i))'
        BY <4>3 DEF InHistory
      <4> QED
        BY <4>2, <4>4
    <3>2. CASE RefusesMove(r) \/ Reads(r)
      BY <3>2 DEF RefusesMove, Reads, InQueue, InHistory
    <3> QED
      BY <1>1, <1>6, <3>1, <3>2 DEF HearsLog
  <2>2. Untold(ItemOf(i)) => Untold(ItemOf(i))'
    BY <1>2, <1>6, <2>1, StillWaits DEF Untold
  <2>3. \A s : RightItems(s, i) => RightItems(s, i)'
    BY <1>2, <2>2, RightStays
  <2> QED
    BY <1>2, <1>3, <1>4, <1>5, <2>1, <2>3, ItemGoes
<1>7. CASE r.kind = "subscribe"
  <2>1. out = << >> /\ ~subscribed
    <3>1. 1 \in 1 .. Len(reqs)
      BY <1>2, ReqsTaken
    <3> QED
      BY <1>2, <1>7, <3>1 DEF PhasesOK, SubscribesFirst
  <2>2. queue' = history
    BY <1>1, <1>7 DEF MakesMove, RefusesMove, HearsLog, Reads
  <2>3. Len(out') = 0 /\ ItemOut(i)'
    BY <1>2, <2>1 DEF ItemOut
  <2>4. ~ InQueue(ItemOf(i)) /\ ~ InOut(ItemOf(i))
    <3>1. queue = << >> /\ Len(out) = 0
      BY <2>1 DEF PhasesOK
    <3> QED
      BY <3>1 DEF InQueue, InOut
  <2>5. Untold(ItemOf(i)) => InQueue(ItemOf(i))'
    BY <2>2 DEF Untold, InHistory, InQueue
  <2>6. OutFleet(1) => OutFleet(1)'
    <3>1. Len(out) = 0
      BY <2>1
    <3> QED
      BY <1>4, <3>1 DEF OutFleet, FleetBehind
  <2>7. RightItems(needs, i) => RightItems(needs, i)' \/ InQueue(ItemOf(i))'
    BY <1>2, <2>5 DEF RightItems
  <2>8. ItemShown(i)'
    BY <1>2, <2>4, <2>6, <2>7, ItemParts DEF ItemShown
  <2> QED
    BY <1>3, <2>3, <2>8, ItemPartsNext
<1> QED
  BY <1>6, <1>7

LEMMA ItemDragged ==
    ASSUME BoardTyped, NEW i \in Items, ItemOK(i), NEW d \in BoardCards, NEW l \in BoardLanes, DragCard(d, l)
    PROVE  ItemOK(i)'
<1>1. board # NoBoard /\ UNCHANGED << open, history, queue, serving, out, needs, boot >>
  BY DEF DragCard, daemonVars, connVars
<1>2. /\ \A n \in 1 .. Len(reqs) : n \in 1 .. Len(reqs') /\ reqs'[n] = reqs[n]
      /\ DOMAIN reqs \subseteq DOMAIN reqs' /\ DOMAIN reqs = 1 .. Len(reqs)
  <2>1. CASE reqs' = reqs
    BY <2>1 DEF BoardTyped
  <2>2. CASE reqs' # reqs
    <3>1. /\ reqs' = Append(reqs, [kind |-> "move", id |-> moves + 1, card |-> d, to |-> l])
          /\ [kind |-> "move", id |-> moves + 1, card |-> d, to |-> l] \in BoardRequests
      BY <2>2, BoardAssumption DEF DragCard, BoardRequests, MoveRequests, BoardTyped
    <3>2. \A n \in 1 .. Len(reqs) : n \in 1 .. Len(reqs') /\ reqs'[n] = reqs[n]
      BY <3>1, ReqsAdded
    <3>3. reqs' \in Seq(BoardRequests) /\ reqs \in Seq(BoardRequests)
      BY <3>1, OneAdded DEF BoardTyped
    <3>4. DOMAIN reqs = 1 .. Len(reqs) /\ DOMAIN reqs' = 1 .. Len(reqs')
      BY <3>3
    <3> QED
      BY <3>2, <3>4
  <2> QED
    BY <2>1, <2>2
<1>3. Untold(ItemOf(i)) => Untold(ItemOf(i))'
  BY <1>1, <1>2 DEF Untold, WillSubscribe, InHistory
<1>4. \A s : RightItems(s, i) => RightItems(s, i)'
  BY <1>1, <1>3, RightStays
<1>5. ReqFleet => ReqFleet'
  BY <1>2 DEF ReqFleet
<1>6. ItemHand(i)'
  BY <1>1, <1>4, <1>5, ItemParts DEF ItemHand
<1>7. FleetBehind => FleetBehind'
  BY <1>1, <1>5 DEF FleetBehind, HandHas
<1>8. (InQueue(ItemOf(i)) => InQueue(ItemOf(i))') /\ Len(out) \in Nat
  BY <1>1, BoardWires DEF InQueue
<1> QED
  BY <1>1, <1>4, <1>6, <1>7, <1>8, ItemGoes

LEMMA ItemRefreshed ==
    ASSUME BoardTyped, NEW i \in Items, Refresh
    PROVE  ItemOK(i)'
<1>1. reqs' = reqs \o Snapshot
  BY DEF Refresh
<1>2. Len(reqs) + 2 \in 1 .. Len(reqs') /\ reqs'[Len(reqs) + 2].kind = "fleet"
  BY <1>1, ReqsSnapshot
<1>3. ReqFleet'
  BY <1>2 DEF ReqFleet
<1> QED
  BY <1>3, ItemAsked

LEMMA ItemQuiet ==
    ASSUME NEW i \in Items, out' = << >>, serving' = Nothing, board' = NoBoard \/ reqs' = Snapshot
    PROVE  ItemOK(i)'
<1>1. CASE reqs' = Snapshot
  <2>1. 2 \in 1 .. Len(reqs') /\ reqs'[2].kind = "fleet"
    BY <1>1, SnapshotAlone
  <2>2. ReqFleet'
    BY <2>1 DEF ReqFleet
  <2> QED
    BY <2>2, ItemAsked
<1>2. CASE board' = NoBoard
  <2>1. Len(out') = 0
    OBVIOUS
  <2> QED
    BY <1>2, <2>1 DEF ItemOK, Nothing
<1> QED
  BY <1>1, <1>2

\* The desktop takes what comes first.
LEMMA ItemTakes ==
    ASSUME BoardTyped, EventsTell, EventsHappened, PhasesOK, NEW i \in Items, ItemOK(i), Lone(i), TakeIn
    PROVE  ItemOK(i)'
<1> USE DEF daemonVars, connVars
<1>1. /\ out # << >> /\ Head(out) = out[1] /\ out[1] \in Deliveries /\ out' = Tail(out)
      /\ UNCHANGED << daemonVars, connVars, link, upsets, source, moves, missed >>
  BY TakeInDoes
<1>2. /\ Len(out) \in Nat /\ Len(out') = Len(out) - 1 /\ 1 \in 1 .. Len(out)
      /\ \A n \in 1 .. Len(out') : n + 1 \in 1 .. Len(out) /\ out'[n] = out[n + 1]
      /\ \A n \in 1 .. Len(out) : n = 1 \/ (n - 1 \in 1 .. Len(out') /\ out'[n - 1] = out[n])
  BY <1>1, OutTaken, FirstTaken DEF BoardTyped
<1>3. /\ \A n \in 1 .. Len(reqs) : n \in 1 .. Len(reqs') /\ reqs'[n] = reqs[n]
      /\ WillSubscribe => WillSubscribe'
  <2>1. boot # "connect"
    BY <1>1 DEF PhasesOK
  <2>2. CASE TakeFleet /\ boot = "load"
    <3>1. reqs' = Append(reqs, [kind |-> "subscribe"])
      BY <2>2 DEF TakeFleet
    <3>2. [kind |-> "subscribe"] \in BoardRequests
      BY DEF BoardRequests
    <3>3. /\ Len(reqs) \in Nat /\ Len(reqs') = Len(reqs) + 1 /\ reqs'[Len(reqs) + 1] = [kind |-> "subscribe"]
          /\ \A n \in 1 .. Len(reqs) : n \in 1 .. Len(reqs') /\ reqs'[n] = reqs[n]
      BY <3>1, <3>2, ReqsAdded
    <3>4. Len(reqs) + 1 \in DOMAIN reqs'
      <4>1. reqs' \in Seq(BoardRequests)
        BY <3>1, <3>2, OneAdded DEF BoardTyped
      <4> QED
        BY <3>3, <4>1
    <3> QED
      BY <3>3, <3>4 DEF WillSubscribe
  <2>3. CASE ~ (TakeFleet /\ boot = "load")
    <3>1. reqs' = reqs
      BY <2>3 DEF TakeIn, TakeCards, TakeFleet, TakeSubscribed, TakeEvent, TakeMoved, TakeRefused
    <3>2. boot = "load" => boot' = boot
      BY <2>3 DEF TakeIn, TakeCards, TakeSubscribed, TakeEvent, TakeMoved, TakeRefused, deskVars
    <3> QED
      BY <2>1, <3>1, <3>2 DEF WillSubscribe
  <2> QED
    BY <2>2, <2>3
<1>4. Untold(ItemOf(i)) => Untold(ItemOf(i))'
  BY <1>1, <1>3 DEF Untold, InHistory
<1>5. \A s : RightItems(s, i) => RightItems(s, i)'
  BY <1>1, <1>4, RightStays
<1>6. (ReqFleet => ReqFleet') /\ (HandHas("fleet") <=> HandHas("fleet")')
  BY <1>1, <1>3 DEF ReqFleet, HandHas
<1>7. ASSUME NEW n \in 1 .. Len(out), NEW h, h = n + 1, OutFleet(h) PROVE OutFleet(n)'
  <2>1. CASE \E k \in h .. Len(out) : out[k].kind = "fleet"
    <3>1. PICK k \in h .. Len(out) : out[k].kind = "fleet"
      BY <2>1
    <3>2. k \in 1 .. Len(out) /\ k # 1 /\ k - 1 \in n .. Len(out')
      BY <1>2, <1>7, <3>1
    <3>3. out'[k - 1].kind = "fleet"
      BY <1>2, <3>1, <3>2
    <3> QED
      BY <3>2, <3>3 DEF OutFleet
  <2>2. CASE HandHas("fleet") \/ ReqFleet
    BY <1>6, <2>2 DEF OutFleet
  <2> QED
    BY <1>7, <2>1, <2>2 DEF OutFleet
<1>8. ItemHand(i)'
  BY <1>1, <1>5, <1>6, ItemParts DEF ItemHand
<1>9. ItemOut(i)'
  <2>1. ASSUME NEW n \in 1 .. Len(out'), out'[n].kind = "fleet", NEW s, s = out'[n].items
        PROVE  RightItems(s, i)' \/ OutFleet(n + 1)'
    <3>1. PICK k : k = n + 1
      OBVIOUS
    <3>2. k \in 1 .. Len(out) /\ out[k].kind = "fleet" /\ s = out[k].items
      BY <1>2, <2>1, <3>1
    <3>3. RightItems(s, i) \/ OutFleet(k + 1)
      BY <3>2, ItemParts DEF ItemOut
    <3>4. OutFleet(k + 1) => OutFleet(k)'
      BY <1>7, <3>2
    <3>5. RightItems(s, i)' \/ OutFleet(k)'
      BY <1>5, <3>3, <3>4
    <3> QED
      BY <3>1, <3>5
  <2> QED
    BY <2>1 DEF ItemOut
<1>10. OutFleet(1 + 1) => OutFleet(1)'
  BY <1>2, <1>7
<1>11. OutFleet(1) => OutFleet(1)' \/ out[1].kind = "fleet"
  <2>1. \A k \in 1 .. Len(out) : k = 1 \/ k \in 1 + 1 .. Len(out)
    BY <1>2
  <2>2. OutFleet(1) => OutFleet(1 + 1) \/ out[1].kind = "fleet"
    BY <2>1 DEF OutFleet
  <2> QED
    BY <1>10, <2>2
<1>12. /\ InQueue(ItemOf(i)) => InQueue(ItemOf(i))'
       /\ InOut(ItemOf(i)) => InOut(ItemOf(i))' \/ IsEventOf(out[1], ItemOf(i))
  BY <1>1, <1>2 DEF InQueue, InOut, IsEventOf
<1>13. ItemShown(i)'
  <2>1. CASE TakeFleet
    <3>1. out[1].kind = "fleet" /\ needs' = out[1].items
      BY <1>1, <2>1 DEF TakeFleet, Arrives
    <3>2. RightItems(out[1].items, i) \/ OutFleet(1 + 1)
      BY <1>2, <3>1, ItemParts DEF ItemOut
    <3>3. PICK s : s = out[1].items
      OBVIOUS
    <3>4. RightItems(s, i)' \/ OutFleet(1)'
      BY <1>5, <1>10, <3>2, <3>3
    <3>5. needs' = s
      BY <3>1, <3>3
    <3>6. RightItems(needs, i)' <=> RightItems(s, i)'
      BY <3>5 DEF RightItems
    <3> QED
      BY <3>4, <3>6 DEF ItemShown
  <2>2. CASE TakeEvent
    <3> DEFINE e == out[1].event
    <3>1. /\ out[1].kind = "event" /\ needs' = NeedsAfter(needs, e) /\ e \in BoardEvents
          /\ board = NoBoard => board' = NoBoard
      BY <1>1, <2>2, DeliveryFields DEF TakeEvent, Arrives
    <3>2. /\ e.type \in {"moved", "raised", "resolved"}
          /\ e.type # "moved" => << e.card, e.key >> \in Items
      BY <3>1, EventFields
    <3>3. IsEventOf(out[1], ItemOf(i)) <=> e.type # "moved" /\ << e.card, e.key >> = i
      BY <3>1 DEF IsEventOf, ItemOf, About
    <3>4. CASE e.type # "moved" /\ << e.card, e.key >> = i
      <4>1. About(e) = ItemOf(i)
        BY <3>4 DEF About, ItemOf
      <4>2. \/ Tells(e)
            \/ \E k \in 1 + 1 .. Len(out) : IsEventOf(out[k], About(e))
            \/ InQueue(About(e))
        BY <1>2, <3>1 DEF EventsTell
      <4>3. i[2] = e.key
        BY <3>4
      <4>4. Tells(e) => RightItems(needs, i)'
        <5>1. e.type = "raised" => i \in needs'
          BY <3>1, <3>4 DEF NeedsAfter
        <5>2. e.type = "resolved" => i \notin needs'
          BY <3>1, <4>3 DEF NeedsAfter
        <5>3. e.type = "raised" /\ Tells(e) => i \in open'
          BY <1>1, <3>4 DEF Tells
        <5>4. e.type = "resolved" /\ Tells(e) => i \notin open'
          BY <1>1, <3>4 DEF Tells
        <5> QED
          BY <3>2, <3>4, <5>1, <5>2, <5>3, <5>4 DEF RightItems
      <4>5. (\E k \in 1 + 1 .. Len(out) : IsEventOf(out[k], About(e))) => InOut(ItemOf(i))'
        <5>1. ASSUME NEW k \in 1 + 1 .. Len(out), IsEventOf(out[k], ItemOf(i)) PROVE InOut(ItemOf(i))'
          <6>1. k \in 1 .. Len(out) /\ k # 1
            OBVIOUS
          <6>2. k - 1 \in 1 .. Len(out') /\ out'[k - 1] = out[k]
            BY <1>2, <6>1
          <6> QED
            BY <5>1, <6>2 DEF InOut, IsEventOf
        <5> QED
          BY <4>1, <5>1
      <4>6. InQueue(About(e)) => InQueue(ItemOf(i))'
        BY <1>12, <4>1
      <4> QED
        BY <4>2, <4>4, <4>5, <4>6 DEF ItemShown
    <3>5. CASE ~ (e.type # "moved" /\ << e.card, e.key >> = i)
      <4>1. i \in needs' <=> i \in needs
        <5>1. CASE e.type = "moved"
          BY <3>1, <5>1 DEF NeedsAfter
        <5>2. CASE e.type # "moved"
          <6>1. InHistory(About(e))
            BY <1>2, <3>1 DEF EventsHappened
          <6>2. PICK n \in 1 .. Len(history) : About(history[n]) = About(e)
            BY <6>1 DEF InHistory
          <6>3. About(e) = [what |-> "item", of |-> << e.card, e.key >>]
            BY <5>2 DEF About
          <6>4. history[n].type # "moved"
            BY <6>2, <6>3 DEF About
          <6>5. << e.card, e.key >> \in Raised
            BY <6>2, <6>3, <6>4 DEF EventsHappened
          <6>6. e.key # i[2]
            <7>1. i = << i[1], i[2] >>
              BY DEF Items
            <7>2. e.key = i[2] => e.card = i[1]
              BY <6>5 DEF Lone
            <7> QED
              BY <3>5, <5>2, <7>1, <7>2
          <6>7. i # << e.card, e.key >>
            BY <3>5, <5>2
          <6> QED
            BY <3>1, <3>2, <5>2, <6>6, <6>7 DEF NeedsAfter
        <5> QED
          BY <5>1, <5>2
      <4>2. RightItems(needs, i) => RightItems(needs, i)'
        BY <1>1, <1>4, <4>1 DEF RightItems
      <4> QED
        BY <1>11, <1>12, <3>1, <3>3, <3>5, <4>2, ItemParts DEF ItemShown
    <3> QED
      BY <3>4, <3>5
  <2>3. CASE ~ TakeFleet /\ ~ TakeEvent
    <3>1. needs' = needs
      BY <2>3 DEF TakeIn, TakeCards, TakeSubscribed, TakeMoved, TakeRefused, deskVars
    <3>2. out[1].kind \notin {"fleet", "event"}
      BY <1>1, <2>3 DEF TakeIn, TakeCards, TakeSubscribed, TakeMoved, TakeRefused, Arrives
    <3>3. board = NoBoard => board' = NoBoard
      <4>1. board = NoBoard => moving = {}
        BY DEF PhasesOK
      <4>2. TakeCards \/ TakeSubscribed => board' = board
        BY DEF TakeCards, TakeSubscribed, deskVars
      <4>3. TakeRefused => moving # {}
        BY DEF TakeRefused, ItsMove
      <4>4. TakeMoved => (board = NoBoard => board' = NoBoard)
        BY DEF TakeMoved, NoBoard
      <4> QED
        BY <2>3, <4>1, <4>2, <4>3, <4>4 DEF TakeIn
    <3>4. ~ IsEventOf(out[1], ItemOf(i))
      BY <3>2 DEF IsEventOf
    <3>5. RightItems(needs, i) => RightItems(needs, i)'
      BY <1>1, <1>4, <3>1 DEF RightItems
    <3> QED
      BY <1>11, <1>12, <3>2, <3>3, <3>4, <3>5, ItemParts DEF ItemShown
  <2> QED
    BY <2>1, <2>2, <2>3
<1> QED
  BY <1>8, <1>9, <1>13, ItemPartsNext

LEMMA ItemsStep ==
    ASSUME BoardTyped, EventsTell, EventsHappened, PhasesOK, ItemsOK, BoardNext
    PROVE  ItemsOK'
<1>1. SUFFICES ASSUME NEW i \in Items, i[1] \notin missed', Lone(i)' PROVE ItemOK(i)'
  BY DEF ItemsOK
<1>2. Lone(i)
  <2>1. Raised \subseteq Raised'
    BY LogGrows
  <2> QED
    BY <1>1, <2>1 DEF Lone
<1>3. CASE Refresh
  BY <1>3, ItemRefreshed
<1>4. CASE Drop
  <2>1. i[1] \in BoardCards
    BY DEF Items
  <2> QED
    BY <1>1, <1>4, <2>1 DEF Drop
<1>5. CASE Connect \/ Reconnect
  <2>1. out' = << >> /\ serving' = Nothing
    BY <1>5 DEF Connect, Reconnect, PhasesOK, connVars
  <2>2. board' = NoBoard \/ reqs' = Snapshot
    BY <1>5 DEF Connect, Reconnect, PhasesOK, deskVars
  <2> QED
    BY <2>1, <2>2, ItemQuiet
<1>6. ASSUME ~ Refresh, ~ Drop, ~ Connect, ~ Reconnect PROVE missed \subseteq missed'
  BY <1>6 DEF BoardNext, OthersMove, OthersRaise, OthersResolve, Overheard, Daemon, ForwardEvent, Serve, ReadAnswer,
              SendAnswer, TakeIn, TakeCards, TakeFleet, TakeSubscribed, TakeEvent, TakeMoved, TakeRefused, DragCard
<1>7. CASE ~ Refresh /\ ~ Drop /\ ~ Connect /\ ~ Reconnect
  <2>0. ItemOK(i)
    BY <1>1, <1>2, <1>6, <1>7 DEF ItemsOK
  <2>1. ASSUME NEW d \in BoardCards, NEW l \in BoardLanes, OthersMove(d, l) PROVE ItemOK(i)'
    BY <2>0, <2>1, ItemOthersMove
  <2>2. ASSUME NEW d \in BoardCards, NEW k \in Keys, OthersRaise(d, k) \/ OthersResolve(d, k) PROVE ItemOK(i)'
    BY <1>1, <2>0, <2>2, ItemOthersItem
  <2>3. ASSUME NEW d \in BoardCards, NEW l \in BoardLanes, DragCard(d, l) PROVE ItemOK(i)'
    BY <2>0, <2>3, ItemDragged
  <2>4. CASE ForwardEvent
    BY <2>0, <2>4, ItemForwarded
  <2>5. CASE Serve
    BY <2>0, <2>5, ItemTakenUp
  <2>6. CASE ReadAnswer
    BY <2>0, <2>6, ReadDoes, ItemRead
  <2>7. CASE SendAnswer
    BY <2>0, <2>7, ItemSent
  <2>8. CASE TakeIn
    BY <1>2, <2>0, <2>8, ItemTakes
  <2> QED
    BY <1>7, <2>1, <2>2, <2>3, <2>4, <2>5, <2>6, <2>7, <2>8 DEF BoardNext, Daemon
<1> QED
  BY <1>3, <1>4, <1>5, <1>7

BoardInv == /\ BoardTyped /\ EventsTell /\ EventsHappened /\ PhasesOK /\ PairsOK /\ MovesOK
            /\ SnapshotsWhole /\ LanesOK /\ ItemsOK

LEMMA BoardInvStart == BoardInit => BoardInv
<1> SUFFICES ASSUME BoardInit PROVE BoardInv
  OBVIOUS
<1>1. /\ history = << >> /\ queue = << >> /\ serving = Nothing /\ reqs = << >> /\ out = << >>
      /\ link = "down" /\ boot = "connect" /\ source = "none" /\ board = NoBoard /\ half = NoBoard
      /\ moving = {} /\ ~subscribed /\ open = {}
      /\ Len(history) = 0 /\ Len(queue) = 0 /\ Len(out) = 0 /\ Len(reqs) = 0
  BY DEF BoardInit
<1>2. BoardTyped
  BY BoardTypedStart
<1>3. EventsTell /\ EventsHappened
  BY <1>1 DEF EventsTell, EventsHappened
<1>4. PhasesOK
  BY <1>1 DEF PhasesOK, SubscribesFirst
<1>5. PairsOK /\ MovesOK
  BY <1>1 DEF PairsOK, MovesOK, HandHas, HandMoves, Nothing
<1>6. SnapshotsWhole
  BY <1>1 DEF SnapshotsWhole, OutWhole, HandWhole, ReqsWhole, HandHas, Nothing
<1>7. LanesOK
  BY <1>1 DEF LanesOK, LaneOK, Nothing
<1>8. ItemsOK
  BY <1>1 DEF ItemsOK, ItemOK, Nothing
<1> QED
  BY <1>2, <1>3, <1>4, <1>5, <1>6, <1>7, <1>8 DEF BoardInv

LEMMA BoardInvStep == BoardInv /\ [BoardNext]_boardVars => BoardInv'
<1> SUFFICES ASSUME BoardInv, [BoardNext]_boardVars PROVE BoardInv'
  OBVIOUS
<1>1. /\ BoardTyped /\ EventsTell /\ EventsHappened /\ PhasesOK /\ PairsOK /\ MovesOK
      /\ SnapshotsWhole /\ LanesOK /\ ItemsOK
  BY DEF BoardInv
<1>2. CASE BoardNext
  <2>1. BoardTyped' /\ EventsTell' /\ EventsHappened'
    BY <1>1, <1>2, BoardTypedStep, EventsTellStep, EventsHappenedStep
  <2>2. PhasesOK' /\ PairsOK' /\ MovesOK' /\ SnapshotsWhole'
    BY <1>1, <1>2, PhasesStep, PairsStep, MovesStep, WholeStep
  <2>3. LanesOK' /\ ItemsOK'
    BY <1>1, <1>2, LanesStep, ItemsStep
  <2> QED
    BY <2>1, <2>2, <2>3 DEF BoardInv
<1>3. CASE UNCHANGED boardVars
  <2>0. /\ UNCHANGED << lane, open, history, changes, subscribed, queue, serving, reqs, out >>
        /\ UNCHANGED << link, upsets, boot, source, board, needs, half, moving, moves, fresh, missed >>
    BY <1>3 DEF boardVars
  <2>1. BoardTyped'
    BY <1>1, <2>0 DEF BoardTyped
  <2>2. EventsTell' /\ EventsHappened'
    <3>1. (\A e : Tells(e)' <=> Tells(e)) /\ (\A x : InHistory(x)' <=> InHistory(x)) /\ (\A x : InQueue(x)' <=> InQueue(x))
      BY <2>0 DEF Tells, InHistory, InQueue
    <3>2. Raised' = Raised
      BY <2>0 DEF Raised
    <3> QED
      BY <1>1, <2>0, <3>1, <3>2 DEF EventsTell, EventsHappened, IsEventOf
  <2>3. PhasesOK'
    BY <1>1, <2>0 DEF PhasesOK, LoadingOK, SubscribesFirst
  <2>4. PairsOK'
    BY <1>1, <2>0 DEF PairsOK, CardsCome, HandHas
  <2>5. MovesOK'
    BY <1>1, <2>0 DEF MovesOK, Entry, HandMoves, HandId
  <2>6. SnapshotsWhole'
    BY <1>1, <2>0 DEF SnapshotsWhole, OutWhole, HandWhole, ReqsWhole, HandHas, FleetFrom
  <2>7. LanesOK'
    <3>1. ASSUME NEW c \in BoardCards, c \notin missed' PROVE LaneOK(c)'
      <4>1. LaneOK(c)
        BY <1>1, <2>0, <3>1 DEF LanesOK
      <4>2. (Untold(LaneOf(c)) => Untold(LaneOf(c))') /\ (InQueue(LaneOf(c)) => InQueue(LaneOf(c))')
        BY <2>0 DEF Untold, WillSubscribe, InHistory, InQueue
      <4> QED
        BY <1>1, <2>0, <4>1, <4>2, LaneAwayShown
    <3> QED
      BY <3>1 DEF LanesOK
  <2>8. ItemsOK'
    <3>1. ASSUME NEW i \in Items, i[1] \notin missed', Lone(i)' PROVE ItemOK(i)'
      <4>1. ItemOK(i)
        BY <1>1, <2>0, <3>1 DEF ItemsOK, Lone, Raised
      <4>2. (Untold(ItemOf(i)) => Untold(ItemOf(i))') /\ (InQueue(ItemOf(i)) => InQueue(ItemOf(i))')
        BY <2>0 DEF Untold, WillSubscribe, InHistory, InQueue
      <4>3. \A s : RightItems(s, i) => RightItems(s, i)'
        BY <2>0, <4>2, RightStays
      <4> QED
        BY <1>1, <2>0, <4>1, <4>2, <4>3, ItemAway
    <3> QED
      BY <3>1 DEF ItemsOK
  <2> QED
    BY <2>1, <2>2, <2>3, <2>4, <2>5, <2>6, <2>7, <2>8 DEF BoardInv
<1> QED
  BY <1>2, <1>3

LEMMA BoardInvShows == BoardInv => BoardTypeOK /\ LanesAgree /\ QueueAgrees
<1> SUFFICES ASSUME BoardInv PROVE BoardTypeOK /\ LanesAgree /\ QueueAgrees
  OBVIOUS
<1>1. /\ BoardTyped /\ EventsTell /\ EventsHappened /\ PhasesOK /\ PairsOK /\ MovesOK
      /\ SnapshotsWhole /\ LanesOK /\ ItemsOK
  BY DEF BoardInv
<1>2. BoardTypeOK
  <2>1. /\ \A n \in DOMAIN history : history[n].type \in {"moved", "raised", "resolved"}
        /\ \A n \in DOMAIN queue : queue[n].type \in {"moved", "raised", "resolved"}
    <3>1. DOMAIN history = 1 .. Len(history) /\ DOMAIN queue = 1 .. Len(queue)
      BY <1>1 DEF BoardTyped
    <3> QED
      BY <1>1, <3>1, BoardWires, EventFields
  <2>2. serving.kind \in {"nothing", "move", "cards", "fleet", "answer"}
    BY <1>1, HandFields DEF BoardTyped
  <2> QED
    BY <1>1, <2>1, <2>2 DEF BoardTyped, BoardTypeOK
<1>3. ASSUME Settled
      PROVE  /\ reqs = << >> /\ serving = Nothing /\ half = NoBoard /\ out = << >> /\ queue = << >> /\ board # NoBoard
             /\ Len(reqs) = 0 /\ Len(out) = 0 /\ Len(queue) = 0 /\ ~ WillSubscribe
  <2>1. /\ reqs = << >> /\ serving = Nothing /\ half = NoBoard /\ out = << >> /\ queue = << >> /\ board # NoBoard
    BY <1>3 DEF Settled, Waiting
  <2>2. boot \notin {"connect", "load"} /\ DOMAIN reqs = {}
    BY <1>1, <2>1 DEF PhasesOK
  <2> QED
    BY <2>1, <2>2 DEF WillSubscribe
<1>4. LanesAgree
  <2>1. ASSUME Settled, NEW c \in BoardCards \ missed PROVE board[c] = lane[c]
    <3>1. LaneOK(c)
      BY <1>1, <2>1 DEF LanesOK
    <3>2. BoardLane(c)
      BY <3>1, LaneParts
    <3>3. ~ Untold(LaneOf(c)) /\ ~ InOut(LaneOf(c)) /\ ~ InQueue(LaneOf(c))
      BY <1>3, <2>1 DEF Untold, InOut, InQueue
    <3>4. ~ OutNews(1, c)
      BY <1>3, <2>1 DEF OutNews, HandNews, ReqNews, News, MoveOf, IsMove, Nothing
    <3> QED
      BY <1>3, <2>1, <3>2, <3>3, <3>4 DEF BoardLane
  <2> QED
    BY <2>1 DEF LanesAgree
<1>5. QueueAgrees
  <2>1. ASSUME Settled, NEW i \in Items, i[1] \notin missed, Lone(i) PROVE i \in needs <=> i \in open
    <3>1. ItemOK(i)
      BY <1>1, <2>1 DEF ItemsOK
    <3>2. ItemShown(i)
      BY <3>1, ItemParts
    <3>3. ~ Untold(ItemOf(i)) /\ ~ InOut(ItemOf(i)) /\ ~ InQueue(ItemOf(i))
      BY <1>3, <2>1 DEF Untold, InOut, InQueue
    <3>4. ~ OutFleet(1)
      BY <1>3, <2>1 DEF OutFleet, HandHas, ReqFleet, Nothing
    <3> QED
      BY <1>3, <2>1, <3>2, <3>3, <3>4 DEF ItemShown, RightItems
  <2> QED
    BY <2>1 DEF QueueAgrees, Lone
<1> QED
  BY <1>2, <1>4, <1>5

\* The variables of the board keep their types (BoardView!BoardTypeOK).
THEOREM BoardTypes == BoardSpec => []BoardTypeOK
<1>1. BoardSpec => []BoardInv
  BY BoardInvStart, BoardInvStep, PTL DEF BoardSpec
<1> QED
  BY <1>1, BoardInvShows, PTL

\* With nothing under way, every lane the board shows and every item of its
\* Needs You queue is the daemon's (BoardView!LanesAgree and BoardView!QueueAgrees),
\* whatever was dragged, moved, raised or resolved while a snapshot was read, an
\* answer was on its way or the link was lost.
THEOREM BoardAgrees == BoardSpec => [](LanesAgree /\ QueueAgrees)
<1>1. BoardSpec => []BoardInv
  BY BoardInvStart, BoardInvStep, PTL DEF BoardSpec
<1> QED
  BY <1>1, BoardInvShows, PTL
================================================================================
