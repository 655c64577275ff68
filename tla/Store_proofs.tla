------------------------------ MODULE Store_proofs ------------------------------
(***************************************************************************)
(* What the runs of MC_Store check on small instances, for every value of  *)
(* the constants: the cards, the recipes, a worktree's provisions and the  *)
(* knowledge base.  The components share no variable, so each has its own  *)
(* invariant, and the suite's is their conjunction.  What a walk through   *)
(* the recipe files computes, and a merge of them, is a function of the    *)
(* number of steps: it exists, and has what its steps keep, because there  *)
(* is no least number of steps after which it would not (ResultsExist,     *)
(* WalkEnds, NearestWins).                                                 *)
(***************************************************************************)
EXTENDS MC_Store, FiniteSetTheorems, WellFoundedInduction, TLAPS

--------------------------------------------------------------------------------
(* The cards.                                                                  *)

Origins == {"filed", "imported"} \X (Refs \cup {NoRef})

\* What a handler may be doing with n cards in the table.
UpdateRequest(n)  == [at : {"update"}, by : {"patch", "refile"}, card : 1 .. n, seen : RowType,
                      text : Texts \cup {Same}, dial : Dials \cup {Same}]
RefreshRequest(n) == [at : {"refresh"}, card : 1 .. n, text : Texts]
FilingRequest     == [at : {"budget", "insert"}, origin : Origins, text : Texts]
FiledRequest(n)   == [at : {"record", "adopt"}, card : 1 .. n]
Requests(n) == {Idle} \cup UpdateRequest(n) \cup RefreshRequest(n) \cup FilingRequest
                   \cup FiledRequest(n)

\* An agent's calls that passed the budget and are not yet counted, and those of
\* them that have their card.
Passed   == {h \in AgentCalls : request[h].at \in {"insert", "record"}}
Inserted == {h \in AgentCalls : request[h].at = "record"}

MostFiled == IF CardBudget = 0 THEN 0 ELSE CardBudget + Cardinality(AgentCalls) - 1

CardsTyped ==
    /\ audit \in BOOLEAN
    /\ cards \in Seq(RowType) /\ told \in Seq(RowType)
    /\ Len(told) = Len(cards) /\ Len(cards) <= MaxCards
    /\ request \in [Handlers -> Requests(Len(cards))]
    /\ \A h \in Callers : request[h].at \notin {"budget", "record", "adopt"}
    /\ issues \in [Handlers -> Seq(Issue)]
    /\ served \in 0 .. MaxRequests /\ used \in Nat
    /\ owned \subseteq 1 .. Len(cards) /\ adopted \in 0 .. Len(cards)
    /\ overlapped \subseteq 1 .. Len(cards)

\* What a handler read of card c still holds of it, unless somebody wrote it since.
Reads(r, c, row) ==
    /\ r.at = "update" => r.seen.text = row.text /\ r.seen.dial = row.dial
    /\ r.at = "refresh" \/ (r.at = "update" /\ r.by = "refile") => ~row.dismissed

ReadsOK ==
    \A h \in Handlers : \A c \in 1 .. Len(cards) :
        h \in InHand(c) /\ c \notin overlapped => Reads(request[h], c, cards[c])

CountOK ==
    /\ used + Cardinality(Passed) <= MostFiled
    /\ used + Cardinality(Inserted) <= Len(cards)
    /\ Cardinality(owned) <= used

CardsInv == CardsTyped /\ ReadsOK /\ CountOK /\ OneCardPerOrigin /\ EventsTellTheCard

LEMMA CardsStart == CardsInit => CardsInv
<1> SUFFICES ASSUME CardsInit PROVE CardsInv
  OBVIOUS
<1>1. /\ audit \in BOOLEAN /\ cards = << >> /\ told = << >>
      /\ request = [h \in Handlers |-> Idle] /\ issues = [h \in Handlers |-> << >>]
      /\ served = 0 /\ used = 0 /\ owned = {} /\ adopted = 0 /\ overlapped = {}
  BY DEF CardsInit, NoCardYet
<1>2. MaxCards \in Nat /\ MaxRequests \in Nat /\ CardBudget \in Nat /\ IsFiniteSet(AgentCalls)
  BY CardsAssumption, FS_Subset DEF CardsAssumption
<1>3. Len(cards) = 0 /\ Len(told) = 0
  BY <1>1
<1>4. \A h \in Handlers : request[h] = Idle /\ request[h].at = "idle"
  BY <1>1 DEF Idle
<1>5. CardsTyped
  <2>1. issues \in [Handlers -> Seq(Issue)]
    BY <1>1
  <2>2. request \in [Handlers -> Requests(Len(cards))]
    BY <1>1 DEF Requests
  <2>3. \A h \in Callers : request[h].at \notin {"budget", "record", "adopt"}
    BY <1>4 DEF Handlers
  <2> QED
    BY <2>1, <2>2, <2>3, <1>1, <1>2, <1>3 DEF CardsTyped
<1>6. ReadsOK
  BY <1>3 DEF ReadsOK
<1>7. CountOK
  <2>1. Passed = {} /\ Inserted = {} /\ owned = {}
    BY <1>1, <1>4 DEF Passed, Inserted, Handlers
  <2>2. Cardinality(AgentCalls) \in Nat
    BY <1>2, FS_CardinalityType
  <2>3. MostFiled >= 0
    BY <2>2, <1>2 DEF MostFiled
  <2>4. Cardinality({}) = 0
    BY FS_EmptySet
  <2> QED
    BY <2>1, <2>3, <2>4, <1>1, <1>3 DEF CountOK, MostFiled
<1>8. OneCardPerOrigin /\ EventsTellTheCard
  BY <1>1 DEF OneCardPerOrigin, EventsTellTheCard, Rows
<1> QED
  BY <1>5, <1>6, <1>7, <1>8 DEF CardsInv

LEMMA RowUpdated ==
    ASSUME NEW q \in Seq(RowType), NEW c \in 1 .. Len(q), NEW row \in RowType
    PROVE  LET z == [q EXCEPT ![c] = row]
           IN  /\ z \in Seq(RowType) /\ Len(z) = Len(q) /\ z[c] = row
               /\ \A d \in 1 .. Len(q) : d # c => z[d] = q[d]
OBVIOUS

LEMMA RowAppended ==
    ASSUME NEW q \in Seq(RowType), NEW row \in RowType
    PROVE  LET z == Append(q, row)
           IN  /\ z \in Seq(RowType) /\ Len(z) = Len(q) + 1 /\ z[Len(q) + 1] = row
               /\ \A d \in 1 .. Len(q) : z[d] = q[d]
OBVIOUS

LEMMA CardsKnown ==
    ASSUME CardsTyped
    PROVE  /\ IsFiniteSet(AgentCalls) /\ IsFiniteSet(Passed) /\ IsFiniteSet(Inserted)
           /\ {Cardinality(AgentCalls), Cardinality(Passed), Cardinality(Inserted),
               Cardinality(owned), CardBudget, MaxCards, MaxRequests, Len(cards)} \subseteq Nat
           /\ IsFiniteSet(owned) /\ Rows = 1 .. Len(cards) /\ Inserted \subseteq Passed
           /\ Callers \cap AgentCalls = {} /\ Handlers = Callers \cup AgentCalls
           /\ MostFiled \in Int
<1>1. IsFiniteSet(AgentCalls)
  BY CardsAssumption, FS_Subset DEF CardsAssumption
<1>2. IsFiniteSet(Passed) /\ IsFiniteSet(Inserted) /\ Inserted \subseteq Passed
  BY <1>1, FS_Subset DEF Passed, Inserted
<1>3. Len(cards) \in Nat /\ Rows = 1 .. Len(cards)
  BY DEF CardsTyped, Rows
<1>4. IsFiniteSet(owned)
  <2>1. IsFiniteSet(1 .. Len(cards))
    BY <1>3, FS_Interval
  <2> QED
    BY <2>1, FS_Subset DEF CardsTyped
<1>5. /\ Cardinality(AgentCalls) \in Nat /\ Cardinality(Passed) \in Nat
      /\ Cardinality(Inserted) \in Nat /\ Cardinality(owned) \in Nat
  BY <1>1, <1>2, <1>4, FS_CardinalityType
<1>6. CardBudget \in Nat /\ MaxCards \in Nat /\ MaxRequests \in Nat
      /\ Callers \cap AgentCalls = {}
  BY CardsAssumption DEF CardsAssumption
<1>7. MostFiled \in Int
  BY <1>5, <1>6 DEF MostFiled
<1> QED
  BY <1>1, <1>2, <1>3, <1>4, <1>5, <1>6, <1>7 DEF Handlers

LEMMA RequestsWiden ==
    ASSUME NEW m \in Nat, NEW n \in Nat, m <= n
    PROVE  Requests(m) \subseteq Requests(n)
<1>1. 1 .. m \subseteq 1 .. n
  OBVIOUS
<1>2. UpdateRequest(m) \subseteq UpdateRequest(n)
  BY <1>1 DEF UpdateRequest
<1>3. RefreshRequest(m) \subseteq RefreshRequest(n)
  BY <1>1 DEF RefreshRequest
<1>4. FiledRequest(m) \subseteq FiledRequest(n)
  BY <1>1 DEF FiledRequest
<1> QED
  BY <1>2, <1>3, <1>4 DEF Requests

\* No call comes to be counted.
LEMMA CountFrame ==
    ASSUME CardsTyped, CountOK, Passed' \subseteq Passed, Inserted' \subseteq Inserted,
           used' = used, owned' = owned, Len(cards') \in Nat, Len(cards') >= Len(cards)
    PROVE  CountOK'
<1>1. /\ IsFiniteSet(Passed) /\ IsFiniteSet(Inserted)
      /\ Cardinality(Passed) \in Nat /\ Cardinality(Inserted) \in Nat /\ MostFiled \in Int
      /\ Len(cards) \in Nat /\ used \in Nat
  BY CardsKnown DEF CardsTyped
<1>2. /\ Cardinality(Passed') <= Cardinality(Passed) /\ Cardinality(Passed') \in Nat
      /\ Cardinality(Inserted') <= Cardinality(Inserted) /\ Cardinality(Inserted') \in Nat
  BY <1>1, FS_Subset, FS_CardinalityType
<1>3. MostFiled' = MostFiled
  BY DEF MostFiled
<1>4. used + Cardinality(Passed) <= MostFiled /\ used + Cardinality(Inserted) <= Len(cards)
      /\ Cardinality(owned) <= used
  BY DEF CountOK
<1>5. used' + Cardinality(Passed') <= MostFiled' /\ used' + Cardinality(Inserted') <= Len(cards')
  BY <1>1, <1>2, <1>3, <1>4
<1> QED
  BY <1>4, <1>5 DEF CountOK

\* The handler of h goes on as r; the table rests.
LEMMA RequestStep ==
    ASSUME CardsInv, NEW h \in Handlers, NEW r \in Requests(Len(cards)),
           request' = [request EXCEPT ![h] = r],
           h \in Callers => r.at \notin {"budget", "record", "adopt"},
           UNCHANGED << audit, cards, told, overlapped >>,
           issues' \in [Handlers -> Seq(Issue)], served' \in 0 .. MaxRequests, used' \in Nat,
           owned' \subseteq 1 .. Len(cards), adopted' \in 0 .. Len(cards),
           r.at \in {"refresh", "update"} /\ r.card \notin overlapped
               => Reads(r, r.card, cards[r.card]),
           CountOK'
    PROVE  CardsInv'
<1>1. CardsTyped /\ ReadsOK /\ OneCardPerOrigin /\ EventsTellTheCard
  BY DEF CardsInv
<1>2. /\ request' \in [Handlers -> Requests(Len(cards))] /\ request'[h] = r
      /\ \A g \in Handlers : g # h => request'[g] = request[g]
  BY <1>1 DEF CardsTyped
<1>3. CardsTyped'
  <2>1. \A g \in Callers : request'[g].at \notin {"budget", "record", "adopt"}
    BY <1>1, <1>2 DEF CardsTyped, Handlers
  <2> QED
    BY <2>1, <1>1, <1>2 DEF CardsTyped
<1>4. ReadsOK'
  <2> SUFFICES ASSUME NEW g \in Handlers, NEW c \in 1 .. Len(cards),
                      request'[g].at \in {"refresh", "update"}, request'[g].card = c,
                      c \notin overlapped
               PROVE  Reads(request'[g], c, cards[c])
    BY DEF ReadsOK, InHand, Reads
  <2>1. CASE g = h
    BY <2>1, <1>2
  <2>2. CASE g # h
    BY <2>2, <1>1, <1>2 DEF ReadsOK, InHand
  <2> QED
    BY <2>1, <2>2
<1>5. OneCardPerOrigin' /\ EventsTellTheCard'
  BY <1>1 DEF OneCardPerOrigin, EventsTellTheCard, Rows
<1> QED
  BY <1>3, <1>4, <1>5 DEF CardsInv

\* Card c is written by h, which then has nothing in hand: any other handler that had
\* read it is overlapped.
LEMMA CardWritten ==
    ASSUME CardsInv, NEW h \in Handlers, NEW c \in 1 .. Len(cards),
           NEW row \in RowType, NEW tale \in RowType,
           cards' = [cards EXCEPT ![c] = row], told' = [told EXCEPT ![c] = tale],
           row.origin = cards[c].origin, tale.lane = row.lane,
           Overlap(c, h), c \notin overlapped' => tale = row,
           request' = [request EXCEPT ![h] = Idle],
           UNCHANGED << audit, issues, used, owned, adopted >>, served' \in 0 .. MaxRequests
    PROVE  CardsInv'
<1>1. CardsTyped /\ ReadsOK /\ OneCardPerOrigin /\ EventsTellTheCard /\ CountOK
  BY DEF CardsInv
<1>2. cards \in Seq(RowType) /\ told \in Seq(RowType) /\ Len(told) = Len(cards)
  BY <1>1 DEF CardsTyped
<1>3. /\ cards' \in Seq(RowType) /\ Len(cards') = Len(cards) /\ cards'[c] = row
      /\ \A d \in 1 .. Len(cards) : d # c => cards'[d] = cards[d]
  BY <1>2, RowUpdated
<1>4. /\ told' \in Seq(RowType) /\ Len(told') = Len(cards) /\ told'[c] = tale
      /\ \A d \in 1 .. Len(cards) : d # c => told'[d] = told[d]
  BY <1>2, RowUpdated
<1>5. /\ request' \in [Handlers -> Requests(Len(cards))] /\ request'[h] = Idle
      /\ \A g \in Handlers : g # h => request'[g] = request[g]
  BY <1>1 DEF CardsTyped, Requests
<1>6. overlapped \subseteq overlapped' /\ overlapped' \subseteq overlapped \cup {c}
  BY DEF Overlap
<1>7. CardsTyped'
  <2>1. \A g \in Callers : request'[g].at \notin {"budget", "record", "adopt"}
    BY <1>1, <1>5 DEF CardsTyped, Handlers, Idle
  <2> QED
    BY <2>1, <1>1, <1>3, <1>4, <1>5, <1>6 DEF CardsTyped
<1>8. ReadsOK'
  <2> SUFFICES ASSUME NEW g \in Handlers, NEW d \in 1 .. Len(cards),
                      request'[g].at \in {"refresh", "update"}, request'[g].card = d,
                      d \notin overlapped'
               PROVE  Reads(request'[g], d, cards'[d])
    BY <1>3 DEF ReadsOK, InHand, Reads
  <2>1. g # h
    BY <1>5 DEF Idle
  <2>2. g \in InHand(d) /\ request'[g] = request[g] /\ d \notin overlapped
    BY <2>1, <1>5, <1>6 DEF InHand
  <2>3. d # c
    BY <2>1, <2>2, <1>6 DEF Overlap
  <2> QED
    BY <2>2, <2>3, <1>1, <1>3 DEF ReadsOK
<1>9. CountOK'
  <2>1. Passed' \subseteq Passed /\ Inserted' \subseteq Inserted
    BY <1>5 DEF Passed, Inserted, Handlers, Idle
  <2> QED
    BY <2>1, <1>1, <1>2, <1>3, CountFrame
<1>10. OneCardPerOrigin'
  <2>1. \A d \in 1 .. Len(cards) : cards'[d].origin = cards[d].origin
    BY <1>3
  <2> QED
    BY <2>1, <1>1, <1>2, <1>3 DEF OneCardPerOrigin, Rows
<1>11. EventsTellTheCard'
  BY <1>1, <1>2, <1>3, <1>4, <1>6 DEF EventsTellTheCard, Rows
<1> QED
  BY <1>7, <1>8, <1>9, <1>10, <1>11 DEF CardsInv

\* A card is added, and h goes on as r.
LEMMA CardAdded ==
    ASSUME CardsInv, NEW h \in Handlers, NEW row \in RowType, Insert(row),
           Len(cards) < MaxCards, Unique(row.origin),
           NEW r \in Requests(Len(cards) + 1), request' = [request EXCEPT ![h] = r],
           r.at \notin {"budget", "refresh", "update"},
           h \in Callers => r.at \notin {"record", "adopt"},
           UNCHANGED << audit, issues, used, owned, adopted, overlapped >>,
           served' \in 0 .. MaxRequests, CountOK'
    PROVE  CardsInv'
<1>1. CardsTyped /\ ReadsOK /\ OneCardPerOrigin /\ EventsTellTheCard /\ CountOK
  BY DEF CardsInv
<1>2. /\ cards \in Seq(RowType) /\ told \in Seq(RowType) /\ Len(told) = Len(cards)
      /\ Len(cards) \in Nat /\ MaxCards \in Nat
  BY <1>1, CardsAssumption DEF CardsTyped, CardsAssumption
<1>3. /\ cards' \in Seq(RowType) /\ Len(cards') = Len(cards) + 1 /\ cards'[Len(cards) + 1] = row
      /\ \A d \in 1 .. Len(cards) : cards'[d] = cards[d]
  BY <1>2, RowAppended DEF Insert
<1>4. /\ told' \in Seq(RowType) /\ Len(told') = Len(cards) + 1 /\ told'[Len(cards) + 1] = row
      /\ \A d \in 1 .. Len(cards) : told'[d] = told[d]
  BY <1>2, RowAppended DEF Insert
<1>5. /\ request' \in [Handlers -> Requests(Len(cards) + 1)] /\ request'[h] = r
      /\ \A g \in Handlers : g # h => request'[g] = request[g]
  <2>1. Requests(Len(cards)) \subseteq Requests(Len(cards) + 1)
    BY <1>2, RequestsWiden
  <2>2. request \in [Handlers -> Requests(Len(cards) + 1)]
    BY <2>1, <1>1 DEF CardsTyped
  <2> QED
    BY <2>2
<1>6. 1 .. Len(cards') = 1 .. Len(cards) \cup {Len(cards) + 1}
  BY <1>2, <1>3
<1>7. CardsTyped'
  <2>1. \A g \in Callers : request'[g].at \notin {"budget", "record", "adopt"}
    BY <1>1, <1>5 DEF CardsTyped, Handlers
  <2>2. Len(cards') <= MaxCards /\ adopted' \in 0 .. Len(cards')
    BY <1>1, <1>2, <1>3 DEF CardsTyped
  <2>3. owned' \subseteq 1 .. Len(cards') /\ overlapped' \subseteq 1 .. Len(cards')
    BY <1>1, <1>6 DEF CardsTyped
  <2> QED
    BY <2>1, <2>2, <2>3, <1>1, <1>3, <1>4, <1>5 DEF CardsTyped
<1>8. ReadsOK'
  <2> SUFFICES ASSUME NEW g \in Handlers, NEW d \in 1 .. Len(cards'),
                      request'[g].at \in {"refresh", "update"}, request'[g].card = d,
                      d \notin overlapped'
               PROVE  Reads(request'[g], d, cards'[d])
    BY DEF ReadsOK, InHand, Reads
  <2>1. g # h /\ request'[g] = request[g]
    BY <1>5
  <2>2. d \in 1 .. Len(cards)
    <3>1. request[g] \in Requests(Len(cards)) /\ request[g].at \in {"refresh", "update"}
      BY <2>1, <1>1 DEF CardsTyped
    <3>2. request[g].card \in 1 .. Len(cards)
      BY <3>1 DEF Requests, Idle, UpdateRequest, RefreshRequest, FilingRequest, FiledRequest
    <3> QED
      BY <3>2, <2>1
  <2> QED
    BY <2>1, <2>2, <1>1, <1>3 DEF ReadsOK, InHand
<1>9. OneCardPerOrigin'
  <2>1. \A d \in 1 .. Len(cards) : row.origin[2] # NoRef => cards[d].origin # row.origin
    BY <1>2 DEF Unique, ByOrigin, Rows
  <2> QED
    BY <2>1, <1>1, <1>2, <1>3, <1>6 DEF OneCardPerOrigin, Rows
<1>10. EventsTellTheCard'
  BY <1>1, <1>2, <1>3, <1>4, <1>6 DEF EventsTellTheCard, Rows
<1> QED
  BY <1>7, <1>8, <1>9, <1>10 DEF CardsInv

\* What is known of the handler that goes on.
LEMMA RequestIs ==
    ASSUME CardsInv, NEW h \in Handlers
    PROVE  /\ CardsTyped /\ ReadsOK /\ CountOK /\ OneCardPerOrigin /\ EventsTellTheCard
           /\ request[h] \in Requests(Len(cards))
           /\ request[h].at = "update" => request[h] \in UpdateRequest(Len(cards))
           /\ request[h].at = "refresh" => request[h] \in RefreshRequest(Len(cards))
           /\ request[h].at \in {"budget", "insert"} => request[h] \in FilingRequest
           /\ request[h].at \in {"record", "adopt"} => request[h] \in FiledRequest(Len(cards))
           /\ h \notin AgentCalls => h \in Callers
           /\ h \in AgentCalls => h \notin Callers
           /\ h \in Callers => request[h].at \notin {"budget", "record", "adopt"}
           /\ Idle \in Requests(Len(cards)) /\ Idle.at = "idle"
<1>1. CardsTyped /\ ReadsOK /\ CountOK /\ OneCardPerOrigin /\ EventsTellTheCard
  BY DEF CardsInv
<1>2. request[h] \in Requests(Len(cards))
  BY <1>1 DEF CardsTyped
<1>3. Idle \in Requests(Len(cards)) /\ Idle.at = "idle"
  BY DEF Requests, Idle
<1>4. /\ request[h].at = "update" => request[h] \in UpdateRequest(Len(cards))
      /\ request[h].at = "refresh" => request[h] \in RefreshRequest(Len(cards))
      /\ request[h].at \in {"budget", "insert"} => request[h] \in FilingRequest
      /\ request[h].at \in {"record", "adopt"} => request[h] \in FiledRequest(Len(cards))
  BY <1>2, <1>3
  DEF Requests, UpdateRequest, RefreshRequest, FilingRequest, FiledRequest
<1>5. h \in Callers => request[h].at \notin {"budget", "record", "adopt"}
  BY <1>1 DEF CardsTyped
<1> QED
  BY <1>1, <1>2, <1>3, <1>4, <1>5, CardsKnown

LEMMA CardsUpdateRead ==
    ASSUME CardsInv, NEW h \in Handlers, NEW c \in Rows, NEW text \in Texts \cup {Same},
           NEW dial \in Dials \cup {Same}, UpdateRead(h, c, text, dial)
    PROVE  CardsInv'
<1> DEFINE r == [at |-> "update", by |-> "patch", card |-> c, seen |-> cards[c],
                 text |-> text, dial |-> dial]
<1>1. /\ request[h] = Idle /\ served < MaxRequests /\ served' = served + 1
      /\ request' = [request EXCEPT ![h] = r]
      /\ UNCHANGED << audit, cards, told, issues, used, owned, adopted, overlapped >>
  BY DEF UpdateRead, TakeUp, Serves, TokenSame
<1>2. CardsTyped /\ CountOK /\ Idle.at = "idle" /\ c \in 1 .. Len(cards)
  BY RequestIs, CardsKnown
<1>3. cards[c] \in RowType
  BY <1>2 DEF CardsTyped
<1>4. /\ r \in UpdateRequest(Len(cards)) /\ r.at = "update" /\ r.card = c
      /\ Reads(r, c, cards[c])
  BY <1>2, <1>3 DEF UpdateRequest, Reads
<1>5. r \in Requests(Len(cards))
  BY <1>4 DEF Requests
<1>6. served' \in 0 .. MaxRequests
  BY <1>1, <1>2, CardsKnown DEF CardsTyped
<1> HIDE DEF r
<1>7. Passed' \subseteq Passed /\ Inserted' \subseteq Inserted
  BY <1>1, <1>2, <1>4 DEF Passed, Inserted, CardsTyped, Handlers
<1>8. CountOK'
  BY <1>1, <1>2, <1>7, CountFrame, CardsKnown
<1> QED
  BY <1>1, <1>2, <1>4, <1>5, <1>6, <1>8, RequestStep DEF CardsTyped

LEMMA CardsUpdateWrite ==
    ASSUME CardsInv, NEW h \in Handlers, UpdateWrite(h)
    PROVE  CardsInv'
<1> DEFINE r == request[h]
           c == r.card
           newText == Pick(r.text, r.seen.text)
           newDial == Pick(r.dial, r.seen.dial)
<1>1. /\ r.at = "update" /\ Write(c, r.seen, r.text, r.dial) /\ Overlap(c, h)
      /\ request' = [request EXCEPT ![h] = Idle]
      /\ UNCHANGED << audit, issues, served, used, owned, adopted >>
  BY DEF UpdateWrite, Finish, Goes, TokenSame
<1>2. /\ CardsTyped /\ ReadsOK /\ EventsTellTheCard /\ r \in UpdateRequest(Len(cards))
  BY <1>1, RequestIs
<1>3. /\ c \in 1 .. Len(cards) /\ r.seen \in RowType /\ newText \in Texts /\ newDial \in Dials
      /\ cards[c] \in RowType /\ told[c] \in RowType /\ Rows = 1 .. Len(cards)
  <2>1. /\ c \in 1 .. Len(cards) /\ r.seen \in RowType
        /\ r.text \in Texts \cup {Same} /\ r.dial \in Dials \cup {Same}
    BY <1>2 DEF UpdateRequest
  <2>2. r.seen.text \in Texts /\ r.seen.dial \in Dials
    BY <2>1 DEF RowType
  <2>3. newText \in Texts /\ newDial \in Dials
    BY <2>1, <2>2 DEF Pick
  <2>4. cards[c] \in RowType /\ told[c] \in RowType
    BY <2>1, <1>2 DEF CardsTyped
  <2> QED
    BY <2>1, <2>3, <2>4, <1>2, CardsKnown
<1>4. PICK row \in RowType : /\ cards' = [cards EXCEPT ![c] = row]
                             /\ row.text = newText /\ row.dial = newDial
                             /\ row.origin = cards[c].origin /\ row.lane = cards[c].lane
                             /\ row.dismissed = cards[c].dismissed
  <2> DEFINE w == [cards[c] EXCEPT !.text = newText, !.dial = newDial]
  <2>1. /\ w \in RowType /\ w.text = newText /\ w.dial = newDial /\ w.origin = cards[c].origin
        /\ w.lane = cards[c].lane /\ w.dismissed = cards[c].dismissed
    BY <1>3 DEF RowType
  <2>2. cards' = [cards EXCEPT ![c] = w]
    BY <1>1, <1>2, <1>3 DEF Write, CardsTyped
  <2> HIDE DEF w
  <2> QED
    BY <2>1, <2>2
<1>5. PICK tale \in RowType :
        /\ told' = [told EXCEPT ![c] = tale]
        /\ tale.text = IF newText # r.seen.text THEN newText ELSE told[c].text
        /\ tale.dial = IF newDial # r.seen.dial THEN newDial ELSE told[c].dial
        /\ tale.origin = told[c].origin /\ tale.lane = told[c].lane
        /\ tale.dismissed = told[c].dismissed
  <2> DEFINE tx == IF newText # r.seen.text THEN newText ELSE told[c].text
             dl == IF newDial # r.seen.dial THEN newDial ELSE told[c].dial
             w == [told[c] EXCEPT !.text = tx, !.dial = dl]
  <2>1. told' = [told EXCEPT ![c].text = tx, ![c].dial = dl]
    BY <1>1, <1>2, <1>3 DEF Write, CardsTyped
  <2>2. tx \in Texts /\ dl \in Dials
    BY <1>3 DEF RowType
  <2>3. tx = (IF newText # r.seen.text THEN newText ELSE told[c].text)
    OBVIOUS
  <2>4. dl = (IF newDial # r.seen.dial THEN newDial ELSE told[c].dial)
    OBVIOUS
  <2> HIDE DEF tx, dl
  <2>5. /\ w \in RowType /\ w.text = tx /\ w.dial = dl /\ w.origin = told[c].origin
        /\ w.lane = told[c].lane /\ w.dismissed = told[c].dismissed
    BY <2>2, <1>3 DEF RowType
  <2>6. told' = [told EXCEPT ![c] = w]
    BY <2>1, <1>2, <1>3 DEF CardsTyped
  <2> HIDE DEF w
  <2> QED
    BY <2>3, <2>4, <2>5, <2>6
<1>6. tale.lane = row.lane
  BY <1>2, <1>3, <1>4, <1>5 DEF EventsTellTheCard
<1>7. ASSUME c \notin overlapped' PROVE tale = row
  <2>1. c \notin overlapped
    BY <1>1, <1>7 DEF Overlap
  <2>2. told[c] = cards[c]
    BY <2>1, <1>2, <1>3 DEF EventsTellTheCard
  <2>3. r.seen.text = cards[c].text /\ r.seen.dial = cards[c].dial
    BY <2>1, <1>1, <1>2, <1>3 DEF ReadsOK, InHand, Reads
  <2>4. tale.text = row.text /\ tale.dial = row.dial
    BY <2>2, <2>3, <1>4, <1>5
  <2> QED
    BY <2>2, <2>4, <1>4, <1>5 DEF RowType
<1> QED
  BY <1>1, <1>2, <1>3, <1>4, <1>5, <1>6, <1>7, CardWritten DEF CardsTyped

LEMMA CardsMove ==
    ASSUME CardsInv, NEW h \in Handlers, NEW c \in Rows, NEW lane \in Lanes, Move(h, c, lane)
    PROVE  CardsInv'
<1>1. /\ request[h] = Idle /\ served < MaxRequests /\ served' = served + 1
      /\ SetLane(c, lane) /\ Overlap(c, h) /\ request' = request
      /\ UNCHANGED << audit, issues, used, owned, adopted >>
  BY DEF Move, Serves, TokenSame
<1>2. CardsTyped /\ EventsTellTheCard /\ c \in 1 .. Len(cards) /\ Rows = 1 .. Len(cards)
  BY RequestIs, CardsKnown
<1>3. cards[c] \in RowType /\ told[c] \in RowType
  BY <1>2 DEF CardsTyped
<1>4. PICK gone \in BOOLEAN : gone = (lane = "done")
  OBVIOUS
<1>5. PICK row \in RowType : /\ cards' = [cards EXCEPT ![c] = row]
                             /\ row = [cards[c] EXCEPT !.lane = lane, !.dismissed = gone]
  <2>1. [cards[c] EXCEPT !.lane = lane, !.dismissed = gone] \in RowType
    BY <1>3 DEF RowType
  <2>2. cards' = [cards EXCEPT ![c] = [cards[c] EXCEPT !.lane = lane, !.dismissed = gone]]
    BY <1>1, <1>2, <1>3, <1>4 DEF SetLane, CardsTyped
  <2> QED
    BY <2>1, <2>2
<1>6. PICK tale \in RowType : /\ told' = [told EXCEPT ![c] = tale]
                              /\ tale = [told[c] EXCEPT !.lane = lane, !.dismissed = gone]
  <2>1. [told[c] EXCEPT !.lane = lane, !.dismissed = gone] \in RowType
    BY <1>3 DEF RowType
  <2>2. told' = [told EXCEPT ![c] = [told[c] EXCEPT !.lane = lane, !.dismissed = gone]]
    BY <1>1, <1>2, <1>3, <1>4 DEF SetLane, CardsTyped
  <2> QED
    BY <2>1, <2>2
<1>7. row.origin = cards[c].origin /\ row.lane = lane /\ tale.lane = lane
  BY <1>3, <1>5, <1>6 DEF RowType
<1>8. c \notin overlapped' => tale = row
  BY <1>1, <1>2, <1>5, <1>6 DEF Overlap, EventsTellTheCard
<1>9. request' = [request EXCEPT ![h] = Idle]
  BY <1>1, <1>2 DEF CardsTyped
<1>10. served' \in 0 .. MaxRequests
  BY <1>1, <1>2, CardsKnown DEF CardsTyped
<1> QED
  BY <1>1, <1>2, <1>5, <1>6, <1>7, <1>8, <1>9, <1>10, CardWritten

LEMMA CardsCreate ==
    ASSUME CardsInv, NEW h \in Callers, NEW text \in Texts, NEW dial \in Dials,
           NEW lane \in Lanes, Create(h, text, dial, lane)
    PROVE  CardsInv'
<1> DEFINE row == Row(Origin(h, NoRef), text, dial, lane)
<1>1. /\ request[h] = Idle /\ served < MaxRequests /\ served' = served + 1
      /\ Len(cards) < MaxCards /\ Insert(row) /\ request' = request
      /\ UNCHANGED << audit, issues, used, owned, adopted, overlapped >>
  BY DEF Create, Serves, TokenSame
<1>2. /\ h \in Handlers /\ CardsTyped /\ CountOK /\ Len(cards) \in Nat /\ Idle.at = "idle"
      /\ MaxRequests \in Nat
  BY RequestIs, CardsKnown DEF Handlers
<1>3. row \in RowType /\ row.origin[2] = NoRef
  BY DEF Row, RowType, Origin
<1>4. Unique(row.origin)
  BY <1>3 DEF Unique
<1>5. request' = [request EXCEPT ![h] = Idle] /\ Idle \in Requests(Len(cards) + 1)
  BY <1>1, <1>2 DEF CardsTyped, Requests
<1>6. Len(cards') = Len(cards) + 1
  BY <1>1, <1>2, <1>3, RowAppended DEF Insert, CardsTyped
<1>7. CountOK'
  <2>1. Passed' = Passed /\ Inserted' = Inserted
    BY <1>1 DEF Passed, Inserted
  <2>2. Len(cards') \in Nat /\ Len(cards') >= Len(cards)
    BY <1>2, <1>6
  <2> QED
    BY <2>1, <2>2, <1>1, <1>2, CountFrame
<1>8. served' \in 0 .. MaxRequests
  BY <1>1, <1>2 DEF CardsTyped
<1> HIDE DEF row
<1> QED
  BY <1>1, <1>2, <1>3, <1>4, <1>5, <1>7, <1>8, CardAdded

\* What the lookup of an origin makes of a request.
LooksUp(h, r) ==
    /\ r \in Requests(Len(cards))
    /\ r.at \in {"idle", "budget", "insert", "refresh"}
    /\ r.at = "budget" => h \in AgentCalls
    /\ r.at = "insert" => h \notin AgentCalls
    /\ r.at = "refresh" => r.card \in Rows /\ Reads(r, r.card, cards[r.card])

LEMMA LookupIs ==
    ASSUME CardsInv, NEW h \in Handlers, NEW ref \in Refs \cup {NoRef}, NEW text \in Texts
    PROVE  LooksUp(h, Lookup(h, ref, text))
<1> DEFINE found == ByOrigin(Origin(h, ref))
<1>1. Idle \in Requests(Len(cards)) /\ Idle.at = "idle" /\ Rows = 1 .. Len(cards)
  BY RequestIs, CardsKnown
<1>2. CASE ref = NoRef \/ found = {}
  <2> DEFINE f == Filing(h, ref, text)
  <2>1. /\ f \in FilingRequest /\ (f.at = "budget" => h \in AgentCalls)
        /\ (f.at = "insert" => h \notin AgentCalls) /\ f.at \in {"budget", "insert"}
    BY DEF Filing, FilingRequest, Origins, Origin
  <2>2. Lookup(h, ref, text) = f
    BY <1>2 DEF Lookup
  <2> HIDE DEF f
  <2>3. f \in Requests(Len(cards))
    BY <2>1 DEF Requests
  <2>4. LooksUp(h, f)
    BY <2>1, <2>3 DEF LooksUp
  <2> QED
    BY <2>2, <2>4
<1>3. CASE ~(ref = NoRef \/ found = {})
  <2>1. PICK c \in found : c = CHOOSE d \in found : TRUE
    BY <1>3
  <2>2. Lookup(h, ref, text) =
          IF cards[c].dismissed THEN Idle ELSE [at |-> "refresh", card |-> c, text |-> text]
    BY <2>1, <1>3 DEF Lookup
  <2>3. c \in Rows
    BY DEF ByOrigin
  <2>4. CASE cards[c].dismissed
    <3>1. LooksUp(h, Idle)
      BY <1>1 DEF LooksUp
    <3> QED
      BY <2>2, <2>4, <3>1
  <2>5. CASE ~cards[c].dismissed
    <3> DEFINE r == [at |-> "refresh", card |-> c, text |-> text]
    <3>1. r \in RefreshRequest(Len(cards)) /\ r.at = "refresh" /\ r.card = c
      BY <2>3, <1>1 DEF RefreshRequest
    <3>2. Lookup(h, ref, text) = r
      BY <2>2, <2>5
    <3> HIDE DEF r
    <3>3. r \in Requests(Len(cards)) /\ Reads(r, c, cards[c])
      BY <3>1, <2>5 DEF Requests, Reads
    <3>4. LooksUp(h, r)
      BY <3>1, <3>3, <2>3 DEF LooksUp
    <3> QED
      BY <3>2, <3>4
  <2> QED
    BY <2>4, <2>5
<1> QED
  BY <1>2, <1>3

\* A handler looks up an origin.
LEMMA CardsLook ==
    ASSUME CardsInv, NEW h \in Handlers, NEW ref \in Refs \cup {NoRef}, NEW text \in Texts,
           request[h] = Idle, request' = [request EXCEPT ![h] = Lookup(h, ref, text)],
           UNCHANGED << audit, cards, told, used, owned, adopted, overlapped >>,
           issues' \in [Handlers -> Seq(Issue)], served' \in 0 .. MaxRequests
    PROVE  CardsInv'
<1>1. /\ CardsTyped /\ CountOK /\ Len(cards) \in Nat /\ (h \in AgentCalls => h \notin Callers)
  BY RequestIs, CardsKnown
<1>2. PICK r \in Requests(Len(cards)) :
        /\ r = Lookup(h, ref, text)
        /\ r.at \in {"idle", "budget", "insert", "refresh"}
        /\ r.at = "budget" => h \in AgentCalls
        /\ r.at = "insert" => h \notin AgentCalls
        /\ r.at = "refresh" => r.card \in Rows /\ Reads(r, r.card, cards[r.card])
  BY LookupIs DEF LooksUp
<1>3. request' = [request EXCEPT ![h] = r]
  BY <1>2
<1>4. Passed' \subseteq Passed /\ Inserted' \subseteq Inserted
  BY <1>1, <1>2, <1>3 DEF Passed, Inserted, CardsTyped, Handlers
<1>5. CountOK'
  BY <1>1, <1>4, CountFrame
<1> QED
  BY <1>1, <1>2, <1>3, <1>5, RequestStep DEF CardsTyped

LEMMA CardsFileLookup ==
    ASSUME CardsInv, NEW h \in Handlers, NEW ref \in Refs \cup {NoRef}, NEW text \in Texts,
           FileLookup(h, ref, text)
    PROVE  CardsInv'
<1>1. /\ request[h] = Idle /\ served < MaxRequests /\ served' = served + 1
      /\ request' = [request EXCEPT ![h] = Lookup(h, ref, text)]
      /\ UNCHANGED << audit, cards, told, issues, used, owned, adopted, overlapped >>
  BY DEF FileLookup, TakeUp, Serves, TokenSame
<1>2. CardsTyped /\ MaxRequests \in Nat
  BY RequestIs, CardsKnown
<1>3. served' \in 0 .. MaxRequests /\ issues' \in [Handlers -> Seq(Issue)]
  BY <1>1, <1>2 DEF CardsTyped
<1> QED
  BY <1>1, <1>3, CardsLook

LEMMA CardsImport ==
    ASSUME CardsInv, NEW h \in Handlers, NEW list \in IssueLists, Import(h, list)
    PROVE  CardsInv'
<1>1. /\ request[h] = Idle /\ served + Len(list) <= MaxRequests
      /\ served' = served + Len(list)
      /\ issues' = [issues EXCEPT ![h] = list] /\ request' = request
      /\ UNCHANGED << audit, cards, told, used, owned, adopted, overlapped >>
  BY DEF Import, TokenSame
<1>2. /\ CardsTyped /\ CountOK /\ MaxRequests \in Nat /\ Len(cards) \in Nat
      /\ Idle \in Requests(Len(cards)) /\ Idle.at = "idle"
  BY RequestIs, CardsKnown
<1>3. list \in Seq(Issue)
  <2>1. PICK n \in 1 .. Cardinality(Refs) : list \in [1 .. n -> Issue]
    BY DEF IssueLists
  <2> QED
    BY <2>1
<1>4. issues' \in [Handlers -> Seq(Issue)]
  BY <1>1, <1>2, <1>3 DEF CardsTyped
<1>5. request' = [request EXCEPT ![h] = Idle]
  BY <1>1, <1>2 DEF CardsTyped
<1>6. served' \in 0 .. MaxRequests
  <2>1. Len(list) \in Nat /\ served \in 0 .. MaxRequests
    BY <1>2, <1>3 DEF CardsTyped
  <2> QED
    BY <2>1, <1>1, <1>2
<1>7. Passed' = Passed /\ Inserted' = Inserted
  BY <1>1 DEF Passed, Inserted
<1>8. CountOK'
  BY <1>1, <1>2, <1>7, CountFrame
<1> QED
  BY <1>1, <1>2, <1>4, <1>5, <1>6, <1>8, RequestStep DEF CardsTyped

LEMMA CardsNextIssue ==
    ASSUME CardsInv, NEW h \in Handlers, NextIssue(h)
    PROVE  CardsInv'
<1>1. /\ request[h] = Idle /\ issues[h] # << >>
      /\ issues' = [issues EXCEPT ![h] = Tail(issues[h])]
      /\ request' = [request EXCEPT ![h] = Lookup(h, Head(issues[h]).ref, Head(issues[h]).text)]
      /\ UNCHANGED << audit, cards, told, served, used, owned, adopted, overlapped >>
  BY DEF NextIssue, Goes, TokenSame
<1>2. CardsTyped
  BY RequestIs
<1>3. issues[h] \in Seq(Issue)
  BY <1>2 DEF CardsTyped
<1>4. Head(issues[h]) \in Issue /\ Tail(issues[h]) \in Seq(Issue)
  BY <1>1, <1>3
<1>5. Head(issues[h]).ref \in Refs \cup {NoRef} /\ Head(issues[h]).text \in Texts
  BY <1>4 DEF Issue
<1>6. issues' \in [Handlers -> Seq(Issue)] /\ served' \in 0 .. MaxRequests
  BY <1>1, <1>2, <1>4 DEF CardsTyped
<1>7. PICK ref \in Refs \cup {NoRef}, text \in Texts :
        ref = Head(issues[h]).ref /\ text = Head(issues[h]).text
  BY <1>5
<1>8. request' = [request EXCEPT ![h] = Lookup(h, ref, text)]
  BY <1>1, <1>7
<1> QED
  BY <1>1, <1>6, <1>8, CardsLook

LEMMA CardsRefresh ==
    ASSUME CardsInv, NEW h \in Handlers, Refresh(h)
    PROVE  CardsInv'
<1> DEFINE q == request[h]
           r == [at |-> "update", by |-> "refile", card |-> q.card, seen |-> cards[q.card],
                 text |-> q.text, dial |-> Same]
<1>1. /\ q.at = "refresh" /\ request' = [request EXCEPT ![h] = r]
      /\ UNCHANGED << audit, cards, told, issues, served, used, owned, adopted, overlapped >>
  BY DEF Refresh, Goes, TokenSame
<1>2. /\ CardsTyped /\ ReadsOK /\ CountOK /\ q \in RefreshRequest(Len(cards)) /\ Len(cards) \in Nat
  BY <1>1, RequestIs, CardsKnown
<1>3. q.card \in 1 .. Len(cards) /\ q.text \in Texts
  BY <1>2 DEF RefreshRequest
<1>4. cards[q.card] \in RowType
  BY <1>2, <1>3 DEF CardsTyped
<1>5. q.card \notin overlapped => ~cards[q.card].dismissed
  BY <1>1, <1>2, <1>3 DEF ReadsOK, InHand, Reads
<1>6. /\ r \in UpdateRequest(Len(cards)) /\ r.at = "update" /\ r.card = q.card
      /\ r.seen = cards[q.card]
  BY <1>3, <1>4 DEF UpdateRequest
<1> HIDE DEF r
<1>7. r \in Requests(Len(cards)) /\ (r.card \notin overlapped => Reads(r, r.card, cards[r.card]))
  BY <1>5, <1>6 DEF Requests, Reads
<1>8. Passed' \subseteq Passed /\ Inserted' \subseteq Inserted
  BY <1>1, <1>2, <1>6 DEF Passed, Inserted, CardsTyped, Handlers
<1>9. CountOK'
  BY <1>1, <1>2, <1>8, CountFrame
<1> QED
  BY <1>1, <1>2, <1>6, <1>7, <1>9, RequestStep DEF CardsTyped

LEMMA CardsCheckBudget ==
    ASSUME CardsInv, NEW h \in Handlers, CheckBudget(h)
    PROVE  CardsInv'
<1>1. /\ request[h].at = "budget"
      /\ request' = [request EXCEPT ![h] = IF BudgetOk THEN [request[h] EXCEPT !.at = "insert"]
                                           ELSE Idle]
      /\ UNCHANGED << audit, cards, told, issues, served, used, owned, adopted, overlapped >>
  BY DEF CheckBudget, Goes, TokenSame
<1>2. /\ CardsTyped /\ CountOK /\ request[h] \in FilingRequest /\ h \in AgentCalls
      /\ h \notin Callers /\ Idle \in Requests(Len(cards)) /\ Idle.at = "idle" /\ used \in Nat
  BY <1>1, RequestIs DEF CardsTyped
<1>3. CASE ~BudgetOk
  <2>1. request' = [request EXCEPT ![h] = Idle]
    BY <1>1, <1>3
  <2>2. Passed' \subseteq Passed /\ Inserted' \subseteq Inserted
    BY <2>1, <1>2 DEF Passed, Inserted, CardsTyped, Handlers
  <2>3. CountOK'
    BY <2>2, <1>1, <1>2, CountFrame, CardsKnown
  <2> QED
    BY <2>1, <2>3, <1>1, <1>2, RequestStep DEF CardsTyped
<1>4. CASE BudgetOk
  <2>1. PICK r \in FilingRequest : /\ request' = [request EXCEPT ![h] = r] /\ r.at = "insert"
    <3> DEFINE w == [request[h] EXCEPT !.at = "insert"]
    <3>1. w \in FilingRequest /\ w.at = "insert"
      BY <1>2 DEF FilingRequest
    <3>2. request' = [request EXCEPT ![h] = w]
      BY <1>1, <1>4
    <3> HIDE DEF w
    <3> QED
      BY <3>1, <3>2
  <2>2. Passed' = Passed \cup {h} /\ Inserted' = Inserted /\ h \notin Passed
    BY <2>1, <1>1, <1>2 DEF Passed, Inserted, CardsTyped, Handlers
  <2>3. /\ IsFiniteSet(AgentCalls) /\ IsFiniteSet(Passed)
        /\ Cardinality(Passed) \in Nat /\ Cardinality(AgentCalls) \in Nat /\ CardBudget \in Nat
    BY <1>2, CardsKnown
  <2>4. Cardinality(Passed') = Cardinality(Passed) + 1
    BY <2>2, <2>3, FS_AddElement
  <2>5. Passed' \subseteq AgentCalls
    BY <2>2, <1>2 DEF Passed
  <2>6. Cardinality(Passed) + 1 <= Cardinality(AgentCalls)
    BY <2>3, <2>4, <2>5, FS_Subset
  <2>7. used < CardBudget
    BY <1>4 DEF BudgetOk
  <2>8. MostFiled = CardBudget + Cardinality(AgentCalls) - 1
    BY <2>3, <2>7, <1>2 DEF MostFiled
  <2>9. used + (Cardinality(Passed) + 1) <= MostFiled
    BY <2>3, <2>6, <2>7, <2>8, <1>2
  <2>10. CountOK'
    BY <2>2, <2>4, <2>9, <1>1, <1>2 DEF CountOK, MostFiled
  <2>11. r \in Requests(Len(cards))
    BY DEF Requests
  <2> QED
    BY <2>1, <2>10, <2>11, <1>1, <1>2, RequestStep DEF CardsTyped
<1> QED
  BY <1>3, <1>4

LEMMA CardsFileInsert ==
    ASSUME CardsInv, NEW h \in Handlers, FileInsert(h)
    PROVE  CardsInv'
<1> DEFINE q == request[h]
<1>1. /\ q.at = "insert" /\ Len(cards) < MaxCards
      /\ UNCHANGED << audit, served, used, owned, adopted, overlapped >>
  BY DEF FileInsert, TokenSame
<1>2. /\ CardsTyped /\ CountOK /\ q \in FilingRequest /\ Len(cards) \in Nat
      /\ Idle.at = "idle" /\ Idle \in Requests(Len(cards))
  BY <1>1, RequestIs, CardsKnown
<1>3. CASE ~Unique(q.origin)
  <2>1. /\ request' = [request EXCEPT ![h] = Idle] /\ issues' = [issues EXCEPT ![h] = << >>]
        /\ UNCHANGED << cards, told >>
    BY <1>3 DEF FileInsert, Finish, Goes
  <2>2. Passed' \subseteq Passed /\ Inserted' \subseteq Inserted
    BY <2>1, <1>2 DEF Passed, Inserted, CardsTyped, Handlers
  <2>3. CountOK'
    BY <2>1, <2>2, <1>1, <1>2, CountFrame
  <2>4. issues' \in [Handlers -> Seq(Issue)]
    BY <2>1, <1>2 DEF CardsTyped
  <2> QED
    BY <2>1, <2>3, <2>4, <1>1, <1>2, RequestStep DEF CardsTyped
<1>4. CASE Unique(q.origin)
  <2>1. PICK dial \in Dials, lane \in Lanes : Insert(Row(q.origin, q.text, dial, lane))
    BY <1>4 DEF FileInsert
  <2>2. /\ request' = [request EXCEPT ![h] = IF h \in AgentCalls
                           THEN [at |-> "record", card |-> Len(cards) + 1] ELSE Idle]
        /\ UNCHANGED issues
    BY <1>4 DEF FileInsert, Goes
  <2>3. PICK row \in RowType : Insert(row) /\ row.origin = q.origin
    <3> DEFINE w == Row(q.origin, q.text, dial, lane)
    <3>1. w \in RowType /\ w.origin = q.origin
      BY <1>2 DEF Row, RowType, FilingRequest, Origins
    <3> HIDE DEF w
    <3> QED
      BY <2>1, <3>1 DEF w
  <2>4. Len(cards') = Len(cards) + 1
    BY <2>3, <1>2, RowAppended DEF Insert, CardsTyped
  <2>5. CASE h \notin AgentCalls
    <3>1. request' = [request EXCEPT ![h] = Idle]
      BY <2>2, <2>5
    <3>2. Passed' \subseteq Passed /\ Inserted' \subseteq Inserted
      BY <3>1, <1>2 DEF Passed, Inserted, CardsTyped, Handlers
    <3>3. Len(cards') \in Nat /\ Len(cards') >= Len(cards)
      BY <2>4, <1>2
    <3>4. CountOK'
      BY <3>2, <3>3, <1>1, <1>2, CountFrame
    <3>5. Idle \in Requests(Len(cards) + 1)
      BY DEF Requests
    <3> QED
      BY <3>1, <3>4, <3>5, <2>2, <2>3, <1>1, <1>2, <1>4, CardAdded DEF CardsTyped
  <2>6. CASE h \in AgentCalls
    <3> DEFINE r == [at |-> "record", card |-> Len(cards) + 1]
    <3>1. r \in FiledRequest(Len(cards) + 1) /\ r.at = "record"
      BY <1>2 DEF FiledRequest
    <3>2. request' = [request EXCEPT ![h] = r]
      BY <2>2, <2>6
    <3> HIDE DEF r
    <3>3. r \in Requests(Len(cards) + 1) /\ h \notin Callers
      BY <3>1, <2>6, <1>2, CardsKnown DEF Requests
    <3>4. Passed' = Passed /\ Inserted' = Inserted \cup {h} /\ h \notin Inserted
      BY <3>1, <3>2, <2>6, <1>1, <1>2 DEF Passed, Inserted, CardsTyped, Handlers
    <3>5. IsFiniteSet(Inserted) /\ Cardinality(Inserted) \in Nat /\ used \in Nat
      BY <1>2, CardsKnown DEF CardsTyped
    <3>6. Cardinality(Inserted') = Cardinality(Inserted) + 1
      BY <3>4, <3>5, FS_AddElement
    <3>7. used + Cardinality(Inserted) <= Len(cards)
      BY <1>2 DEF CountOK
    <3>8. used + (Cardinality(Inserted) + 1) <= Len(cards) + 1
      BY <3>5, <3>7, <1>2
    <3>9. CountOK'
      BY <3>4, <3>6, <3>8, <2>4, <1>1, <1>2 DEF CountOK, MostFiled
    <3> QED
      BY <3>1, <3>2, <3>3, <3>9, <2>2, <2>3, <1>1, <1>2, <1>4, CardAdded DEF CardsTyped
  <2> QED
    BY <2>5, <2>6
<1> QED
  BY <1>3, <1>4

LEMMA CardsRecord ==
    ASSUME CardsInv, NEW h \in Handlers, Record(h)
    PROVE  CardsInv'
<1> DEFINE q == request[h]
           r == [at |-> "adopt", card |-> q.card]
<1>1. /\ q.at = "record" /\ used' = used + 1 /\ owned' = owned \cup {q.card}
      /\ request' = [request EXCEPT ![h] = r]
      /\ UNCHANGED << audit, cards, told, issues, served, adopted, overlapped >>
  BY DEF Record, Goes
<1>2. /\ CardsTyped /\ CountOK /\ q \in FiledRequest(Len(cards)) /\ Len(cards) \in Nat
      /\ h \in AgentCalls /\ h \notin Callers /\ used \in Nat
  BY <1>1, RequestIs, CardsKnown DEF CardsTyped
<1>3. q.card \in 1 .. Len(cards)
  BY <1>2 DEF FiledRequest
<1>4. r \in FiledRequest(Len(cards)) /\ r.at = "adopt"
  BY <1>3 DEF FiledRequest
<1> HIDE DEF r
<1>5. r \in Requests(Len(cards))
  BY <1>4 DEF Requests
<1>6. /\ Passed' = Passed \ {h} /\ Inserted' = Inserted \ {h} /\ h \in Passed /\ h \in Inserted
  BY <1>1, <1>2, <1>4 DEF Passed, Inserted, CardsTyped, Handlers
<1>7. /\ IsFiniteSet(Passed) /\ IsFiniteSet(Inserted) /\ IsFiniteSet(owned) /\ MostFiled \in Int
      /\ Cardinality(Passed) \in Nat /\ Cardinality(Inserted) \in Nat /\ Cardinality(owned) \in Nat
  BY <1>2, CardsKnown
<1>8. /\ Cardinality(Passed') = Cardinality(Passed) - 1
      /\ Cardinality(Inserted') = Cardinality(Inserted) - 1
  BY <1>6, <1>7, FS_RemoveElement
<1>9. Cardinality(owned') <= Cardinality(owned) + 1 /\ Cardinality(owned') \in Nat
  <2>1. PICK c \in 1 .. Len(cards) : owned' = owned \cup {c}
    BY <1>1, <1>3
  <2>2. Cardinality(owned') = IF c \in owned THEN Cardinality(owned) ELSE Cardinality(owned) + 1
    BY <2>1, <1>7, FS_AddElement
  <2> QED
    BY <2>2, <1>7
<1>10. /\ used + Cardinality(Passed) <= MostFiled /\ used + Cardinality(Inserted) <= Len(cards)
       /\ Cardinality(owned) <= used
  BY <1>2 DEF CountOK
<1>11. /\ used' + Cardinality(Passed') <= MostFiled /\ used' + Cardinality(Inserted') <= Len(cards)
       /\ Cardinality(owned') <= used'
  BY <1>1, <1>2, <1>7, <1>8, <1>9, <1>10
<1>12. CountOK'
  BY <1>1, <1>11 DEF CountOK, MostFiled
<1>13. used' \in Nat
  BY <1>1, <1>2
<1>14. owned' \subseteq 1 .. Len(cards)
  <2>1. owned \subseteq 1 .. Len(cards)
    BY <1>2 DEF CardsTyped
  <2> QED
    BY <2>1, <1>1, <1>3
<1> QED
  BY <1>1, <1>2, <1>4, <1>5, <1>12, <1>13, <1>14, RequestStep DEF CardsTyped

LEMMA CardsAdopt ==
    ASSUME CardsInv, NEW h \in Handlers, Adopt(h)
    PROVE  CardsInv'
<1> DEFINE q == request[h]
<1>1. /\ q.at = "adopt" /\ adopted' \in {q.card, adopted}
      /\ request' = [request EXCEPT ![h] = Idle]
      /\ UNCHANGED << audit, cards, told, issues, served, used, owned, overlapped >>
  BY DEF Adopt, Finish, Goes, FirstAdopted
<1>2. /\ CardsTyped /\ CountOK /\ q \in FiledRequest(Len(cards)) /\ Len(cards) \in Nat
      /\ Idle.at = "idle" /\ Idle \in Requests(Len(cards))
  BY <1>1, RequestIs, CardsKnown
<1>3. adopted' \in 0 .. Len(cards)
  BY <1>1, <1>2 DEF FiledRequest, CardsTyped
<1>4. Passed' \subseteq Passed /\ Inserted' \subseteq Inserted
  BY <1>1, <1>2 DEF Passed, Inserted, CardsTyped, Handlers
<1>5. CountOK'
  BY <1>1, <1>2, <1>4, CountFrame
<1> QED
  BY <1>1, <1>2, <1>3, <1>5, RequestStep DEF CardsTyped

LEMMA CardsSteps ==
    ASSUME CardsInv, CardsNext \/ UNCHANGED cardVars
    PROVE  CardsInv'
<1>1. CASE UNCHANGED cardVars
  <2>1. UNCHANGED << audit, cards, told, request, issues, served, used, owned, adopted, overlapped >>
    BY <1>1 DEF cardVars
  <2>2. /\ CardsTyped' /\ OneCardPerOrigin' /\ EventsTellTheCard'
    BY <2>1 DEF CardsInv, CardsTyped, OneCardPerOrigin, EventsTellTheCard, Rows
  <2>3. ReadsOK' /\ CountOK'
    BY <2>1 DEF CardsInv, ReadsOK, InHand, CountOK, Passed, Inserted, MostFiled
  <2> QED
    BY <2>2, <2>3 DEF CardsInv
<1>2. CASE CardsNext
  <2>1. PICK h \in Handlers :
          \/ \E c \in Rows, text \in Texts \cup {Same}, dial \in Dials \cup {Same} :
                 UpdateRead(h, c, text, dial)
          \/ \E c \in Rows, lane \in Lanes : Move(h, c, lane)
          \/ \E text \in Texts, dial \in Dials, lane \in Lanes :
                 h \in Callers /\ Create(h, text, dial, lane)
          \/ \E ref \in Refs \cup {NoRef}, text \in Texts :
                 h \in AgentCalls /\ FileLookup(h, ref, text)
          \/ \E list \in IssueLists : h \in Callers /\ Import(h, list)
          \/ NextIssue(h) \/ UpdateWrite(h) \/ Refresh(h) \/ CheckBudget(h)
          \/ FileInsert(h) \/ Record(h) \/ Adopt(h)
    BY <1>2 DEF CardsNext
  <2>2. CASE \E c \in Rows, text \in Texts \cup {Same}, dial \in Dials \cup {Same} :
                 UpdateRead(h, c, text, dial)
    BY <2>2, CardsUpdateRead
  <2>3. CASE \E c \in Rows, lane \in Lanes : Move(h, c, lane)
    BY <2>3, CardsMove
  <2>4. CASE \E text \in Texts, dial \in Dials, lane \in Lanes :
                 h \in Callers /\ Create(h, text, dial, lane)
    BY <2>4, CardsCreate
  <2>5. CASE \E ref \in Refs \cup {NoRef}, text \in Texts :
                 h \in AgentCalls /\ FileLookup(h, ref, text)
    BY <2>5, CardsFileLookup
  <2>6. CASE \E list \in IssueLists : h \in Callers /\ Import(h, list)
    BY <2>6, CardsImport
  <2>7. CASE NextIssue(h)
    BY <2>7, CardsNextIssue
  <2>8. CASE UpdateWrite(h)
    BY <2>8, CardsUpdateWrite
  <2>9. CASE Refresh(h)
    BY <2>9, CardsRefresh
  <2>10. CASE CheckBudget(h)
    BY <2>10, CardsCheckBudget
  <2>11. CASE FileInsert(h)
    BY <2>11, CardsFileInsert
  <2>12. CASE Record(h)
    BY <2>12, CardsRecord
  <2>13. CASE Adopt(h)
    BY <2>13, CardsAdopt
  <2> QED
    BY <2>1, <2>2, <2>3, <2>4, <2>5, <2>6, <2>7, <2>8, <2>9, <2>10, <2>11, <2>12, <2>13
<1> QED
  BY <1>1, <1>2

LEMMA CardsHold == CardsInv => CardsTypeOK /\ CardsAgree
<1> SUFFICES ASSUME CardsInv PROVE CardsTypeOK /\ CardsAgree
  OBVIOUS
<1>1. CardsTyped /\ CountOK /\ OneCardPerOrigin /\ EventsTellTheCard
  BY DEF CardsInv
<1>2. /\ Len(cards) \in Nat /\ MaxCards \in Nat /\ used \in Nat /\ MostFiled \in Int
      /\ Cardinality(Passed) \in Nat /\ Cardinality(Inserted) \in Nat
      /\ Cardinality(owned) \in Nat /\ Rows = 1 .. Len(cards)
  BY <1>1, CardsKnown DEF CardsTyped
<1>3. BudgetRoughlyHolds
  <2>1. Cardinality(owned) <= MostFiled
    BY <1>1, <1>2 DEF CountOK
  <2> QED
    BY <2>1 DEF BudgetRoughlyHolds, MostFiled
<1>4. used \in 0 .. MaxCards
  <2>1. used + Cardinality(Inserted) <= Len(cards) /\ Len(cards) <= MaxCards
    BY <1>1 DEF CountOK, CardsTyped
  <2> QED
    BY <2>1, <1>2
<1>5. \A h \in Handlers : request[h].at \in
          {"idle", "update", "refresh", "budget", "insert", "record", "adopt"}
  <2> SUFFICES ASSUME NEW h \in Handlers
               PROVE  request[h].at \in
                        {"idle", "update", "refresh", "budget", "insert", "record", "adopt"}
    OBVIOUS
  <2>1. request[h] \in Requests(Len(cards))
    BY <1>1 DEF CardsTyped
  <2> QED
    BY <2>1 DEF Requests, Idle, UpdateRequest, RefreshRequest, FilingRequest, FiledRequest
<1>6. CardsTypeOK
  <2>1. /\ audit \in BOOLEAN /\ cards \in Seq(RowType) /\ told \in Seq(RowType)
        /\ Len(cards) = Len(told) /\ Len(cards) <= MaxCards /\ issues \in [Handlers -> Seq(Issue)]
        /\ served \in 0 .. MaxRequests
    BY <1>1 DEF CardsTyped
  <2>2. owned \subseteq Rows /\ adopted \in {NoCardYet} \cup Rows /\ overlapped \subseteq Rows
    BY <1>1, <1>2 DEF CardsTyped, NoCardYet
  <2> QED
    BY <2>1, <2>2, <1>4, <1>5 DEF CardsTypeOK
<1> QED
  BY <1>1, <1>3, <1>6 DEF CardsAgree

\* A step changes the text of a dismissed card that nobody else had in hand only
\* for a human's patch.
DismissalStep ==
    \A c \in Rows : cards[c].dismissed /\ c \notin overlapped' /\ cards'[c].text # cards[c].text
        => \E h \in Handlers : InHand(c) = {h} /\ request[h].by = "patch"

AdoptionStep == adopted # NoCardYet => adopted' = adopted

\* Only a write of update_card changes a card's text.
LEMMA TextsChange ==
    ASSUME CardsInv, CardsNext
    PROVE  \/ \E h \in Handlers : UpdateWrite(h)
           \/ \A c \in Rows : cards'[c].text = cards[c].text
<1>1. CardsTyped /\ cards \in Seq(RowType) /\ Rows = 1 .. Len(cards)
  BY CardsKnown DEF CardsInv, CardsTyped
<1>2. PICK h \in Handlers :
          \/ \E c \in Rows, text \in Texts \cup {Same}, dial \in Dials \cup {Same} :
                 UpdateRead(h, c, text, dial)
          \/ \E c \in Rows, lane \in Lanes : Move(h, c, lane)
          \/ \E text \in Texts, dial \in Dials, lane \in Lanes :
                 h \in Callers /\ Create(h, text, dial, lane)
          \/ \E ref \in Refs \cup {NoRef}, text \in Texts :
                 h \in AgentCalls /\ FileLookup(h, ref, text)
          \/ \E list \in IssueLists : h \in Callers /\ Import(h, list)
          \/ NextIssue(h) \/ UpdateWrite(h) \/ Refresh(h) \/ CheckBudget(h)
          \/ FileInsert(h) \/ Record(h) \/ Adopt(h)
  BY DEF CardsNext
<1>3. ASSUME UNCHANGED cards
      PROVE  \A c \in Rows : cards'[c].text = cards[c].text
  BY <1>3
<1>4. ASSUME NEW row, Insert(row)
      PROVE  \A c \in Rows : cards'[c].text = cards[c].text
  <2>1. cards' = Append(cards, row)
    BY <1>4 DEF Insert
  <2>2. \A c \in 1 .. Len(cards) : cards'[c] = cards[c]
    BY <2>1, <1>1
  <2> QED
    BY <2>2, <1>1
<1>5. CASE \E c \in Rows, text \in Texts \cup {Same}, dial \in Dials \cup {Same} :
               UpdateRead(h, c, text, dial)
  BY <1>5, <1>3 DEF UpdateRead
<1>6. CASE \E c \in Rows, lane \in Lanes : Move(h, c, lane)
  <2>1. PICK c \in Rows, lane \in Lanes : Move(h, c, lane)
    BY <1>6
  <2>2. cards' = [cards EXCEPT ![c].lane = lane, ![c].dismissed = (lane = "done")]
    BY <2>1 DEF Move, SetLane
  <2>3. PICK gone \in BOOLEAN : gone = (lane = "done")
    OBVIOUS
  <2>4. cards' = [cards EXCEPT ![c] = [cards[c] EXCEPT !.lane = lane, !.dismissed = gone]]
    BY <2>2, <2>3, <1>1
  <2>5. cards[c] \in RowType
    BY <1>1
  <2>6. PICK row \in RowType : row.text = cards[c].text /\ cards' = [cards EXCEPT ![c] = row]
    <3> DEFINE w == [cards[c] EXCEPT !.lane = lane, !.dismissed = gone]
    <3>1. w \in RowType /\ w.text = cards[c].text
      BY <2>5 DEF RowType
    <3> HIDE DEF w
    <3> QED
      BY <3>1, <2>4 DEF w
  <2>7. \A d \in Rows : cards'[d] = IF d = c THEN row ELSE cards[d]
    BY <2>6, <1>1
  <2> QED
    BY <2>6, <2>7
<1>7. CASE \E text \in Texts, dial \in Dials, lane \in Lanes :
               h \in Callers /\ Create(h, text, dial, lane)
  BY <1>7, <1>4 DEF Create
<1>8. CASE \/ \E ref \in Refs \cup {NoRef}, text \in Texts :
                  h \in AgentCalls /\ FileLookup(h, ref, text)
           \/ \E list \in IssueLists : h \in Callers /\ Import(h, list)
  BY <1>8, <1>3 DEF FileLookup, Import
<1>9. CASE NextIssue(h) \/ Refresh(h) \/ CheckBudget(h) \/ Record(h) \/ Adopt(h)
  BY <1>9, <1>3 DEF NextIssue, Refresh, CheckBudget, Record, Adopt
<1>10. CASE FileInsert(h)
  <2>1. (\E row : Insert(row)) \/ UNCHANGED cards
    BY <1>10 DEF FileInsert
  <2> QED
    BY <2>1, <1>3, <1>4
<1> QED
  BY <1>2, <1>5, <1>6, <1>7, <1>8, <1>9, <1>10

LEMMA CardsStandStep ==
    ASSUME CardsInv, CardsNext \/ UNCHANGED cardVars
    PROVE  DismissalStep /\ AdoptionStep
<1>1. CASE UNCHANGED cardVars
  BY <1>1 DEF cardVars, DismissalStep, AdoptionStep
<1>2. CASE CardsNext
  <2>1. AdoptionStep
    BY <1>2 DEF CardsNext, AdoptionStep, UpdateRead, Move, Create, FileLookup, Import, NextIssue,
                UpdateWrite, Refresh, CheckBudget, FileInsert, Record, Adopt, FirstAdopted, TokenSame
  <2>2. DismissalStep
    <3> SUFFICES ASSUME NEW c \in Rows, cards[c].dismissed, c \notin overlapped',
                        cards'[c].text # cards[c].text
                 PROVE  \E h \in Handlers : InHand(c) = {h} /\ request[h].by = "patch"
      BY DEF DismissalStep
    <3>1. PICK h \in Handlers : UpdateWrite(h)
      BY <1>2, TextsChange
    <3>2. /\ request[h].at = "update" /\ Overlap(request[h].card, h)
          /\ Write(request[h].card, request[h].seen, request[h].text, request[h].dial)
      BY <3>1 DEF UpdateWrite
    <3>3. /\ request[h] \in UpdateRequest(Len(cards)) /\ Rows = 1 .. Len(cards) /\ ReadsOK
          /\ cards \in Seq(RowType)
      BY <3>2, RequestIs, CardsKnown DEF CardsInv, CardsTyped
    <3>4. request[h].card = c
      <4>1. PICK t, d : cards' = [cards EXCEPT ![request[h].card].text = t,
                                               ![request[h].card].dial = d]
        BY <3>2 DEF Write
      <4>2. request[h].card # c => cards'[c] = cards[c]
        BY <4>1, <3>3
      <4> QED
        BY <4>2
    <3>5. h \in InHand(c)
      BY <3>2, <3>4 DEF InHand
    <3>6. InHand(c) = {h} /\ c \notin overlapped
      BY <3>2, <3>4, <3>5 DEF Overlap
    <3>7. request[h].by # "refile"
      BY <3>2, <3>3, <3>5, <3>6 DEF ReadsOK, Reads
    <3>8. request[h].by = "patch"
      BY <3>3, <3>7 DEF UpdateRequest
    <3> QED
      BY <3>6, <3>8
  <2> QED
    BY <2>1, <2>2
<1> QED
  BY <1>1, <1>2

--------------------------------------------------------------------------------
(* The knowledge base.                                                         *)

Saying     == CutOff .. MaxAdds + MaxSaves
NoteFiles  == [NoteIds -> Saying]
DigestText == 0 .. MaxSaves + 1
Pages      == [digest : DigestText, catalog : NoteFiles]
Running    == [at : {"open", "fill", "scan", "rebuild", "read", "truncate", "write", "record"},
               id : NoteIds, says : 0 .. MaxAdds, scan : NoteFiles, read : DigestText]
Counting   == [adds : 0 .. MaxAdds, saves : 0 .. MaxSaves, deaths : 0 .. MaxDeaths]

KnowTyped ==
    /\ notes \in NoteFiles /\ indexed \in NoteFiles /\ page \in Pages
    /\ adds \in [Adders -> {NoAdd} \cup Running]
    /\ counts \in Counting /\ digest \in DigestText /\ apart \in BOOLEAN
    /\ noted \in Nat /\ noted + Cardinality(Busy) <= counts.adds

AllAgree == indexed = notes /\ page.catalog = notes /\ page.digest = digest

\* How far a call has come that nothing crossed.
Come(r) ==
    /\ r.at \in {"open", "fill", "scan", "rebuild", "read"} => page.digest = digest
    /\ r.at \in {"rebuild", "read", "truncate", "write"} => r.scan = notes
    /\ r.at \in {"read", "truncate", "write"} => indexed = notes
    /\ r.at \in {"truncate", "write"} => r.read = digest
    /\ r.at = "record" => AllAgree

Alone ==
    ~apart => /\ \A a, b \in Busy : a = b
              /\ Busy = {} => AllAgree
              /\ \A a \in Busy : Come(adds[a])

KnowInv == KnowTyped /\ Alone

LEMMA KnowBounds ==
    /\ MaxAdds \in Nat /\ MaxSaves \in Nat /\ MaxDeaths \in Nat /\ IsFiniteSet(Adders)
    /\ IsFiniteSet(Busy) /\ Cardinality(Busy) \in Nat /\ NoNotes \in NoteFiles
    /\ 0 \in DigestText /\ 1 \in DigestText /\ EmptyPage \in Pages /\ NoAdd.at = "idle"
    /\ CutOff \in Saying /\ NoSuchNote \in Saying
<1>1. MaxAdds \in Nat /\ MaxSaves \in Nat /\ MaxDeaths \in Nat /\ IsFiniteSet(Adders)
  BY KnowledgeAssumption DEF KnowledgeAssumption
<1>2. IsFiniteSet(Busy)
  BY <1>1, FS_Subset DEF Busy
<1>3. Cardinality(Busy) \in Nat
  BY <1>2, FS_CardinalityType
<1>4. CutOff \in Saying /\ NoSuchNote \in Saying
  BY <1>1 DEF CutOff, NoSuchNote, Saying
<1>5. 0 \in DigestText /\ 1 \in DigestText
  BY <1>1 DEF DigestText
<1>6. NoNotes \in NoteFiles
  BY <1>4 DEF NoNotes, NoteFiles
<1>7. EmptyPage \in Pages
  BY <1>5, <1>6 DEF EmptyPage, Pages, NoDigest
<1>8. NoAdd.at = "idle"
  BY DEF NoAdd
<1> QED
  BY <1>1, <1>2, <1>3, <1>4, <1>5, <1>6, <1>7, <1>8

LEMMA KnowStart == KnowInit => KnowInv
<1> SUFFICES ASSUME KnowInit PROVE KnowInv
  OBVIOUS
<1>1. /\ notes = NoNotes /\ indexed = NoNotes /\ digest = 1 /\ noted = 0 /\ apart = FALSE
      /\ page = [EmptyPage EXCEPT !.digest = 1]
      /\ adds = [a \in Adders |-> NoAdd] /\ counts = [adds |-> 0, saves |-> 0, deaths |-> 0]
  BY DEF KnowInit
<1>2. page \in Pages /\ page.digest = 1 /\ page.catalog = NoNotes
  BY <1>1, KnowBounds DEF Pages, EmptyPage
<1>3. counts \in Counting /\ counts.adds = 0
  BY <1>1, KnowBounds DEF Counting
<1>4. Busy = {}
  BY <1>1, KnowBounds DEF Busy
<1>5. Cardinality(Busy) = 0
  BY <1>4, FS_EmptySet
<1>6. KnowTyped
  <2>1. adds \in [Adders -> {NoAdd} \cup Running]
    BY <1>1
  <2>2. noted \in Nat /\ noted + Cardinality(Busy) <= counts.adds
    BY <1>1, <1>3, <1>5
  <2> QED
    BY <2>1, <2>2, <1>1, <1>2, <1>3, KnowBounds DEF KnowTyped
<1>7. Alone
  BY <1>1, <1>2, <1>4 DEF Alone, AllAgree
<1> QED
  BY <1>6, <1>7 DEF KnowInv

LEMMA CallIs ==
    ASSUME KnowInv, NEW a \in Adders
    PROVE  /\ a \in Busy <=> adds[a].at # "idle"
           /\ a \in Busy => adds[a] \in Running
           /\ a \notin Busy => adds[a] = NoAdd
<1>1. adds[a] \in {NoAdd} \cup Running
  BY DEF KnowInv, KnowTyped
<1>2. \A r \in Running : r.at # "idle"
  BY DEF Running
<1> QED
  BY <1>1, <1>2, KnowBounds DEF Busy

\* A call goes on as r.
LEMMA CallGoesOn ==
    ASSUME KnowInv, NEW a \in Busy, NEW r \in Running, adds' = [adds EXCEPT ![a] = r],
           notes' \in NoteFiles, indexed' \in NoteFiles, page' \in Pages,
           UNCHANGED << noted, counts, digest, apart >>,
           ~apart => Come(r)'
    PROVE  KnowInv'
<1>1. KnowTyped /\ Alone /\ a \in Adders
  BY DEF KnowInv, Busy
<1>2. r.at # "idle"
  BY DEF Running
<1>3. adds' \in [Adders -> {NoAdd} \cup Running] /\ adds'[a] = r
  BY <1>1 DEF KnowTyped
<1>4. \A b \in Adders : b # a => adds'[b] = adds[b]
  BY <1>1 DEF KnowTyped
<1>5. Busy' = Busy
  BY <1>1, <1>2, <1>3, <1>4 DEF Busy
<1>6. KnowTyped'
  BY <1>1, <1>3, <1>5 DEF KnowTyped
<1>7. ASSUME ~apart PROVE /\ \A b, c \in Busy : b = c
                          /\ \A b \in Busy : Come(adds[b])'
  <2>1. \A b \in Busy : b = a
    BY <1>1, <1>7 DEF Alone
  <2>2. Come(adds[a])'
    BY <1>3, <1>7 DEF Come
  <2> QED
    BY <2>1, <2>2
<1>8. Alone'
  BY <1>5, <1>7 DEF Alone
<1> QED
  BY <1>6, <1>8 DEF KnowInv

LEMMA KnowAsk ==
    ASSUME KnowInv, NEW a \in Adders, NEW n \in NoteIds, AskAdd(a, n)
    PROVE  KnowInv'
<1>1. /\ adds[a].at = "idle" /\ counts.adds < MaxAdds
      /\ adds' = [adds EXCEPT ![a] = [NoAdd EXCEPT !.at = "open", !.id = n, !.says = counts.adds + 1]]
      /\ counts' = [counts EXCEPT !.adds = @ + 1]
      /\ apart' = (Busy # {}) /\ digest' = IF Busy = {} THEN page.digest ELSE digest
      /\ UNCHANGED << notes, indexed, page, noted >>
  BY DEF AskAdd, Adding
<1>2. KnowTyped /\ a \notin Busy /\ counts.adds \in 0 .. MaxAdds /\ page.digest \in DigestText
  BY <1>1, CallIs DEF KnowInv, KnowTyped, Counting, Pages
<1>3. PICK r \in Running : r.at = "open" /\ adds' = [adds EXCEPT ![a] = r]
  <2> DEFINE w == [NoAdd EXCEPT !.at = "open", !.id = n, !.says = counts.adds + 1]
  <2>1. counts.adds + 1 \in 0 .. MaxAdds
    BY <1>1, <1>2, KnowBounds
  <2>2. w \in Running /\ w.at = "open"
    BY <2>1, KnowBounds DEF NoAdd, Running, NoDigest
  <2>3. adds' = [adds EXCEPT ![a] = w]
    BY <1>1
  <2> HIDE DEF w
  <2> QED
    BY <2>2, <2>3
<1>4. adds' \in [Adders -> {NoAdd} \cup Running] /\ adds'[a] = r
  BY <1>2, <1>3 DEF KnowTyped
<1>5. \A b \in Adders : b # a => adds'[b] = adds[b]
  BY <1>2, <1>3 DEF KnowTyped
<1>6. Busy' = Busy \cup {a}
  BY <1>2, <1>3, <1>4, <1>5 DEF Busy
<1>7. Cardinality(Busy') = Cardinality(Busy) + 1
  BY <1>2, <1>6, KnowBounds, FS_AddElement
<1>8. counts' \in Counting /\ counts'.adds = counts.adds + 1
  BY <1>1, <1>2, KnowBounds DEF KnowTyped, Counting
<1>9. noted' \in Nat /\ noted' + Cardinality(Busy') <= counts'.adds
  BY <1>1, <1>2, <1>7, <1>8, KnowBounds DEF KnowTyped
<1>10. digest' \in DigestText /\ apart' \in BOOLEAN
  BY <1>1, <1>2 DEF KnowTyped
<1>11. KnowTyped'
  BY <1>1, <1>2, <1>4, <1>8, <1>9, <1>10 DEF KnowTyped
<1>12. ASSUME ~apart' PROVE Busy' = {a} /\ digest' = page'.digest
  BY <1>1, <1>6, <1>12
<1>13. Alone'
  <2>1. digest' = page'.digest => Come(r)'
    BY <1>3 DEF Come
  <2>2. digest' = page'.digest => Come(adds[a])'
    BY <2>1, <1>4 DEF Come
  <2> QED
    BY <2>2, <1>12 DEF Alone
<1> QED
  BY <1>11, <1>13 DEF KnowInv

LEMMA KnowOpenFill ==
    ASSUME KnowInv, NEW a \in Adders, OpenNote(a) \/ FillNote(a)
    PROVE  KnowInv'
<1>1. /\ adds[a].at \in {"open", "fill"}
      /\ \/ /\ notes' = [notes EXCEPT ![adds[a].id] = CutOff]
            /\ adds' = [adds EXCEPT ![a].at = "fill"]
         \/ /\ notes' = [notes EXCEPT ![adds[a].id] = adds[a].says]
            /\ adds' = [adds EXCEPT ![a].at = "scan"]
      /\ UNCHANGED << indexed, page, noted, counts, digest, apart >>
  BY DEF OpenNote, FillNote, Adding, Proceed
<1>2. KnowTyped /\ Alone /\ a \in Busy /\ adds[a] \in Running
  BY <1>1, CallIs DEF KnowInv
<1>3. adds[a].says \in Saying /\ adds[a].id \in NoteIds
  <2>1. adds[a].says \in 0 .. MaxAdds /\ adds[a].id \in NoteIds
    BY <1>2 DEF Running
  <2> QED
    BY <2>1, KnowBounds DEF Saying, CutOff
<1>4. notes' \in NoteFiles
  BY <1>1, <1>2, <1>3, KnowBounds DEF KnowTyped, NoteFiles
<1>5. PICK s \in {"fill", "scan"} : adds' = [adds EXCEPT ![a].at = s]
  BY <1>1
<1>6. PICK r \in Running : r.at = s /\ adds' = [adds EXCEPT ![a] = r]
  <2> DEFINE w == [adds[a] EXCEPT !.at = s]
  <2>1. w \in Running /\ w.at = s
    BY <1>2 DEF Running
  <2>2. adds' = [adds EXCEPT ![a] = w]
    BY <1>2, <1>5 DEF KnowTyped
  <2> HIDE DEF w
  <2> QED
    BY <2>1, <2>2
<1>7. ~apart => Come(r)'
  <2>1. ~apart => page.digest = digest
    BY <1>1, <1>2 DEF Alone, Come
  <2> QED
    BY <2>1, <1>1, <1>6 DEF Come
<1> QED
  BY <1>1, <1>2, <1>4, <1>6, <1>7, CallGoesOn DEF KnowTyped

LEMMA KnowScan ==
    ASSUME KnowInv, NEW a \in Adders, ScanNotes(a)
    PROVE  KnowInv'
<1>1. /\ adds[a].at = "scan"
      /\ adds' = [adds EXCEPT ![a].at = "rebuild", ![a].scan = notes]
      /\ UNCHANGED << notes, indexed, page, noted, counts, digest, apart >>
  BY DEF ScanNotes, Adding
<1>2. KnowTyped /\ Alone /\ a \in Busy /\ adds[a] \in Running
  BY <1>1, CallIs DEF KnowInv
<1>3. PICK r \in Running : /\ r.at = "rebuild" /\ r.scan = notes
                           /\ adds' = [adds EXCEPT ![a] = r]
  <2> DEFINE w == [adds[a] EXCEPT !.at = "rebuild", !.scan = notes]
  <2>1. w \in Running /\ w.at = "rebuild" /\ w.scan = notes
    BY <1>2 DEF Running, KnowTyped
  <2>2. adds' = [adds EXCEPT ![a] = w]
    BY <1>1, <1>2 DEF KnowTyped
  <2> HIDE DEF w
  <2> QED
    BY <2>1, <2>2
<1>4. ~apart => Come(r)'
  <2>1. ~apart => page.digest = digest
    BY <1>1, <1>2 DEF Alone, Come
  <2> QED
    BY <2>1, <1>1, <1>3 DEF Come
<1> QED
  BY <1>1, <1>2, <1>3, <1>4, CallGoesOn DEF KnowTyped

LEMMA KnowRebuild ==
    ASSUME KnowInv, NEW a \in Adders, Rebuild(a)
    PROVE  KnowInv'
<1>1. /\ adds[a].at = "rebuild" /\ adds' = [adds EXCEPT ![a].at = "read"]
      /\ indexed' = adds[a].scan
      /\ UNCHANGED << notes, page, noted, counts, digest, apart >>
  BY DEF Rebuild, Adding, Proceed
<1>2. KnowTyped /\ Alone /\ a \in Busy /\ adds[a] \in Running
  BY <1>1, CallIs DEF KnowInv
<1>3. PICK r \in Running : /\ r.at = "read" /\ r.scan = adds[a].scan
                           /\ adds' = [adds EXCEPT ![a] = r]
  <2> DEFINE w == [adds[a] EXCEPT !.at = "read"]
  <2>1. w \in Running /\ w.at = "read" /\ w.scan = adds[a].scan
    BY <1>2 DEF Running
  <2>2. adds' = [adds EXCEPT ![a] = w]
    BY <1>1, <1>2 DEF KnowTyped
  <2> HIDE DEF w
  <2> QED
    BY <2>1, <2>2
<1>4. ~apart => Come(r)'
  <2>1. ~apart => page.digest = digest /\ adds[a].scan = notes
    BY <1>1, <1>2 DEF Alone, Come
  <2> QED
    BY <2>1, <1>1, <1>3 DEF Come
<1>5. indexed' \in NoteFiles
  BY <1>1, <1>2 DEF Running
<1> QED
  BY <1>1, <1>2, <1>3, <1>4, <1>5, CallGoesOn DEF KnowTyped

LEMMA KnowReadPage ==
    ASSUME KnowInv, NEW a \in Adders, ReadPage(a)
    PROVE  KnowInv'
<1>1. /\ adds[a].at = "read"
      /\ adds' = [adds EXCEPT ![a].at = "truncate", ![a].read = page.digest]
      /\ UNCHANGED << notes, indexed, page, noted, counts, digest, apart >>
  BY DEF ReadPage, Adding
<1>2. KnowTyped /\ Alone /\ a \in Busy /\ adds[a] \in Running /\ page.digest \in DigestText
  BY <1>1, CallIs DEF KnowInv, KnowTyped, Pages
<1>3. PICK r \in Running : /\ r.at = "truncate" /\ r.scan = adds[a].scan /\ r.read = page.digest
                           /\ adds' = [adds EXCEPT ![a] = r]
  <2> DEFINE w == [adds[a] EXCEPT !.at = "truncate", !.read = page.digest]
  <2>1. w \in Running /\ w.at = "truncate" /\ w.scan = adds[a].scan /\ w.read = page.digest
    BY <1>2 DEF Running
  <2>2. adds' = [adds EXCEPT ![a] = w]
    BY <1>1, <1>2 DEF KnowTyped
  <2> HIDE DEF w
  <2> QED
    BY <2>1, <2>2
<1>4. ~apart => Come(r)'
  <2>1. ~apart => page.digest = digest /\ adds[a].scan = notes /\ indexed = notes
    BY <1>1, <1>2 DEF Alone, Come
  <2> QED
    BY <2>1, <1>1, <1>3 DEF Come
<1> QED
  BY <1>1, <1>2, <1>3, <1>4, CallGoesOn DEF KnowTyped

LEMMA KnowTruncate ==
    ASSUME KnowInv, NEW a \in Adders, TruncatePage(a)
    PROVE  KnowInv'
<1>1. /\ adds[a].at = "truncate" /\ adds' = [adds EXCEPT ![a].at = "write"]
      /\ page' = EmptyPage
      /\ UNCHANGED << notes, indexed, noted, counts, digest, apart >>
  BY DEF TruncatePage, Adding, Proceed
<1>2. KnowTyped /\ Alone /\ a \in Busy /\ adds[a] \in Running
  BY <1>1, CallIs DEF KnowInv
<1>3. PICK r \in Running : /\ r.at = "write" /\ r.scan = adds[a].scan /\ r.read = adds[a].read
                           /\ adds' = [adds EXCEPT ![a] = r]
  <2> DEFINE w == [adds[a] EXCEPT !.at = "write"]
  <2>1. w \in Running /\ w.at = "write" /\ w.scan = adds[a].scan /\ w.read = adds[a].read
    BY <1>2 DEF Running
  <2>2. adds' = [adds EXCEPT ![a] = w]
    BY <1>1, <1>2 DEF KnowTyped
  <2> HIDE DEF w
  <2> QED
    BY <2>1, <2>2
<1>4. ~apart => Come(r)'
  <2>1. ~apart => adds[a].read = digest /\ adds[a].scan = notes /\ indexed = notes
    BY <1>1, <1>2 DEF Alone, Come
  <2> QED
    BY <2>1, <1>1, <1>3 DEF Come
<1>5. page' \in Pages
  BY <1>1, KnowBounds
<1> QED
  BY <1>1, <1>2, <1>3, <1>4, <1>5, CallGoesOn DEF KnowTyped

LEMMA KnowWritePage ==
    ASSUME KnowInv, NEW a \in Adders, WritePage(a)
    PROVE  KnowInv'
<1>1. /\ adds[a].at = "write" /\ adds' = [adds EXCEPT ![a].at = "record"]
      /\ page' = [digest |-> adds[a].read, catalog |-> adds[a].scan]
      /\ UNCHANGED << notes, indexed, noted, counts, digest, apart >>
  BY DEF WritePage, Adding, Proceed
<1>2. KnowTyped /\ Alone /\ a \in Busy /\ adds[a] \in Running
  BY <1>1, CallIs DEF KnowInv
<1>3. PICK r \in Running : r.at = "record" /\ adds' = [adds EXCEPT ![a] = r]
  <2> DEFINE w == [adds[a] EXCEPT !.at = "record"]
  <2>1. w \in Running /\ w.at = "record"
    BY <1>2 DEF Running
  <2>2. adds' = [adds EXCEPT ![a] = w]
    BY <1>1, <1>2 DEF KnowTyped
  <2> HIDE DEF w
  <2> QED
    BY <2>1, <2>2
<1>4. /\ page' \in Pages /\ page'.digest = adds[a].read /\ page'.catalog = adds[a].scan
  BY <1>1, <1>2 DEF Running, Pages
<1>5. ~apart => Come(r)'
  <2>1. ~apart => adds[a].read = digest /\ adds[a].scan = notes /\ indexed = notes
    BY <1>1, <1>2 DEF Alone, Come
  <2> QED
    BY <2>1, <1>1, <1>3, <1>4 DEF Come, AllAgree
<1> QED
  BY <1>1, <1>2, <1>3, <1>4, <1>5, CallGoesOn DEF KnowTyped

LEMMA KnowRecord ==
    ASSUME KnowInv, NEW a \in Adders, RecordNote(a)
    PROVE  KnowInv'
<1>1. /\ adds[a].at = "record" /\ adds' = [adds EXCEPT ![a] = NoAdd] /\ noted' = noted + 1
      /\ UNCHANGED << notes, indexed, page, counts, digest, apart >>
  BY DEF RecordNote, Adding
<1>2. KnowTyped /\ Alone /\ a \in Busy
  BY <1>1, CallIs DEF KnowInv
<1>3. adds' \in [Adders -> {NoAdd} \cup Running] /\ adds'[a] = NoAdd
  BY <1>1, <1>2 DEF KnowTyped
<1>4. \A b \in Adders : b # a => adds'[b] = adds[b]
  BY <1>1, <1>2 DEF KnowTyped
<1>5. Busy' = Busy \ {a}
  BY <1>3, <1>4, KnowBounds DEF Busy
<1>6. Cardinality(Busy') = Cardinality(Busy) - 1
  BY <1>2, <1>5, KnowBounds, FS_RemoveElement
<1>7. /\ noted \in Nat /\ noted + Cardinality(Busy) <= counts.adds
      /\ counts.adds \in Nat /\ counts' = counts
  BY <1>1, <1>2 DEF KnowTyped, Counting
<1>8. noted' \in Nat /\ noted' + Cardinality(Busy') <= counts'.adds
  BY <1>1, <1>6, <1>7, KnowBounds
<1>9. KnowTyped'
  BY <1>1, <1>2, <1>3, <1>8 DEF KnowTyped
<1>10. ~apart => Busy' = {} /\ AllAgree
  BY <1>1, <1>2, <1>5 DEF Alone, Come
<1>11. Alone'
  BY <1>1, <1>10 DEF Alone, AllAgree
<1> QED
  BY <1>9, <1>11 DEF KnowInv

LEMMA KnowSaves ==
    ASSUME KnowInv, SaveDigest \/ \E n \in NoteIds : SaveNote(n)
    PROVE  KnowInv'
<1>1. KnowTyped /\ Alone /\ counts.saves \in 0 .. MaxSaves /\ counts.adds \in Nat
  BY DEF KnowInv, KnowTyped, Counting
<1>2. /\ counts.saves < MaxSaves /\ counts' = [counts EXCEPT !.saves = @ + 1]
      /\ UNCHANGED << indexed, adds, noted >>
  BY DEF SaveDigest, SaveNote
<1>3. counts' \in Counting /\ counts'.adds = counts.adds
  BY <1>1, <1>2, KnowBounds DEF KnowTyped, Counting
<1>4. Busy' = Busy
  BY <1>2 DEF Busy
<1>5. CASE \E n \in NoteIds : SaveNote(n)
  <2>1. PICK n \in NoteIds : SaveNote(n)
    BY <1>5
  <2>2. PICK says \in {NoSuchNote, MaxAdds + counts.saves + 1} : notes' = [notes EXCEPT ![n] = says]
    BY <2>1 DEF SaveNote
  <2>3. says \in Saying
    BY <1>1, <1>2, KnowBounds DEF Saying, CutOff
  <2>4. notes' \in NoteFiles
    BY <2>2, <2>3, <1>1 DEF NoteFiles, KnowTyped
  <2>5. apart' = TRUE /\ UNCHANGED << page, digest >>
    BY <2>1 DEF SaveNote
  <2>6. KnowTyped'
    BY <2>4, <2>5, <1>1, <1>2, <1>3, <1>4 DEF KnowTyped
  <2> QED
    BY <2>5, <2>6 DEF KnowInv, Alone
<1>6. CASE SaveDigest
  <2>1. /\ digest' = counts.saves + 2 /\ page' = [page EXCEPT !.digest = digest']
        /\ apart' = (apart \/ Busy # {}) /\ notes' = notes
    BY <1>6 DEF SaveDigest
  <2>2. digest' \in DigestText
    BY <2>1, <1>1, <1>2, KnowBounds DEF DigestText
  <2>3. page' \in Pages /\ page'.digest = digest' /\ page'.catalog = page.catalog
    BY <2>1, <2>2, <1>1 DEF Pages, KnowTyped
  <2>4. KnowTyped'
    BY <2>1, <2>2, <2>3, <1>1, <1>2, <1>3, <1>4 DEF KnowTyped
  <2>5. Alone'
    BY <2>1, <2>3, <1>1, <1>2, <1>4 DEF Alone, AllAgree
  <2> QED
    BY <2>4, <2>5 DEF KnowInv
<1> QED
  BY <1>5, <1>6

LEMMA KnowDie ==
    ASSUME KnowInv, DieAndStart
    PROVE  KnowInv'
<1>1. /\ counts.deaths < MaxDeaths /\ counts' = [counts EXCEPT !.deaths = @ + 1]
      /\ adds' = [a \in Adders |-> NoAdd] /\ noted' = 0 /\ indexed' = notes
      /\ apart' = (apart \/ Busy # {}) /\ UNCHANGED << notes, page, digest >>
  BY DEF DieAndStart
<1>2. KnowTyped /\ Alone /\ counts.adds \in Nat
  BY DEF KnowInv, KnowTyped, Counting
<1>3. counts' \in Counting /\ counts'.adds = counts.adds
  BY <1>1, <1>2, KnowBounds DEF KnowTyped, Counting
<1>4. Busy' = {}
  BY <1>1, KnowBounds DEF Busy
<1>5. Cardinality(Busy') = 0
  BY <1>4, FS_EmptySet
<1>6. KnowTyped'
  BY <1>1, <1>2, <1>3, <1>5 DEF KnowTyped
<1>7. Alone'
  BY <1>1, <1>2, <1>4 DEF Alone, AllAgree
<1> QED
  BY <1>6, <1>7 DEF KnowInv

LEMMA KnowSteps ==
    ASSUME KnowInv, KnowNext \/ UNCHANGED knowVars
    PROVE  KnowInv'
<1>1. CASE UNCHANGED knowVars
  <2>1. UNCHANGED << notes, indexed, page, adds, noted, counts, digest, apart >>
    BY <1>1 DEF knowVars
  <2> QED
    BY <2>1 DEF KnowInv, KnowTyped, Alone, Busy, AllAgree, Come
<1>2. CASE KnowNext
  <2>1. CASE \E a \in Adders : AddSteps(a)
    BY <2>1, KnowOpenFill, KnowScan, KnowRebuild, KnowReadPage, KnowTruncate, KnowWritePage, KnowRecord
    DEF AddSteps
  <2>2. CASE \E a \in Adders, n \in NoteIds : AskAdd(a, n)
    BY <2>2, KnowAsk
  <2>3. CASE SaveDigest \/ \E n \in NoteIds : SaveNote(n)
    BY <2>3, KnowSaves
  <2>4. CASE DieAndStart
    BY <2>4, KnowDie
  <2> QED
    BY <1>2, <2>1, <2>2, <2>3, <2>4 DEF KnowNext
<1> QED
  BY <1>1, <1>2

LEMMA KnowHold == KnowInv => KnowTypeOK /\ AloneAllAgree
<1> SUFFICES ASSUME KnowInv PROVE KnowTypeOK /\ AloneAllAgree
  OBVIOUS
<1>1. AloneAllAgree
  BY DEF KnowInv, Alone, AllAgree, AloneAllAgree
<1>2. \A a \in Adders :
        /\ adds[a].at \in {"idle", "open", "fill", "scan", "rebuild", "read", "truncate",
                           "write", "record"}
        /\ Adding(a, "idle") <=> adds[a] = NoAdd
  <2> TAKE a \in Adders
  <2>1. adds[a] \in Running => adds[a].at \in {"open", "fill", "scan", "rebuild", "read",
                                               "truncate", "write", "record"}
    BY DEF Running
  <2> QED
    BY <2>1, CallIs, KnowBounds DEF Adding
<1>3. noted \in 0 .. MaxAdds
  <2>1. /\ noted \in Nat /\ noted + Cardinality(Busy) <= counts.adds
        /\ counts.adds \in 0 .. MaxAdds
    BY DEF KnowInv, KnowTyped, Counting
  <2> QED
    BY <2>1, KnowBounds
<1>4. /\ {notes, indexed, page.catalog} \subseteq NoteFiles
      /\ page.digest \in DigestText /\ digest \in DigestText /\ apart \in BOOLEAN
  BY DEF KnowInv, KnowTyped, Pages
<1>5. KnowTypeOK
  BY <1>2, <1>3, <1>4 DEF KnowTypeOK, NoteFiles, DigestText, Saying
<1> QED
  BY <1>1, <1>5

--------------------------------------------------------------------------------
(* A worktree's provisions.                                                    *)

FileEntries   == [target : Targets, value : 1 .. MaxVaultEdits]
Vaults    == [EnvKeys -> {NoEntry} \cup FileEntries]
Contents  == {Edited} \cup 0 .. MaxVaultEdits
Snapshots == {<< >>} \cup {<< v >> : v \in Vaults}

ProvTyped ==
    /\ vault \in Vaults /\ vaultEdits \in 0 .. MaxVaultEdits /\ disk \in [Targets -> Contents]
    /\ leased \in BOOLEAN /\ agent \in BOOLEAN /\ parked \in BOOLEAN /\ crossed \in BOOLEAN
    /\ services \subseteq Services /\ driftTold \subseteq Targets
    /\ stray \subseteq Targets /\ changed \subseteq Targets
    /\ dispatch \in [at : {"idle", "files", "services", "launch"}, left : SUBSET (EnvKeys \cup Services),
                     snapshot : Snapshots, up : SUBSET Services, failed : SUBSET Services]
    /\ cancel \in [at : {"idle", "held", "services", "drift", "paths", "shred"}, left : SUBSET Targets]

\* What a dispatch has done and still has to do.
DispatchOK ==
    /\ dispatch.up \cap dispatch.failed = {}
    /\ dispatch.at = "files" => /\ dispatch.up = {} /\ dispatch.failed = {}
                                /\ dispatch.left \subseteq EnvKeys
                                /\ \A k \in dispatch.left : /\ dispatch.snapshot # << >>
                                                            /\ dispatch.snapshot[1][k] # NoEntry
    /\ dispatch.at = "services" => /\ dispatch.left \subseteq Services
                                   /\ dispatch.left \cup dispatch.up \cup dispatch.failed = Services
                                   /\ dispatch.left \cap (dispatch.up \cup dispatch.failed) = {}
    /\ dispatch.at = "launch" => Required \subseteq dispatch.up /\ Required \cap dispatch.failed = {}

\* Every file of the vault's making that lies there is one the vault still names,
\* or a stray.
FilesKnown == \A t \in Targets : disk[t] # NotThere => t \in stray \cup TargetsOf(vault)

Quiet == dispatch.at = "idle" /\ ~agent

\* A cancel that no dispatch crossed: from the lease it found to the release.
CancelOK ==
    /\ cancel.at \in {"services", "drift", "paths", "shred"} => leased /\ (crossed \/ Quiet)
    /\ cancel.at \in {"drift", "paths", "shred"} => crossed \/ services = {}
    /\ cancel.at \in {"paths", "shred"} =>
           crossed \/ \A t \in Targets : disk[t] = Edited => t \in driftTold \cup stray
    /\ cancel.at = "shred" =>
           crossed \/ \A t \in Targets : disk[t] # NotThere => t \in stray \cup cancel.left

\* What a worktree of the pool is like.
PoolOK ==
    ~leased => crossed \/ (/\ Quiet /\ services = {}
                           /\ \A t \in Targets : disk[t] # NotThere => t \in stray)

ProvInv == ProvTyped /\ DispatchOK /\ FilesKnown /\ CancelOK /\ PoolOK

LEMMA ProvFacts ==
    /\ EnvKeys \subseteq Nat /\ Services \subseteq Nat /\ Required \subseteq Services
    /\ "none" \notin Targets /\ MaxVaultEdits \in Nat
<1>1. /\ EnvKeys = 1 .. Cardinality(EnvKeys) /\ Services = 1 .. Cardinality(Services)
      /\ IsFiniteSet(EnvKeys \cup Services)
  BY ProvisionAssumption DEF ProvisionAssumption
<1>2. IsFiniteSet(EnvKeys) /\ IsFiniteSet(Services)
  BY <1>1, FS_Subset
<1>3. Cardinality(EnvKeys) \in Nat /\ Cardinality(Services) \in Nat
  BY <1>2, FS_CardinalityType
<1>4. \A n \in Nat : 1 .. n \subseteq Nat
  OBVIOUS
<1> QED
  BY <1>1, <1>3, <1>4, ProvisionAssumption DEF ProvisionAssumption

LEMMA LeastIn ==
    ASSUME NEW S, S \subseteq Nat, S # {}
    PROVE  Least(S) \in S /\ \A y \in S : Least(S) <= y
<1> DEFINE R == OpToRel(<, Nat)
<1>1. PICK x \in S : \A y \in S : ~(<< y, x >> \in R)
  BY NatLessThanWellFounded, WFMin
<1>2. ASSUME NEW a \in Nat, NEW b \in Nat, a < b PROVE << a, b >> \in R
  BY <1>2 DEF OpToRel
<1> HIDE DEF R
<1>3. ASSUME NEW y \in S PROVE x <= y
  <2>1. x \in Nat /\ y \in Nat /\ ~(y < x)
    BY <1>1, <1>2, <1>3
  <2> QED
    BY <2>1
<1> QED
  BY <1>1, <1>3 DEF Least

LEMMA TargetsAre ==
    ASSUME NEW v \in Vaults
    PROVE  /\ TargetsOf(v) \subseteq Targets
           /\ \A k \in EnvKeys : v[k] # NoEntry =>
                  /\ v[k] \in FileEntries /\ v[k].target \in Targets /\ v[k].target \in TargetsOf(v)
                  /\ v[k].value \in 1 .. MaxVaultEdits
           /\ \A t \in TargetsOf(v) : \E k \in EnvKeys : v[k] # NoEntry /\ v[k].target = t
<1>1. \A k \in EnvKeys : v[k] # NoEntry => v[k] \in FileEntries
  BY DEF Vaults
<1>2. \A k \in EnvKeys : v[k] # NoEntry =>
          v[k].target \in Targets /\ v[k].value \in 1 .. MaxVaultEdits
  BY <1>1 DEF FileEntries
<1>3. \A k \in EnvKeys : v[k] # NoEntry => v[k].target \in TargetsOf(v)
  BY <1>2, ProvFacts DEF TargetsOf
<1>4. \A t \in TargetsOf(v) : \E k \in EnvKeys : v[k] # NoEntry /\ v[k].target = t
  BY DEF TargetsOf, NoEntry
<1> QED
  BY <1>1, <1>2, <1>3, <1>4

LEMMA ProvStart == ProvInit => ProvInv
<1> SUFFICES ASSUME ProvInit PROVE ProvInv
  OBVIOUS
<1>1. /\ vault = [k \in EnvKeys |-> NoEntry] /\ vaultEdits = 0
      /\ disk = [t \in Targets |-> 0] /\ leased = FALSE /\ services = {} /\ agent = FALSE
      /\ dispatch = NoDispatch /\ cancel = NoCancel /\ driftTold = {} /\ parked = FALSE
      /\ stray = {} /\ changed = {} /\ crossed = FALSE
  BY DEF ProvInit, NotThere
<1>2. dispatch.at = "idle" /\ dispatch.up = {} /\ cancel.at = "idle"
  BY <1>1 DEF NoDispatch, NoCancel
<1>3. vault \in Vaults
  BY <1>1 DEF Vaults
<1>4. ProvTyped
  <2>1. disk \in [Targets -> Contents] /\ vaultEdits \in 0 .. MaxVaultEdits
    BY <1>1, ProvFacts DEF Contents
  <2>2. dispatch \in [at : {"idle", "files", "services", "launch"},
                      left : SUBSET (EnvKeys \cup Services), snapshot : Snapshots,
                      up : SUBSET Services, failed : SUBSET Services]
    BY <1>1 DEF NoDispatch, Snapshots
  <2>3. cancel \in [at : {"idle", "held", "services", "drift", "paths", "shred"},
                    left : SUBSET Targets]
    BY <1>1 DEF NoCancel
  <2> QED
    BY <2>1, <2>2, <2>3, <1>1, <1>3 DEF ProvTyped
<1>5. DispatchOK /\ CancelOK
  BY <1>2 DEF DispatchOK, CancelOK
<1>6. FilesKnown /\ PoolOK
  BY <1>1, <1>2 DEF FilesKnown, PoolOK, Quiet, NotThere
<1> QED
  BY <1>4, <1>5, <1>6 DEF ProvInv

\* While a dispatch or an agent is at work, the worktree is leased and no cancel
\* has come past finding it, or else they crossed: what such a step does is of no
\* consequence to a cancel or to the pool.
LEMMA AtWork ==
    ASSUME ProvInv, ~Quiet, UNCHANGED << leased, crossed, cancel >>
    PROVE  CancelOK' /\ PoolOK'
<1>1. crossed \/ (leased /\ cancel.at \notin {"services", "drift", "paths", "shred"})
  BY DEF ProvInv, CancelOK, PoolOK, ProvTyped
<1> QED
  BY <1>1 DEF ProvInv, CancelOK, PoolOK

LEMMA ProvLay ==
    ASSUME ProvInv, NEW v \in Vaults, vaultEdits < MaxVaultEdits, Lay(v),
           UNCHANGED << disk, leased, services, agent, parked, crossed, dispatch, cancel, driftTold >>
    PROVE  ProvInv'
<1>1. /\ ProvTyped /\ DispatchOK /\ FilesKnown /\ CancelOK /\ PoolOK
  BY DEF ProvInv
<1>2. /\ vault' = v /\ vaultEdits' = vaultEdits + 1
      /\ stray' = stray \cup {t \in Targets : disk[t] # NotThere /\ t \in TargetsOf(vault) \ TargetsOf(v)}
      /\ changed' \subseteq changed \cup Targets
  BY DEF Lay
<1>3. vaultEdits' \in 0 .. MaxVaultEdits
  BY <1>1, <1>2, ProvFacts DEF ProvTyped
<1>4. stray \subseteq stray' /\ stray' \subseteq stray \cup Targets
  BY <1>2
<1>5. ProvTyped'
  BY <1>1, <1>2, <1>3, <1>4 DEF ProvTyped
<1>6. DispatchOK'
  BY <1>1 DEF DispatchOK
<1>7. FilesKnown'
  BY <1>1, <1>2 DEF FilesKnown
<1>8. CancelOK'
  BY <1>1, <1>4 DEF CancelOK, Quiet
<1>9. PoolOK'
  BY <1>1, <1>4 DEF PoolOK, Quiet
<1> QED
  BY <1>5, <1>6, <1>7, <1>8, <1>9 DEF ProvInv

LEMMA ProvVault ==
    ASSUME ProvInv, NEW k \in EnvKeys,
           DeleteEntry(k) \/ \E t \in Targets : SetEntry(k, t)
    PROVE  ProvInv'
<1>1. vault \in Vaults /\ vaultEdits \in 0 .. MaxVaultEdits
  BY DEF ProvInv, ProvTyped
<1>2. /\ vaultEdits < MaxVaultEdits
      /\ UNCHANGED << disk, leased, services, agent, parked, crossed, dispatch, cancel, driftTold >>
  BY DEF DeleteEntry, SetEntry, jobVars
<1>3. CASE DeleteEntry(k)
  <2>1. [vault EXCEPT ![k] = NoEntry] \in Vaults
    BY <1>1 DEF Vaults
  <2> QED
    BY <2>1, <1>2, <1>3, ProvLay DEF DeleteEntry
<1>4. CASE \E t \in Targets : SetEntry(k, t)
  <2>1. PICK t \in Targets : SetEntry(k, t)
    BY <1>4
  <2>2. vaultEdits + 1 \in 1 .. MaxVaultEdits
    BY <1>1, <1>2, ProvFacts
  <2>3. [target |-> t, value |-> vaultEdits + 1] \in FileEntries
    BY <2>2 DEF FileEntries
  <2>4. [vault EXCEPT ![k] = [target |-> t, value |-> vaultEdits + 1]] \in Vaults
    BY <2>3, <1>1 DEF Vaults
  <2> QED
    BY <2>1, <2>4, <1>2, ProvLay DEF SetEntry
<1> QED
  BY <1>3, <1>4

LEMMA ProvLease ==
    ASSUME ProvInv, Lease
    PROVE  ProvInv'
<1>1. /\ dispatch.at = "idle" /\ ~leased /\ leased' = TRUE /\ crossed' = FALSE /\ driftTold' = {}
      /\ dispatch' = [NoDispatch EXCEPT !.at = "files"]
      /\ UNCHANGED << vault, vaultEdits, disk, stray, changed, services, agent, cancel, parked >>
  BY DEF Lease, InDispatch, envVars
<1>2. ProvTyped /\ FilesKnown /\ CancelOK
  BY DEF ProvInv
<1>3. /\ dispatch'.at = "files" /\ dispatch'.left = {} /\ dispatch'.up = {} /\ dispatch'.failed = {}
      /\ dispatch' \in [at : {"idle", "files", "services", "launch"},
                        left : SUBSET (EnvKeys \cup Services), snapshot : Snapshots,
                        up : SUBSET Services, failed : SUBSET Services]
  BY <1>1 DEF NoDispatch, Snapshots
<1>4. ProvTyped'
  BY <1>1, <1>2, <1>3 DEF ProvTyped
<1>5. DispatchOK'
  BY <1>3 DEF DispatchOK
<1>6. FilesKnown' /\ CancelOK' /\ PoolOK'
  BY <1>1, <1>2 DEF FilesKnown, CancelOK, PoolOK
<1> QED
  BY <1>4, <1>5, <1>6 DEF ProvInv

LEMMA ProvReadVault ==
    ASSUME ProvInv, ReadVault
    PROVE  ProvInv'
<1>1. /\ dispatch.at = "files" /\ dispatch.snapshot = << >>
      /\ dispatch' = [dispatch EXCEPT !.snapshot = << vault >>,
                                      !.left = {k \in EnvKeys : vault[k] # NoEntry}]
      /\ UNCHANGED << vault, vaultEdits, disk, stray, changed, leased, services, agent, parked,
                      crossed, cancel, driftTold >>
  BY DEF ReadVault, InDispatch, envVars, jobVars
<1>2. ProvTyped /\ DispatchOK /\ FilesKnown
  BY DEF ProvInv
<1>3. << vault >> \in Snapshots /\ << vault >> # << >> /\ << vault >>[1] = vault
  BY <1>2 DEF ProvTyped, Snapshots
<1>4. PICK d \in [at : {"idle", "files", "services", "launch"}, left : SUBSET (EnvKeys \cup Services),
                  snapshot : Snapshots, up : SUBSET Services, failed : SUBSET Services] :
        /\ dispatch' = d /\ d.at = "files" /\ d.snapshot = << vault >>
        /\ d.left = {k \in EnvKeys : vault[k] # NoEntry}
        /\ d.up = dispatch.up /\ d.failed = dispatch.failed
  <2> DEFINE some == {k \in EnvKeys : vault[k] # NoEntry}
             w == [dispatch EXCEPT !.snapshot = << vault >>, !.left = some]
  <2>1. some \subseteq EnvKeys /\ dispatch' = w
    BY <1>1
  <2> HIDE DEF some
  <2>2. /\ w \in [at : {"idle", "files", "services", "launch"},
                  left : SUBSET (EnvKeys \cup Services), snapshot : Snapshots,
                  up : SUBSET Services, failed : SUBSET Services]
        /\ w.at = "files" /\ w.snapshot = << vault >> /\ w.left = some
        /\ w.up = dispatch.up /\ w.failed = dispatch.failed
    BY <2>1, <1>1, <1>2, <1>3 DEF ProvTyped
  <2> HIDE DEF w
  <2> QED
    BY <2>1, <2>2 DEF some
<1>5. ProvTyped'
  BY <1>1, <1>2, <1>4 DEF ProvTyped
<1>6. DispatchOK'
  BY <1>1, <1>2, <1>3, <1>4 DEF DispatchOK
<1>7. FilesKnown'
  BY <1>1, <1>2 DEF FilesKnown
<1>8. CancelOK' /\ PoolOK'
  BY <1>1, AtWork DEF Quiet
<1> QED
  BY <1>5, <1>6, <1>7, <1>8 DEF ProvInv

LEMMA ProvWriteFile ==
    ASSUME ProvInv, WriteEnvFile
    PROVE  ProvInv'
<1> DEFINE k == Least(dispatch.left)
           e == dispatch.snapshot[1][k]
<1>1. /\ dispatch.at = "files" /\ dispatch.left # {}
      /\ disk' = [disk EXCEPT ![e.target] = e.value]
      /\ stray' = IF e.target \in TargetsOf(vault) THEN stray \ {e.target} ELSE stray \cup {e.target}
      /\ changed' \in {changed \cup {e.target}, changed \ {e.target}}
      /\ dispatch' = [dispatch EXCEPT !.left = @ \ {k}]
      /\ UNCHANGED << vault, vaultEdits, leased, services, agent, parked, crossed, cancel, driftTold >>
  BY DEF WriteEnvFile, InDispatch, jobVars
<1>2. ProvTyped /\ DispatchOK /\ FilesKnown
  BY DEF ProvInv
<1>3. k \in dispatch.left /\ dispatch.left \subseteq EnvKeys
  <2>1. dispatch.left \subseteq EnvKeys
    BY <1>1, <1>2 DEF DispatchOK
  <2> QED
    BY <2>1, <1>1, ProvFacts, LeastIn
<1>4. PICK t \in Targets, n \in 1 .. MaxVaultEdits : t = e.target /\ n = e.value
  <2>1. dispatch.snapshot # << >> /\ e # NoEntry
    BY <1>1, <1>2, <1>3 DEF DispatchOK
  <2>2. PICK v \in Vaults : dispatch.snapshot = << v >>
    BY <2>1, <1>2 DEF ProvTyped, Snapshots
  <2>3. e = v[k]
    BY <2>2
  <2> QED
    BY <2>1, <2>3, <1>3, TargetsAre
<1> HIDE DEF e
<1>5. PICK d \in [at : {"idle", "files", "services", "launch"}, left : SUBSET (EnvKeys \cup Services),
                  snapshot : Snapshots, up : SUBSET Services, failed : SUBSET Services] :
        /\ dispatch' = d /\ d.at = "files" /\ d.snapshot = dispatch.snapshot
        /\ d.left \subseteq dispatch.left /\ d.up = dispatch.up /\ d.failed = dispatch.failed
  <2> HIDE DEF k
  <2> QED
    BY <1>1, <1>2 DEF ProvTyped
<1>6. /\ disk' \in [Targets -> Contents] /\ \A u \in Targets : u # t => disk'[u] = disk[u]
  <2>1. n \in Contents
    BY ProvFacts DEF Contents
  <2> QED
    BY <2>1, <1>1, <1>2, <1>4 DEF ProvTyped
<1>7. /\ stray' \subseteq Targets /\ changed' \subseteq Targets
      /\ \A u \in stray : u # t => u \in stray'
      /\ t \in stray' \cup TargetsOf(vault)
  BY <1>1, <1>2, <1>4 DEF ProvTyped
<1>8. ProvTyped'
  BY <1>1, <1>2, <1>5, <1>6, <1>7 DEF ProvTyped
<1>9. DispatchOK'
  BY <1>1, <1>2, <1>5 DEF DispatchOK
<1>10. FilesKnown'
  BY <1>1, <1>2, <1>6, <1>7 DEF FilesKnown
<1>11. CancelOK' /\ PoolOK'
  BY <1>1, AtWork DEF Quiet
<1> QED
  BY <1>8, <1>9, <1>10, <1>11 DEF ProvInv

LEMMA ProvFilesWritten ==
    ASSUME ProvInv, FilesWritten
    PROVE  ProvInv'
<1>1. /\ dispatch.at = "files" /\ dispatch.left = {}
      /\ dispatch' = [dispatch EXCEPT !.at = "services", !.left = Services]
      /\ UNCHANGED << vault, vaultEdits, disk, stray, changed, leased, services, agent, parked,
                      crossed, cancel, driftTold >>
  BY DEF FilesWritten, InDispatch, envVars, jobVars
<1>2. ProvTyped /\ DispatchOK /\ FilesKnown
  BY DEF ProvInv
<1>3. PICK d \in [at : {"idle", "files", "services", "launch"}, left : SUBSET (EnvKeys \cup Services),
                  snapshot : Snapshots, up : SUBSET Services, failed : SUBSET Services] :
        /\ dispatch' = d /\ d.at = "services" /\ d.left = Services
        /\ d.up = dispatch.up /\ d.failed = dispatch.failed
  <2> DEFINE w == [dispatch EXCEPT !.at = "services", !.left = Services]
  <2>1. /\ w \in [at : {"idle", "files", "services", "launch"},
                  left : SUBSET (EnvKeys \cup Services), snapshot : Snapshots,
                  up : SUBSET Services, failed : SUBSET Services]
        /\ w.at = "services" /\ w.left = Services
        /\ w.up = dispatch.up /\ w.failed = dispatch.failed
    BY <1>2 DEF ProvTyped
  <2>2. dispatch' = w
    BY <1>1
  <2> HIDE DEF w
  <2> QED
    BY <2>1, <2>2
<1>4. ProvTyped'
  BY <1>1, <1>2, <1>3 DEF ProvTyped
<1>5. DispatchOK'
  BY <1>1, <1>2, <1>3 DEF DispatchOK
<1>6. FilesKnown'
  BY <1>1, <1>2 DEF FilesKnown
<1>7. CancelOK' /\ PoolOK'
  BY <1>1, AtWork DEF Quiet
<1> QED
  BY <1>4, <1>5, <1>6, <1>7 DEF ProvInv

LEMMA ProvStartService ==
    ASSUME ProvInv, StartService
    PROVE  ProvInv'
<1> DEFINE s == Least(dispatch.left)
<1>1. /\ dispatch.at = "services" /\ dispatch.left # {}
      /\ \/ dispatch' = [dispatch EXCEPT !.left = @ \ {s}, !.up = @ \cup {s}]
         \/ dispatch' = [dispatch EXCEPT !.left = @ \ {s}, !.failed = @ \cup {s}]
      /\ UNCHANGED << vault, vaultEdits, disk, stray, changed, leased, services, agent, parked,
                      crossed, cancel, driftTold >>
  BY DEF StartService, InDispatch, envVars, jobVars
<1>2. ProvTyped /\ DispatchOK /\ FilesKnown
  BY DEF ProvInv
<1>3. s \in dispatch.left /\ dispatch.left \subseteq Services
  <2>1. dispatch.left \subseteq Services
    BY <1>1, <1>2 DEF DispatchOK
  <2> QED
    BY <2>1, <1>1, ProvFacts, LeastIn
<1> HIDE DEF s
<1>4. PICK d \in [at : {"idle", "files", "services", "launch"}, left : SUBSET (EnvKeys \cup Services),
                  snapshot : Snapshots, up : SUBSET Services, failed : SUBSET Services] :
        /\ dispatch' = d /\ d.at = "services" /\ d.left = dispatch.left \ {s}
        /\ \/ d.up = dispatch.up \cup {s} /\ d.failed = dispatch.failed
           \/ d.up = dispatch.up /\ d.failed = dispatch.failed \cup {s}
  <2> DEFINE up   == [dispatch EXCEPT !.left = @ \ {s}, !.up = @ \cup {s}]
             down == [dispatch EXCEPT !.left = @ \ {s}, !.failed = @ \cup {s}]
  <2>1. /\ up \in [at : {"idle", "files", "services", "launch"},
                   left : SUBSET (EnvKeys \cup Services), snapshot : Snapshots,
                   up : SUBSET Services, failed : SUBSET Services]
        /\ up.at = "services" /\ up.left = dispatch.left \ {s}
        /\ up.up = dispatch.up \cup {s} /\ up.failed = dispatch.failed
    BY <1>1, <1>2, <1>3 DEF ProvTyped
  <2>2. /\ down \in [at : {"idle", "files", "services", "launch"},
                     left : SUBSET (EnvKeys \cup Services), snapshot : Snapshots,
                     up : SUBSET Services, failed : SUBSET Services]
        /\ down.at = "services" /\ down.left = dispatch.left \ {s}
        /\ down.up = dispatch.up /\ down.failed = dispatch.failed \cup {s}
    BY <1>1, <1>2, <1>3 DEF ProvTyped
  <2>3. dispatch' = up \/ dispatch' = down
    BY <1>1
  <2> HIDE DEF up, down
  <2> QED
    BY <2>1, <2>2, <2>3
<1>5. ProvTyped'
  BY <1>1, <1>2, <1>4 DEF ProvTyped
<1>6. DispatchOK'
  <2>1. /\ dispatch.up \cap dispatch.failed = {}
        /\ dispatch.left \cup dispatch.up \cup dispatch.failed = Services
        /\ dispatch.left \cap (dispatch.up \cup dispatch.failed) = {}
    BY <1>1, <1>2 DEF DispatchOK
  <2>2. /\ d.up \cap d.failed = {} /\ d.left \subseteq Services
        /\ d.left \cup d.up \cup d.failed = Services
        /\ d.left \cap (d.up \cup d.failed) = {}
    BY <2>1, <1>3, <1>4
  <2> QED
    BY <2>2, <1>4 DEF DispatchOK
<1>7. FilesKnown'
  BY <1>1, <1>2 DEF FilesKnown
<1>8. CancelOK' /\ PoolOK'
  BY <1>1, AtWork DEF Quiet
<1> QED
  BY <1>5, <1>6, <1>7, <1>8 DEF ProvInv

LEMMA NoDispatchOK ==
    ASSUME dispatch' = NoDispatch
    PROVE  /\ dispatch' \in [at : {"idle", "files", "services", "launch"},
                             left : SUBSET (EnvKeys \cup Services), snapshot : Snapshots,
                             up : SUBSET Services, failed : SUBSET Services]
           /\ DispatchOK' /\ dispatch'.at = "idle"
<1>1. dispatch'.at = "idle" /\ dispatch'.up = {}
  BY DEF NoDispatch
<1> QED
  BY <1>1 DEF NoDispatch, Snapshots, DispatchOK

LEMMA ProvServicesStarted ==
    ASSUME ProvInv, ServicesStarted
    PROVE  ProvInv'
<1>1. /\ dispatch.at = "services" /\ dispatch.left = {}
      /\ UNCHANGED << vault, vaultEdits, disk, stray, changed, leased, agent, crossed, cancel, driftTold >>
  BY DEF ServicesStarted, InDispatch, envVars
<1>2. ProvTyped /\ DispatchOK /\ FilesKnown
  BY DEF ProvInv
<1>3. FilesKnown'
  BY <1>1, <1>2 DEF FilesKnown
<1>4. CancelOK' /\ PoolOK'
  BY <1>1, AtWork DEF Quiet
<1>5. CASE dispatch.failed \cap Required # {}
  <2>1. services' = {} /\ parked' = TRUE /\ dispatch' = NoDispatch
    BY <1>5 DEF ServicesStarted
  <2>2. ProvTyped' /\ DispatchOK'
    BY <2>1, <1>1, <1>2, NoDispatchOK DEF ProvTyped
  <2> QED
    BY <2>2, <1>3, <1>4 DEF ProvInv
<1>6. CASE dispatch.failed \cap Required = {}
  <2>1. /\ services' = services \cup dispatch.up /\ parked' = parked
        /\ dispatch' = [dispatch EXCEPT !.at = "launch"]
    BY <1>6 DEF ServicesStarted
  <2>2. PICK d \in [at : {"idle", "files", "services", "launch"},
                    left : SUBSET (EnvKeys \cup Services), snapshot : Snapshots,
                    up : SUBSET Services, failed : SUBSET Services] :
          dispatch' = d /\ d.at = "launch" /\ d.up = dispatch.up /\ d.failed = dispatch.failed
    BY <2>1, <1>2 DEF ProvTyped
  <2>3. services' \subseteq Services
    BY <2>1, <1>2 DEF ProvTyped
  <2>4. ProvTyped'
    BY <2>1, <2>2, <2>3, <1>1, <1>2 DEF ProvTyped
  <2>5. Required \subseteq d.up /\ Required \cap d.failed = {} /\ d.up \cap d.failed = {}
    BY <2>2, <1>1, <1>2, <1>6, ProvFacts DEF DispatchOK
  <2>6. DispatchOK'
    BY <2>2, <2>5 DEF DispatchOK
  <2> QED
    BY <2>4, <2>6, <1>3, <1>4 DEF ProvInv
<1> QED
  BY <1>5, <1>6

LEMMA ProvLaunch ==
    ASSUME ProvInv, Launch
    PROVE  ProvInv'
<1>1. /\ dispatch.at = "launch" /\ dispatch' = NoDispatch /\ agent' \in {TRUE, agent}
      /\ UNCHANGED << vault, vaultEdits, disk, stray, changed, leased, services, parked, crossed,
                      cancel, driftTold >>
  BY DEF Launch, InDispatch, envVars
<1>2. ProvTyped /\ FilesKnown
  BY DEF ProvInv
<1>3. ProvTyped' /\ DispatchOK'
  BY <1>1, <1>2, NoDispatchOK DEF ProvTyped
<1>4. FilesKnown'
  BY <1>1, <1>2 DEF FilesKnown
<1>5. CancelOK' /\ PoolOK'
  BY <1>1, AtWork DEF Quiet
<1> QED
  BY <1>3, <1>4, <1>5 DEF ProvInv

LEMMA ProvAgent ==
    ASSUME ProvInv, AgentEnds \/ \E t \in Targets : AgentEdits(t)
    PROVE  ProvInv'
<1>1. /\ agent
      /\ UNCHANGED << vault, stray, changed, leased, services, parked, crossed, dispatch, cancel,
                      driftTold >>
  BY DEF AgentEnds, AgentEdits, envVars, jobVars
<1>2. ProvTyped /\ DispatchOK /\ FilesKnown
  BY DEF ProvInv
<1>3. DispatchOK'
  BY <1>1, <1>2 DEF DispatchOK
<1>4. CancelOK' /\ PoolOK'
  BY <1>1, AtWork DEF Quiet
<1>5. CASE AgentEnds
  <2>1. agent' = FALSE /\ UNCHANGED << vaultEdits, disk >>
    BY <1>5 DEF AgentEnds, envVars
  <2>2. ProvTyped' /\ FilesKnown'
    BY <2>1, <1>1, <1>2 DEF ProvTyped, FilesKnown
  <2> QED
    BY <2>2, <1>3, <1>4 DEF ProvInv
<1>6. CASE \E t \in Targets : AgentEdits(t)
  <2>1. PICK t \in Targets : AgentEdits(t)
    BY <1>6
  <2>2. /\ vaultEdits < MaxVaultEdits /\ vaultEdits' = vaultEdits + 1 /\ agent' = agent
        /\ \/ disk' = [disk EXCEPT ![t] = Edited] /\ t \in TargetsOf(vault)
           \/ disk' = [disk EXCEPT ![t] = NotThere]
    BY <2>1 DEF AgentEdits, jobVars
  <2>3. vaultEdits' \in 0 .. MaxVaultEdits
    BY <2>2, <1>2, ProvFacts DEF ProvTyped
  <2>4. disk' \in [Targets -> Contents]
    BY <2>2, <1>2, ProvFacts DEF ProvTyped, Contents, NotThere
  <2>5. ProvTyped'
    BY <2>2, <2>3, <2>4, <1>1, <1>2 DEF ProvTyped
  <2>6. FilesKnown'
    BY <2>2, <1>1, <1>2 DEF FilesKnown, ProvTyped
  <2> QED
    BY <2>5, <2>6, <1>3, <1>4 DEF ProvInv
<1> QED
  BY <1>5, <1>6

\* A cancel goes on to the next step.
LEMMA CancelAt ==
    ASSUME ProvTyped,
           NEW step \in {"held", "services", "drift", "paths", "shred"},
           NEW some \in SUBSET Targets,
           \/ cancel' = [cancel EXCEPT !.at = step, !.left = some]
           \/ cancel' = [cancel EXCEPT !.at = step] /\ some = cancel.left
           \/ cancel' = [cancel EXCEPT !.left = some] /\ step = cancel.at
           \/ cancel' = [NoCancel EXCEPT !.at = step] /\ some = {}
    PROVE  /\ cancel'.at = step /\ cancel'.left = some
           /\ cancel' \in [at : {"idle", "held", "services", "drift", "paths", "shred"},
                           left : SUBSET Targets]
<1>1. cancel \in [at : {"idle", "held", "services", "drift", "paths", "shred"},
                  left : SUBSET Targets]
  BY DEF ProvTyped
<1>2. CASE cancel' = [cancel EXCEPT !.at = step, !.left = some]
  BY <1>1, <1>2
<1>3. CASE cancel' = [cancel EXCEPT !.at = step] /\ some = cancel.left
  BY <1>1, <1>3
<1>4. CASE cancel' = [cancel EXCEPT !.left = some] /\ step = cancel.at
  BY <1>1, <1>4
<1>5. CASE cancel' = [NoCancel EXCEPT !.at = step] /\ some = {}
  BY <1>5 DEF NoCancel
<1> QED
  BY <1>2, <1>3, <1>4, <1>5

LEMMA NoCancelOK ==
    ASSUME cancel' = NoCancel
    PROVE  /\ cancel' \in [at : {"idle", "held", "services", "drift", "paths", "shred"},
                           left : SUBSET Targets]
           /\ CancelOK' /\ cancel'.at = "idle"
<1>1. cancel'.at = "idle"
  BY DEF NoCancel
<1> QED
  BY <1>1 DEF NoCancel, CancelOK

LEMMA ProvKill ==
    ASSUME ProvInv, KillSessions
    PROVE  ProvInv'
<1>1. /\ agent' = FALSE /\ crossed' = (crossed \/ dispatch.at # "idle")
      /\ cancel' = [NoCancel EXCEPT !.at = "held"]
      /\ UNCHANGED << vault, vaultEdits, disk, stray, changed, leased, services, parked, dispatch,
                      driftTold >>
  BY DEF KillSessions, envVars
<1>2. ProvTyped /\ DispatchOK /\ FilesKnown /\ PoolOK
  BY DEF ProvInv
<1>3. /\ cancel'.at = "held"
      /\ cancel' \in [at : {"idle", "held", "services", "drift", "paths", "shred"},
                      left : SUBSET Targets]
  BY <1>1 DEF NoCancel
<1>4. crossed' \in BOOLEAN
  BY <1>1
<1>5. ProvTyped'
  BY <1>1, <1>2, <1>3, <1>4 DEF ProvTyped
<1>6. DispatchOK' /\ FilesKnown'
  BY <1>1, <1>2 DEF DispatchOK, FilesKnown
<1>7. CancelOK'
  BY <1>3 DEF CancelOK
<1>8. PoolOK'
  BY <1>1, <1>2 DEF PoolOK, Quiet
<1> QED
  BY <1>5, <1>6, <1>7, <1>8 DEF ProvInv

LEMMA ProvFindHeld ==
    ASSUME ProvInv, FindHeld
    PROVE  ProvInv'
<1>1. /\ cancel.at = "held"
      /\ cancel' = IF leased THEN [cancel EXCEPT !.at = "services"] ELSE NoCancel
      /\ crossed' = (crossed \/ dispatch.at # "idle" \/ agent)
      /\ UNCHANGED << vault, vaultEdits, disk, stray, changed, leased, services, agent, parked,
                      dispatch, driftTold >>
  BY DEF FindHeld, InCancel, envVars
<1>2. ProvTyped /\ DispatchOK /\ FilesKnown /\ PoolOK
  BY DEF ProvInv
<1>3. crossed' \in BOOLEAN
  BY <1>1
<1>4. DispatchOK' /\ FilesKnown'
  BY <1>1, <1>2 DEF DispatchOK, FilesKnown
<1>5. PoolOK'
  BY <1>1, <1>2 DEF PoolOK, Quiet
<1>6. CASE leased
  <2>1. cancel' = [cancel EXCEPT !.at = "services"]
    BY <1>1, <1>6
  <2>2. cancel.left \in SUBSET Targets
    BY <1>2 DEF ProvTyped
  <2>3. /\ cancel'.at = "services"
        /\ cancel' \in [at : {"idle", "held", "services", "drift", "paths", "shred"},
                        left : SUBSET Targets]
    BY <2>1, <2>2, <1>2, CancelAt
  <2>4. ProvTyped'
    BY <2>3, <1>1, <1>2, <1>3 DEF ProvTyped
  <2>5. CancelOK'
    BY <2>3, <1>1, <1>6 DEF CancelOK, Quiet
  <2> QED
    BY <2>4, <2>5, <1>4, <1>5 DEF ProvInv
<1>7. CASE ~leased
  <2>1. cancel' = NoCancel
    BY <1>1, <1>7
  <2>2. ProvTyped'
    BY <2>1, <1>1, <1>2, <1>3, NoCancelOK DEF ProvTyped
  <2> QED
    BY <2>1, <2>2, <1>4, <1>5, NoCancelOK DEF ProvInv
<1> QED
  BY <1>6, <1>7

LEMMA ProvStop ==
    ASSUME ProvInv, StopServices
    PROVE  ProvInv'
<1>1. /\ cancel.at = "services" /\ services' = {} /\ cancel' = [cancel EXCEPT !.at = "drift"]
      /\ UNCHANGED << vault, vaultEdits, disk, stray, changed, leased, agent, parked, crossed,
                      dispatch, driftTold >>
  BY DEF StopServices, InCancel, envVars
<1>2. ProvTyped /\ DispatchOK /\ FilesKnown /\ PoolOK /\ CancelOK
  BY DEF ProvInv
<1>3. /\ cancel'.at = "drift"
      /\ cancel' \in [at : {"idle", "held", "services", "drift", "paths", "shred"},
                      left : SUBSET Targets]
  <2>1. cancel.left \in SUBSET Targets
    BY <1>2 DEF ProvTyped
  <2> QED
    BY <2>1, <1>1, <1>2, CancelAt
<1>4. ProvTyped'
  BY <1>1, <1>2, <1>3 DEF ProvTyped
<1>5. DispatchOK' /\ FilesKnown'
  BY <1>1, <1>2 DEF DispatchOK, FilesKnown
<1>6. CancelOK'
  BY <1>1, <1>2, <1>3 DEF CancelOK, Quiet
<1>7. PoolOK'
  BY <1>1, <1>2 DEF PoolOK, CancelOK
<1> QED
  BY <1>4, <1>5, <1>6, <1>7 DEF ProvInv

\* An agent's edit of a file the vault names is drift.
LEMMA EditsDrift ==
    ASSUME ProvInv
    PROVE  /\ Drifted \subseteq Targets
           /\ \A t \in Targets : disk[t] = Edited => t \in stray \cup Drifted
<1>1. ProvTyped /\ FilesKnown /\ vault \in Vaults
  BY DEF ProvInv, ProvTyped
<1>2. Drifted \subseteq Targets
  BY <1>1, TargetsAre DEF Drifted
<1>3. ASSUME NEW t \in Targets, disk[t] = Edited, t \notin stray PROVE t \in Drifted
  <2>1. t \in TargetsOf(vault)
    BY <1>1, <1>3 DEF FilesKnown, Edited, NotThere
  <2>2. PICK k \in EnvKeys : vault[k] # NoEntry /\ vault[k].target = t
    BY <2>1, <1>1, TargetsAre
  <2>3. vault[k].value \in 1 .. MaxVaultEdits
    BY <2>2, <1>1, TargetsAre
  <2>4. disk[vault[k].target] \notin {NotThere, vault[k].value}
    BY <2>2, <2>3, <1>3, ProvFacts DEF Edited, NotThere
  <2> QED
    BY <2>2, <2>4 DEF Drifted
<1> QED
  BY <1>2, <1>3

LEMMA ProvDrift ==
    ASSUME ProvInv, RaiseDrift
    PROVE  ProvInv'
<1>1. /\ cancel.at = "drift" /\ driftTold' = driftTold \cup Drifted
      /\ cancel' = [cancel EXCEPT !.at = "paths"]
      /\ UNCHANGED << vault, vaultEdits, disk, stray, changed, leased, services, agent, parked,
                      crossed, dispatch >>
  BY DEF RaiseDrift, InCancel, envVars, jobVars
<1>2. ProvTyped /\ DispatchOK /\ FilesKnown /\ PoolOK /\ CancelOK
  BY DEF ProvInv
<1>3. /\ cancel'.at = "paths"
      /\ cancel' \in [at : {"idle", "held", "services", "drift", "paths", "shred"},
                      left : SUBSET Targets]
  <2>1. cancel.left \in SUBSET Targets
    BY <1>2 DEF ProvTyped
  <2> QED
    BY <2>1, <1>1, <1>2, CancelAt
<1>4. driftTold' \subseteq Targets
  BY <1>1, <1>2, EditsDrift DEF ProvTyped
<1>5. ProvTyped'
  BY <1>1, <1>2, <1>3, <1>4 DEF ProvTyped
<1>6. DispatchOK' /\ FilesKnown'
  BY <1>1, <1>2 DEF DispatchOK, FilesKnown
<1>7. \A t \in Targets : disk'[t] = Edited => t \in driftTold' \cup stray'
  BY <1>1, EditsDrift
<1>8. CancelOK'
  BY <1>1, <1>2, <1>3, <1>7 DEF CancelOK, Quiet
<1>9. PoolOK'
  BY <1>1, <1>2 DEF PoolOK, CancelOK
<1> QED
  BY <1>5, <1>6, <1>8, <1>9 DEF ProvInv

LEMMA ProvFindPaths ==
    ASSUME ProvInv, FindPaths
    PROVE  ProvInv'
<1>1. /\ cancel.at = "paths"
      /\ cancel' = [cancel EXCEPT !.at = "shred", !.left = TargetsOf(vault)]
      /\ UNCHANGED << vault, vaultEdits, disk, stray, changed, leased, services, agent, parked,
                      crossed, dispatch, driftTold >>
  BY DEF FindPaths, InCancel, envVars, jobVars
<1>2. ProvTyped /\ DispatchOK /\ FilesKnown /\ PoolOK /\ CancelOK
  BY DEF ProvInv
<1>3. /\ cancel'.at = "shred" /\ cancel'.left = TargetsOf(vault)
      /\ cancel' \in [at : {"idle", "held", "services", "drift", "paths", "shred"},
                      left : SUBSET Targets]
  <2>1. TargetsOf(vault) \in SUBSET Targets
    BY <1>2, TargetsAre DEF ProvTyped
  <2> QED
    BY <2>1, <1>1, <1>2, CancelAt
<1>4. ProvTyped'
  BY <1>1, <1>2, <1>3 DEF ProvTyped
<1>5. DispatchOK' /\ FilesKnown'
  BY <1>1, <1>2 DEF DispatchOK, FilesKnown
<1>6. \A t \in Targets : disk'[t] # NotThere => t \in stray' \cup cancel'.left
  BY <1>1, <1>2, <1>3 DEF FilesKnown
<1>7. CancelOK'
  BY <1>1, <1>2, <1>3, <1>6 DEF CancelOK, Quiet
<1>8. PoolOK'
  BY <1>1, <1>2 DEF PoolOK, CancelOK
<1> QED
  BY <1>4, <1>5, <1>7, <1>8 DEF ProvInv

LEMMA ProvShred ==
    ASSUME ProvInv, Shred \/ ShredFails
    PROVE  ProvInv'
<1>1. /\ cancel.at = "shred"
      /\ UNCHANGED << vault, vaultEdits, leased, services, agent, parked, crossed, dispatch, driftTold >>
  BY DEF Shred, ShredFails, InCancel, jobVars
<1>2. ProvTyped /\ DispatchOK /\ FilesKnown /\ PoolOK /\ CancelOK
  BY DEF ProvInv
<1>3. cancel.left \subseteq Targets
  BY <1>2 DEF ProvTyped
<1>4. DispatchOK'
  BY <1>1, <1>2 DEF DispatchOK
<1>5. PoolOK'
  BY <1>1, <1>2 DEF PoolOK, CancelOK
<1>6. CASE Shred
  <2>1. PICK t \in cancel.left : /\ disk' = [disk EXCEPT ![t] = NotThere]
                                 /\ cancel' = [cancel EXCEPT !.left = @ \ {t}]
                                 /\ stray' = stray \ {t} /\ changed' = changed \ {t}
    BY <1>6 DEF Shred
  <2>2. /\ cancel'.at = "shred" /\ cancel'.left = cancel.left \ {t}
        /\ cancel' \in [at : {"idle", "held", "services", "drift", "paths", "shred"},
                        left : SUBSET Targets]
    <3>1. cancel.left \ {t} \in SUBSET Targets /\ cancel' = [cancel EXCEPT !.left = cancel.left \ {t}]
      BY <2>1, <1>3
    <3> QED
      BY <3>1, <1>1, <1>2, CancelAt
  <2>3. /\ disk' \in [Targets -> Contents] /\ disk'[t] = NotThere
        /\ \A u \in Targets : u # t => disk'[u] = disk[u]
    BY <2>1, <1>2, <1>3, ProvFacts DEF ProvTyped, Contents, NotThere
  <2>4. ProvTyped'
    BY <2>1, <2>2, <2>3, <1>1, <1>2 DEF ProvTyped
  <2>5. FilesKnown'
    BY <2>1, <2>3, <1>1, <1>2 DEF FilesKnown
  <2>6. CancelOK'
    BY <2>1, <2>2, <2>3, <1>1, <1>2 DEF CancelOK, Quiet, Edited, NotThere
  <2> QED
    BY <2>4, <2>5, <2>6, <1>4, <1>5 DEF ProvInv
<1>7. CASE ShredFails
  <2>1. /\ stray' = stray \cup {t \in cancel.left : disk[t] # NotThere}
        /\ cancel' = [cancel EXCEPT !.left = {}] /\ UNCHANGED << disk, changed >>
    BY <1>7 DEF ShredFails
  <2>2. /\ cancel'.at = "shred" /\ cancel'.left = {}
        /\ cancel' \in [at : {"idle", "held", "services", "drift", "paths", "shred"},
                        left : SUBSET Targets]
    <3>1. {} \in SUBSET Targets /\ cancel' = [cancel EXCEPT !.left = {}]
      BY <2>1
    <3> QED
      BY <3>1, <1>1, <1>2, CancelAt
  <2>3. stray' \subseteq Targets
    BY <2>1, <1>2, <1>3 DEF ProvTyped
  <2>4. ProvTyped'
    BY <2>1, <2>2, <2>3, <1>1, <1>2 DEF ProvTyped
  <2>5. FilesKnown'
    BY <2>1, <1>1, <1>2 DEF FilesKnown
  <2>6. CancelOK'
    BY <2>1, <2>2, <1>1, <1>2 DEF CancelOK, Quiet
  <2> QED
    BY <2>4, <2>5, <2>6, <1>4, <1>5 DEF ProvInv
<1> QED
  BY <1>6, <1>7

LEMMA ProvRelease ==
    ASSUME ProvInv, Release
    PROVE  ProvInv'
<1>1. /\ cancel.at = "shred" /\ cancel.left = {} /\ leased' = FALSE /\ cancel' = NoCancel
      /\ UNCHANGED << vault, vaultEdits, disk, stray, changed, services, agent, parked, crossed,
                      dispatch, driftTold >>
  BY DEF Release, InCancel, envVars
<1>2. ProvTyped /\ DispatchOK /\ FilesKnown /\ CancelOK
  BY DEF ProvInv
<1>3. ProvTyped'
  BY <1>1, <1>2, NoCancelOK DEF ProvTyped
<1>4. DispatchOK' /\ FilesKnown'
  BY <1>1, <1>2 DEF DispatchOK, FilesKnown
<1>5. PoolOK'
  BY <1>1, <1>2 DEF PoolOK, CancelOK, Quiet
<1> QED
  BY <1>1, <1>3, <1>4, <1>5, NoCancelOK DEF ProvInv

LEMMA ProvCrash ==
    ASSUME ProvInv, Settle \/ CrashDaemon
    PROVE  ProvInv'
<1>1. UNCHANGED << vault, vaultEdits, disk, stray, changed, leased, crossed, driftTold >>
  BY DEF Settle, CrashDaemon, envVars
<1>2. ProvTyped /\ DispatchOK /\ FilesKnown /\ CancelOK /\ PoolOK
  BY DEF ProvInv
<1>3. FilesKnown'
  BY <1>1, <1>2 DEF FilesKnown
<1>4. CASE Settle
  <2>1. parked' = FALSE /\ UNCHANGED << services, agent, dispatch, cancel >>
    BY <1>4 DEF Settle
  <2>2. ProvTyped' /\ DispatchOK'
    BY <2>1, <1>1, <1>2 DEF ProvTyped, DispatchOK
  <2>3. CancelOK' /\ PoolOK'
    BY <2>1, <1>1, <1>2 DEF CancelOK, PoolOK, Quiet
  <2> QED
    BY <2>2, <2>3, <1>3 DEF ProvInv
<1>5. CASE CrashDaemon
  <2>1. /\ services' = {} /\ agent' = FALSE /\ parked' = parked
        /\ dispatch' = NoDispatch /\ cancel' = NoCancel
    BY <1>5 DEF CrashDaemon
  <2>2. ProvTyped' /\ DispatchOK' /\ dispatch'.at = "idle"
    BY <2>1, <1>1, <1>2, NoDispatchOK, NoCancelOK DEF ProvTyped
  <2>3. PoolOK'
    BY <2>1, <2>2, <1>1, <1>2 DEF PoolOK, Quiet
  <2> QED
    BY <2>1, <2>2, <2>3, <1>3, NoCancelOK DEF ProvInv
<1> QED
  BY <1>4, <1>5

LEMMA ProvSteps ==
    ASSUME ProvInv, ProvNext \/ UNCHANGED provVars
    PROVE  ProvInv'
<1>1. CASE UNCHANGED provVars
  <2>1. UNCHANGED << vault, vaultEdits, disk, leased, services, agent, dispatch, cancel, driftTold,
                     parked, stray, changed, crossed >>
    BY <1>1 DEF provVars
  <2>2. ProvTyped' /\ DispatchOK'
    BY <2>1 DEF ProvInv, ProvTyped, DispatchOK
  <2>3. FilesKnown' /\ CancelOK' /\ PoolOK'
    BY <2>1 DEF ProvInv, FilesKnown, CancelOK, PoolOK, Quiet
  <2> QED
    BY <2>2, <2>3 DEF ProvInv
<1>2. CASE ProvNext
  <2>1. CASE \E k \in EnvKeys : DeleteEntry(k) \/ \E t \in Targets : SetEntry(k, t)
    BY <2>1, ProvVault
  <2>2. CASE Dispatching
    BY <2>2, ProvLease, ProvReadVault, ProvWriteFile, ProvFilesWritten, ProvStartService,
       ProvServicesStarted, ProvLaunch DEF Dispatching
  <2>3. CASE Cancelling \/ ShredFails
    BY <2>3, ProvKill, ProvFindHeld, ProvStop, ProvDrift, ProvFindPaths, ProvShred, ProvRelease
    DEF Cancelling
  <2>4. CASE AgentEnds \/ \E t \in Targets : AgentEdits(t)
    BY <2>4, ProvAgent
  <2>5. CASE Settle \/ CrashDaemon
    BY <2>5, ProvCrash
  <2> QED
    BY <1>2, <2>1, <2>2, <2>3, <2>4, <2>5 DEF ProvNext
<1> QED
  BY <1>1, <1>2

LEMMA ProvHold == ProvInv => ProvTypeOK /\ NothingRides /\ NothingRuns
<1> SUFFICES ASSUME ProvInv PROVE ProvTypeOK /\ NothingRides /\ NothingRuns
  OBVIOUS
<1>1. ProvTyped /\ DispatchOK /\ PoolOK
  BY DEF ProvInv
<1>2. NothingRides /\ NothingRuns
  BY <1>1 DEF PoolOK, Quiet, NothingRides, NothingRuns
<1>3. ProvTypeOK
  <2>1. /\ vault \in [EnvKeys -> {NoEntry} \cup [target : Targets, value : 1 .. MaxVaultEdits]]
        /\ vaultEdits \in 0 .. MaxVaultEdits /\ disk \in [Targets -> {Edited} \cup 0 .. MaxVaultEdits]
        /\ {leased, agent, parked, crossed} \subseteq BOOLEAN /\ services \subseteq Services
    BY <1>1 DEF ProvTyped, Vaults, FileEntries, Contents
  <2>2. /\ dispatch.at \in {"idle", "files", "services", "launch"}
        /\ dispatch.up \cup dispatch.failed \subseteq Services
        /\ dispatch.up \cap dispatch.failed = {}
        /\ cancel.at \in {"idle", "held", "services", "drift", "paths", "shred"}
        /\ driftTold \cup stray \cup changed \cup cancel.left \subseteq Targets
    BY <1>1 DEF ProvTyped, DispatchOK
  <2> QED
    BY <2>1, <2>2 DEF ProvTypeOK
<1> QED
  BY <1>2, <1>3

\* What the steps of DriftIsTold and NoAgentWithoutServices say.
DriftStep ==
    \A t \in Targets : disk[t] = Edited /\ disk'[t] = NotThere /\ ~agent =>
        t \in driftTold \/ t \in stray \cup changed \/ crossed

ServicesStep == ~agent /\ agent' => Required \cap dispatch.failed = {} /\ Required \subseteq dispatch.up

\* Only a shredding that was told of, or one that a dispatch crossed, removes what
\* an agent that is gone has edited.
LEMMA DriftKept ==
    ASSUME ProvInv, ProvNext \/ UNCHANGED provVars
    PROVE  DriftStep
<1> SUFFICES ASSUME NEW t \in Targets, disk[t] = Edited, disk'[t] = NotThere, ~agent,
                    t \notin driftTold, t \notin stray \cup changed, ~crossed
             PROVE  FALSE
  BY DEF DriftStep
<1>1. disk' # disk
  BY DEF Edited, NotThere
<1>2. ~Quiet => ~(cancel.at = "shred")
  BY DEF ProvInv, CancelOK
<1>3. CASE Shred
  <2>1. cancel.at = "shred"
    BY <1>3 DEF Shred, InCancel
  <2> QED
    BY <2>1 DEF ProvInv, CancelOK
<1>4. CASE WriteEnvFile
  <2> DEFINE k == Least(dispatch.left)
             e == dispatch.snapshot[1][k]
  <2>1. dispatch.at = "files" /\ dispatch.left # {} /\ disk' = [disk EXCEPT ![e.target] = e.value]
    BY <1>4 DEF WriteEnvFile, InDispatch
  <2>2. ProvTyped /\ DispatchOK
    BY DEF ProvInv
  <2>3. k \in dispatch.left /\ k \in EnvKeys
    <3>1. dispatch.left \subseteq EnvKeys
      BY <2>1, <2>2 DEF DispatchOK
    <3> QED
      BY <3>1, <2>1, ProvFacts, LeastIn
  <2>4. PICK v \in Vaults : dispatch.snapshot = << v >> /\ e # NoEntry
    BY <2>1, <2>2, <2>3 DEF ProvTyped, Snapshots, DispatchOK
  <2>5. e = v[k] /\ e.value \in 1 .. MaxVaultEdits
    BY <2>3, <2>4, TargetsAre
  <2>6. e.value # NotThere
    BY <2>5, ProvFacts DEF NotThere
  <2> HIDE DEF e
  <2>7. disk'[t] = disk[t] \/ disk'[t] = e.value
    BY <2>1, <2>2 DEF ProvTyped
  <2> QED
    BY <2>6, <2>7 DEF Edited, NotThere
<1>5. CASE \E u \in Targets : AgentEdits(u)
  BY <1>5 DEF AgentEdits
<1>6. CASE UNCHANGED provVars
  BY <1>1, <1>6 DEF provVars
<1>7. CASE \E k \in EnvKeys : DeleteEntry(k) \/ \E u \in Targets : SetEntry(k, u)
  BY <1>1, <1>7 DEF DeleteEntry, SetEntry
<1>8. CASE Lease \/ ReadVault \/ FilesWritten \/ StartService \/ ServicesStarted \/ Launch
  BY <1>1, <1>8 DEF Lease, ReadVault, FilesWritten, StartService, ServicesStarted, Launch, envVars
<1>9. CASE KillSessions \/ FindHeld \/ StopServices \/ RaiseDrift \/ FindPaths \/ Release \/ ShredFails
  BY <1>1, <1>9 DEF KillSessions, FindHeld, StopServices, RaiseDrift, FindPaths, Release,
                    ShredFails, envVars
<1>10. CASE AgentEnds \/ Settle \/ CrashDaemon
  BY <1>1, <1>10 DEF AgentEnds, Settle, CrashDaemon, envVars
<1> QED
  BY <1>3, <1>4, <1>5, <1>6, <1>7, <1>8, <1>9, <1>10 DEF ProvNext, Dispatching, Cancelling

\* Only Launch starts an agent.
LEMMA ServicesKept ==
    ASSUME ProvInv, ProvNext \/ UNCHANGED provVars
    PROVE  ServicesStep
<1> SUFFICES ASSUME ~agent, agent' PROVE Required \cap dispatch.failed = {} /\ Required \subseteq dispatch.up
  BY DEF ServicesStep
<1>1. CASE Launch
  <2>1. dispatch.at = "launch"
    BY <1>1 DEF Launch, InDispatch
  <2> QED
    BY <2>1 DEF ProvInv, DispatchOK
<1>2. CASE UNCHANGED provVars
  BY <1>2 DEF provVars
<1>3. CASE \E k \in EnvKeys : DeleteEntry(k) \/ \E u \in Targets : SetEntry(k, u)
  BY <1>3 DEF DeleteEntry, SetEntry, jobVars
<1>4. CASE Lease \/ ReadVault \/ WriteEnvFile \/ FilesWritten \/ StartService \/ ServicesStarted
  BY <1>4 DEF Lease, ReadVault, WriteEnvFile, FilesWritten, StartService, ServicesStarted, jobVars
<1>5. CASE KillSessions \/ FindHeld \/ StopServices \/ RaiseDrift \/ FindPaths \/ Shred \/ Release
           \/ ShredFails
  BY <1>5 DEF KillSessions, FindHeld, StopServices, RaiseDrift, FindPaths, Shred, Release,
              ShredFails, jobVars
<1>6. CASE AgentEnds \/ Settle \/ CrashDaemon \/ \E u \in Targets : AgentEdits(u)
  BY <1>6 DEF AgentEnds, Settle, CrashDaemon, AgentEdits
<1> QED
  BY <1>1, <1>2, <1>3, <1>4, <1>5, <1>6 DEF ProvNext, Dispatching, Cancelling

--------------------------------------------------------------------------------
(* The recipes.                                                                *)

\* The results of n steps from x, each of the step's number and the result before it.
IsResults(f, x, G, n) == f[0] = x /\ \A k \in 1 .. n : f[k] = G[<< k, f[k - 1] >>]

\* Steps of a function of the step's number and the result before it have a
\* sequence of results.
LEMMA ResultsExist ==
    ASSUME NEW W, NEW x \in W, NEW G \in [Nat \X W -> W], NEW n \in Nat
    PROVE  \E f \in [0 .. n -> W] : IsResults(f, x, G, n)
<1> DEFINE Has(m) == \E f \in [0 .. m -> W] : f[0] = x /\ \A k \in 1 .. m : f[k] = G[<< k, f[k - 1] >>]
           Not == {m \in Nat : ~ Has(m)}
<1>1. Has(0)
  <2>1. [k \in 0 .. 0 |-> x] \in [0 .. 0 -> W] /\ [k \in 0 .. 0 |-> x][0] = x
    OBVIOUS
  <2>2. 1 .. 0 = {}
    OBVIOUS
  <2> QED
    BY <2>1, <2>2
<1>2. ASSUME NEW m \in Nat, Has(m) PROVE Has(m + 1)
  <2>1. PICK f \in [0 .. m -> W] : f[0] = x /\ \A k \in 1 .. m : f[k] = G[<< k, f[k - 1] >>]
    BY <1>2
  <2> DEFINE g == [k \in 0 .. m + 1 |-> IF k = m + 1 THEN G[<< m + 1, f[m] >>] ELSE f[k]]
  <2>2. f[m] \in W /\ G[<< m + 1, f[m] >>] \in W
    <3>1. m \in 0 .. m /\ m + 1 \in Nat
      OBVIOUS
    <3> QED
      BY <2>1, <3>1
  <2>3. g \in [0 .. m + 1 -> W]
    BY <2>1, <2>2
  <2>4. g[0] = x
    BY <2>1
  <2>5. ASSUME NEW k \in 1 .. m + 1 PROVE g[k] = G[<< k, g[k - 1] >>]
    <3>1. k - 1 \in 0 .. m + 1 /\ k - 1 # m + 1 /\ g[k - 1] = f[k - 1]
      OBVIOUS
    <3>2. CASE k = m + 1
      <4>1. k - 1 = m
        BY <3>2
      <4> QED
        BY <3>1, <3>2, <4>1
    <3>3. CASE k # m + 1
      <4>1. k \in 1 .. m /\ g[k] = f[k]
        BY <3>3
      <4> QED
        BY <2>1, <3>1, <4>1
    <3> QED
      BY <3>2, <3>3
  <2> HIDE DEF g
  <2> QED
    BY <2>3, <2>4, <2>5
<1> HIDE DEF Has
<1>3. Not = {}
  <2> SUFFICES ASSUME Not # {} PROVE FALSE
    OBVIOUS
  <2>1. /\ Least(Not) \in Nat /\ ~ Has(Least(Not)) /\ \A y \in Not : Least(Not) <= y
    BY LeastIn
  <2>2. PICK m : m = Least(Not) - 1
    OBVIOUS
  <2>3. Least(Not) # 0 /\ m \in Nat /\ m + 1 = Least(Not) /\ m < Least(Not)
    BY <1>1, <2>1, <2>2
  <2>4. Has(m)
    BY <2>1, <2>3
  <2> QED
    BY <1>2, <2>1, <2>3, <2>4
<1> QED
  BY <1>3 DEF Has, IsResults

\* What a file may be, and where a walk may stand.
Sources == Files \cup {NoFile}
RecipeTyped == file \in [Scopes -> [Recipes -> Sources]] /\ edits \in 0 .. MaxEdits

Walks == {w \in [path : Seq(Entries), end : {"walking", "ok", "missing", "cycle"}] : Len(w.path) > 0}

\* Among some entries there is one of the most specific scope.
LEMMA TopmostIs ==
    ASSUME NEW S, S \subseteq Scopes \X Recipes, S # {}
    PROVE  Topmost(S) \in S /\ \A d \in S : d[1] <= Topmost(S)[1]
<1>1. \A d \in S : d[1] \in 1 .. 3
  BY DEF Scopes
<1>2. \E e \in S : \A d \in S : d[1] <= e[1]
  <2>1. CASE \E e \in S : e[1] = 3
    BY <1>1, <2>1
  <2>2. CASE (\A e \in S : e[1] # 3) /\ \E e \in S : e[1] = 2
    BY <1>1, <2>2
  <2>3. CASE \A e \in S : e[1] # 3 /\ e[1] # 2
    BY <1>1, <2>3
  <2> QED
    BY <2>1, <2>2, <2>3
<1> QED
  BY <1>2 DEF Topmost

\* An entry has a parsable file.
LEMMA EntryIs ==
    ASSUME RecipeTyped, NEW e \in Entries
    PROVE  /\ e \in Scopes \X Recipes /\ e[1] \in Scopes /\ e[2] \in Recipes
           /\ At(e) \in Files /\ At(e) \in Content /\ At(e) # NoFile
           /\ At(e).extends \in Recipes \cup {NoParent}
<1>1. e \in Scopes \X Recipes /\ Parsable(At(e))
  BY DEF Entries, At
<1>2. e[1] \in Scopes /\ e[2] \in Recipes
  BY <1>1
<1>3. At(e) \in Sources
  BY <1>2 DEF RecipeTyped, At
<1>4. At(e).kind = "recipe"
  BY <1>1 DEF Parsable
<1>5. At(e) \in Content
  BY <1>3, <1>4, RecipeAssumption DEF Sources, NoFile, Malformed
<1>6. At(e) # NoFile
  BY <1>4 DEF NoFile
<1> QED
  BY <1>1, <1>2, <1>3, <1>5, <1>6 DEF Sources, Content

\* The entry a walk goes on to.
LEMMA CandidateIs ==
    ASSUME NEW e, Candidates(e) # {}
    PROVE  /\ Topmost(Candidates(e)) \in Entries
           /\ Topmost(Candidates(e))[2] = At(e).extends
           /\ At(e).extends = e[2] => Topmost(Candidates(e))[1] < e[1]
           /\ \A d \in Candidates(e) : d[1] <= Topmost(Candidates(e))[1]
<1>1. Candidates(e) \subseteq Scopes \X Recipes
  BY DEF Candidates, Named, Entries
<1>2. /\ Topmost(Candidates(e)) \in Candidates(e)
      /\ \A d \in Candidates(e) : d[1] <= Topmost(Candidates(e))[1]
  BY <1>1, TopmostIs
<1> QED
  BY <1>2 DEF Candidates, Named

\* Where a step of a walk leads, case by case.
LEMMA AscendIs ==
    ASSUME RecipeTyped, NEW w \in Walks
    PROVE  LET at == w.path[Len(w.path)]
               p  == Topmost(Candidates(at))
           IN  /\ Ascend(w) \in Walks
               /\ w.end # "walking" => Ascend(w) = w
               /\ w.end = "walking" =>
                    \/ /\ Ascend(w).path = w.path /\ Ascend(w).end = "ok" /\ At(at).extends = NoParent
                    \/ /\ Ascend(w).path = w.path /\ Ascend(w).end = "missing"
                       /\ At(at).extends # NoParent /\ Candidates(at) = {}
                    \/ /\ Ascend(w).path = w.path /\ Ascend(w).end = "cycle"
                       /\ At(at).extends # NoParent /\ Candidates(at) # {}
                       /\ p \in Range(w.path) \/ Len(w.path) > MAX_EXTENDS_DEPTH
                    \/ /\ Ascend(w).path = Append(w.path, p) /\ Ascend(w).end = "walking"
                       /\ At(at).extends # NoParent /\ Candidates(at) # {}
                       /\ p \notin Range(w.path) /\ Len(w.path) <= MAX_EXTENDS_DEPTH
<1> DEFINE at == w.path[Len(w.path)]
           p  == Topmost(Candidates(at))
<1>1. /\ w = [path |-> w.path, end |-> w.end] /\ w.path \in Seq(Entries) /\ Len(w.path) \in Nat
      /\ w.end \in {"walking", "ok", "missing", "cycle"} /\ Len(w.path) > 0
  BY DEF Walks
<1>2. Last(w.path) = at
  BY DEF Last
<1>3. CASE w.end # "walking"
  BY <1>1, <1>3 DEF Ascend
<1>4. CASE w.end = "walking" /\ At(at).extends = NoParent
  BY <1>1, <1>2, <1>4 DEF Ascend, Walks
<1>5. CASE w.end = "walking" /\ At(at).extends # NoParent /\ Candidates(at) = {}
  BY <1>1, <1>2, <1>5 DEF Ascend, Walks
<1>6. CASE /\ w.end = "walking" /\ At(at).extends # NoParent /\ Candidates(at) # {}
           /\ p \in Range(w.path) \/ Len(w.path) > MAX_EXTENDS_DEPTH
  BY <1>1, <1>2, <1>6 DEF Ascend, Walks
<1>7. CASE /\ w.end = "walking" /\ At(at).extends # NoParent /\ Candidates(at) # {}
           /\ ~(p \in Range(w.path) \/ Len(w.path) > MAX_EXTENDS_DEPTH)
  <2>1. p \in Entries
    BY <1>7, CandidateIs
  <2>2. Ascend(w) = [w EXCEPT !.path = Append(@, p)]
    BY <1>2, <1>7 DEF Ascend
  <2>3. Append(w.path, p) \in Seq(Entries) /\ Len(Append(w.path, p)) = Len(w.path) + 1
    BY <1>1, <2>1
  <2> HIDE DEF p, at
  <2>4. Ascend(w) = [path |-> Append(w.path, p), end |-> w.end]
    BY <1>1, <2>2
  <2>5. Ascend(w) \in Walks
    BY <1>1, <2>3, <2>4 DEF Walks
  <2> QED
    BY <1>1, <1>7, <2>4, <2>5 DEF at, p, MAX_EXTENDS_DEPTH
<1> QED
  BY <1>3, <1>4, <1>5, <1>6, <1>7

\* The walk from an entry is what its steps make of it.
LEMMA WalkIs ==
    ASSUME RecipeTyped, NEW e \in Entries
    PROVE  \E walk :
              /\ walk[0] = [path |-> << e >>, end |-> "walking"]
              /\ \A k \in 1 .. Depth : walk[k] = Ascend(walk[k - 1])
              /\ Walk(e) = walk[Depth]
<1> DEFINE x == [path |-> << e >>, end |-> "walking"]
           G == [c \in Nat \X Walks |-> Ascend(c[2])]
           Rec(f) == f = [k \in 0 .. Depth |-> IF k = 0 THEN x ELSE Ascend(f[k - 1])]
<1>1. x \in Walks
  BY DEF Walks
<1>2. G \in [Nat \X Walks -> Walks]
  BY AscendIs
<1>d. Depth \in Nat
  BY DEF Depth, MAX_EXTENDS_DEPTH
<1>3. PICK f \in [0 .. Depth -> Walks] : f[0] = x /\ \A k \in 1 .. Depth : f[k] = G[<< k, f[k - 1] >>]
  <2> HIDE DEF x, G
  <2>1. \E f \in [0 .. Depth -> Walks] : IsResults(f, x, G, Depth)
    BY <1>1, <1>2, <1>d, ResultsExist
  <2> QED
    BY <2>1 DEF IsResults
<1>4. \A k \in 1 .. Depth : G[<< k, f[k - 1] >>] = Ascend(f[k - 1])
  <2> SUFFICES ASSUME NEW k \in 1 .. Depth PROVE G[<< k, f[k - 1] >>] = Ascend(f[k - 1])
    OBVIOUS
  <2>1. k - 1 \in 0 .. Depth /\ k \in Nat
    BY <1>d
  <2> QED
    BY <1>3, <2>1
<1>5. Rec(f)
  <2> HIDE DEF x, G
  <2>1. \A k \in 0 .. Depth : k # 0 => k \in 1 .. Depth
    BY <1>d
  <2>2. \A k \in 0 .. Depth : f[k] = IF k = 0 THEN x ELSE Ascend(f[k - 1])
    BY <1>3, <1>4, <2>1
  <2> QED
    BY <1>3, <2>2
<1>6. PICK walk : walk = CHOOSE g : Rec(g)
  OBVIOUS
<1>7. Rec(walk)
  <2> HIDE DEF Rec
  <2> QED
    BY <1>5, <1>6
<1>8. Walk(e) = walk[Depth]
  BY <1>6 DEF Walk
<1> HIDE DEF x
<1>9. walk[0] = x /\ \A k \in 1 .. Depth : walk[k] = Ascend(walk[k - 1])
  BY <1>d, <1>7
<1> QED
  BY <1>8, <1>9 DEF x

\* A walk from e has come to w.
OnWay(e, w) ==
    /\ w \in Walks /\ w.path[1] = e /\ Len(w.path) <= MAX_EXTENDS_DEPTH + 1
    /\ \A i, j \in 1 .. Len(w.path) : w.path[i] = w.path[j] => i = j

\* Files of one name, each a tweak of a less specific one or a root.
Tweaked(e) == \A d \in Named(e[2]) : At(d).extends \in {e[2], NoParent}

\* A walk among the tweaks of one name goes down their scopes and leaves none out.
Descends(e, w) ==
    LET at == w.path[Len(w.path)]
    IN  /\ \A i \in 1 .. Len(w.path) : w.path[i] \in Named(e[2]) /\ at[1] <= w.path[i][1]
        /\ \A i \in 1 .. Len(w.path) - 1 : At(w.path[i]).extends = e[2]
        /\ \A d \in Named(e[2]) : d[1] <= e[1] => d[1] < at[1] \/ \E i \in 1 .. Len(w.path) : w.path[i] = d
        /\ Len(w.path) + at[1] <= e[1] + 1
        /\ w.end = "missing" => At(at).extends = e[2] /\ Candidates(at) = {}
        /\ w.end # "cycle"

LEMMA OnWayStep ==
    ASSUME RecipeTyped, NEW e \in Entries, NEW w, OnWay(e, w)
    PROVE  /\ OnWay(e, Ascend(w))
           /\ Ascend(w).end = "walking" => w.end = "walking" /\ Len(Ascend(w).path) = Len(w.path) + 1
<1> DEFINE at == w.path[Len(w.path)]
           p  == Topmost(Candidates(at))
<1>1. w \in Walks /\ w.path \in Seq(Entries) /\ Len(w.path) \in Nat /\ Len(w.path) > 0
  BY DEF OnWay, Walks
<1>2. Ascend(w) \in Walks
  BY <1>1, AscendIs
<1>3. CASE w.end # "walking"
  <2>1. Ascend(w) = w
    BY <1>1, <1>3, AscendIs
  <2> QED
    BY <1>3, <2>1
<1>4. CASE w.end = "walking" /\ Ascend(w).path = w.path /\ Ascend(w).end # "walking"
  BY <1>2, <1>4 DEF OnWay
<1>5. CASE /\ Ascend(w).path = Append(w.path, p) /\ w.end = "walking"
           /\ p \notin Range(w.path) /\ Len(w.path) <= MAX_EXTENDS_DEPTH
  <2>1. \A i \in 1 .. Len(w.path) : w.path[i] # p
    BY <1>1, <1>5 DEF Range
  <2>2. Ascend(w).path \in Seq(Entries)
    BY <1>2 DEF Walks
  <2> HIDE DEF p, at
  <2>3. /\ Len(Ascend(w).path) = Len(w.path) + 1 /\ Ascend(w).path[Len(w.path) + 1] = p
        /\ \A i \in 1 .. Len(w.path) : Ascend(w).path[i] = w.path[i]
    BY <1>1, <1>5
  <2>4. Len(Ascend(w).path) <= MAX_EXTENDS_DEPTH + 1
    BY <1>1, <1>5, <2>3 DEF MAX_EXTENDS_DEPTH
  <2>5. Ascend(w).path[1] = e
    BY <1>1, <2>3 DEF OnWay
  <2>6. \A i \in 1 .. Len(Ascend(w).path) : i \in 1 .. Len(w.path) \/ i = Len(w.path) + 1
    BY <1>1, <2>3
  <2>7. ASSUME NEW i \in 1 .. Len(Ascend(w).path), NEW j \in 1 .. Len(Ascend(w).path),
               Ascend(w).path[i] = Ascend(w).path[j]
        PROVE  i = j
    <3>1. i \in 1 .. Len(w.path) => Ascend(w).path[i] # p
      BY <2>1, <2>3
    <3>2. j \in 1 .. Len(w.path) => Ascend(w).path[j] # p
      BY <2>1, <2>3
    <3>3. CASE i \in 1 .. Len(w.path) /\ j \in 1 .. Len(w.path)
      BY <2>3, <2>7, <3>3 DEF OnWay
    <3> QED
      BY <2>3, <2>6, <2>7, <3>1, <3>2, <3>3
  <2> QED
    BY <1>2, <1>5, <2>3, <2>4, <2>5, <2>7 DEF OnWay
<1> QED
  BY <1>1, <1>3, <1>4, <1>5, AscendIs

LEMMA DescendsStep ==
    ASSUME RecipeTyped, NEW e \in Entries, Tweaked(e), NEW w, OnWay(e, w), Descends(e, w)
    PROVE  Descends(e, Ascend(w))
<1> DEFINE at == w.path[Len(w.path)]
           p  == Topmost(Candidates(at))
<1>1. w \in Walks /\ w.path \in Seq(Entries) /\ Len(w.path) \in Nat /\ Len(w.path) > 0
  BY DEF OnWay, Walks
<1>2. /\ at \in Named(e[2]) /\ at \in Entries /\ at[2] = e[2] /\ At(at).extends \in {e[2], NoParent}
      /\ at[1] \in Scopes /\ e[1] \in Scopes
  <2>1. at \in Named(e[2])
    BY <1>1 DEF Descends
  <2> HIDE DEF at
  <2>2. at \in Entries /\ at[2] = e[2] /\ At(at).extends \in {e[2], NoParent}
    BY <2>1 DEF Named, Tweaked
  <2> QED
    BY <2>1, <2>2, EntryIs
<1>3. CASE w.end # "walking"
  <2>1. Ascend(w) = w
    BY <1>1, <1>3, AscendIs
  <2> QED
    BY <2>1
<1>4. CASE Ascend(w).path = w.path /\ Ascend(w).end = "ok"
  BY <1>4 DEF Descends
<1>5. CASE /\ Ascend(w).path = w.path /\ Ascend(w).end = "missing"
           /\ At(at).extends # NoParent /\ Candidates(at) = {}
  BY <1>2, <1>5 DEF Descends
<1>6. ASSUME At(at).extends # NoParent, Candidates(at) # {}
      PROVE  /\ p \in Named(e[2]) /\ p[1] < at[1] /\ p[1] \in Scopes /\ p \notin Range(w.path)
             /\ At(at).extends = e[2]
             /\ \A d \in Named(e[2]) : d[1] < at[1] => d[1] <= p[1]
             /\ Len(w.path) <= MAX_EXTENDS_DEPTH
  <2>1. At(at).extends = e[2]
    BY <1>2, <1>6
  <2>2. p \in Entries /\ p[2] = e[2] /\ p[1] < at[1] /\ \A d \in Candidates(at) : d[1] <= p[1]
    BY <1>2, <1>6, <2>1, CandidateIs
  <2>3. p[1] \in Scopes
    <3> HIDE DEF p
    <3> QED
      BY <2>2, EntryIs
  <2>4. \A d \in Named(e[2]) : d[1] < at[1] => d \in Candidates(at)
    BY <1>2, <2>1 DEF Candidates
  <2>5. \A i \in 1 .. Len(w.path) : at[1] <= w.path[i][1]
    BY DEF Descends
  <2>6. Len(w.path) + at[1] <= e[1] + 1
    BY DEF Descends
  <2> HIDE DEF p, at
  <2>7. Len(w.path) <= MAX_EXTENDS_DEPTH
    BY <1>1, <1>2, <2>6 DEF MAX_EXTENDS_DEPTH, Scopes
  <2>8. ASSUME NEW i \in 1 .. Len(w.path), w.path[i] = p PROVE FALSE
    BY <1>2, <2>2, <2>3, <2>5, <2>8 DEF Scopes
  <2>9. p \notin Range(w.path)
    BY <1>1, <2>8 DEF Range
  <2> QED
    BY <2>1, <2>2, <2>3, <2>4, <2>7, <2>9 DEF Named
<1>7. CASE /\ Ascend(w).path = Append(w.path, p) /\ Ascend(w).end = "walking"
           /\ At(at).extends # NoParent /\ Candidates(at) # {}
  <2> DEFINE v == Ascend(w).path
  <2>1. v = Append(w.path, p) /\ Ascend(w).path = v
    BY <1>7
  <2>0. at = w.path[Len(w.path)]
    OBVIOUS
  <2>6. /\ p \in Named(e[2]) /\ p[1] < at[1] /\ p[1] \in Scopes /\ At(at).extends = e[2]
        /\ \A d \in Named(e[2]) : d[1] < at[1] => d[1] <= p[1]
    BY <1>6, <1>7
  <2>7. \A d \in Named(e[2]) : d[1] \in Scopes /\ (d[1] = p[1] => d = p)
    <3>1. \A d \in Named(e[2]) : d \in Scopes \X Recipes /\ d[2] = e[2]
      BY DEF Named, Entries
    <3> HIDE DEF p
    <3> QED
      BY <2>6, <3>1
  <2> HIDE DEF p, at, v
  <2>2. /\ Len(v) = Len(w.path) + 1 /\ v[Len(v)] = p /\ v[Len(w.path)] = at
        /\ \A i \in 1 .. Len(w.path) : v[i] = w.path[i]
        /\ \A i \in 1 .. Len(v) : i \in 1 .. Len(w.path) \/ i = Len(v)
        /\ 1 .. Len(w.path) \subseteq 1 .. Len(v) /\ Len(v) \in 1 .. Len(v)
    BY <1>1, <2>0, <2>1
  <2>3. \A i \in 1 .. Len(v) : v[i] \in Named(e[2]) /\ p[1] <= v[i][1]
    <3>1. ASSUME NEW i \in 1 .. Len(w.path) PROVE v[i] \in Named(e[2]) /\ p[1] <= v[i][1]
      <4>1. v[i] = w.path[i] /\ w.path[i] \in Named(e[2]) /\ at[1] <= w.path[i][1]
        BY <2>0, <2>2 DEF Descends
      <4>2. v[i][1] \in Scopes
        BY <2>7, <4>1
      <4> QED
        BY <1>2, <2>6, <4>1, <4>2 DEF Scopes
    <3> QED
      BY <2>2, <2>6, <3>1 DEF Scopes
  <2>4. \A i \in 1 .. Len(v) - 1 : At(v[i]).extends = e[2]
    <3>1. \A i \in 1 .. Len(v) - 1 : i \in 1 .. Len(w.path) /\ (i \in 1 .. Len(w.path) - 1 \/ v[i] = at)
      BY <1>1, <2>2
    <3>2. \A i \in 1 .. Len(w.path) - 1 : At(w.path[i]).extends = e[2]
      BY DEF Descends
    <3> QED
      BY <2>2, <2>6, <3>1, <3>2
  <2>5. ASSUME NEW d \in Named(e[2]), d[1] <= e[1]
        PROVE  d[1] < p[1] \/ \E i \in 1 .. Len(v) : v[i] = d
    <3>1. d[1] < at[1] \/ \E i \in 1 .. Len(w.path) : w.path[i] = d
      BY <2>0, <2>5 DEF Descends
    <3>2. CASE d[1] < at[1]
      BY <2>2, <2>6, <2>7, <3>2 DEF Scopes
    <3> QED
      BY <2>2, <3>1, <3>2
  <2>8. Len(v) + p[1] <= e[1] + 1
    <3>1. Len(w.path) + at[1] <= e[1] + 1
      BY <2>0 DEF Descends
    <3> QED
      BY <1>1, <1>2, <2>2, <2>6, <3>1 DEF Scopes
  <2> QED
    BY <1>7, <2>1, <2>2, <2>3, <2>4, <2>5, <2>8 DEF Descends
<1>8. CASE w.end = "walking"
  <2>1. ~(/\ At(at).extends # NoParent /\ Candidates(at) # {}
          /\ p \in Range(w.path) \/ Len(w.path) > MAX_EXTENDS_DEPTH)
    <3>1. Len(w.path) > MAX_EXTENDS_DEPTH => ~(Len(w.path) <= MAX_EXTENDS_DEPTH)
      BY <1>1 DEF MAX_EXTENDS_DEPTH
    <3> HIDE DEF p, at
    <3> QED
      BY <1>6, <3>1
  <2> QED
    BY <1>1, <1>4, <1>5, <1>7, <1>8, <2>1, AscendIs
<1> QED
  BY <1>3, <1>8

\* Every walk ends, among the tweaks of one name at a root or below all of them.
LEMMA WalkEnds ==
    ASSUME RecipeTyped, NEW e \in Entries
    PROVE  /\ OnWay(e, Walk(e)) /\ Walk(e).end # "walking"
           /\ Tweaked(e) => Descends(e, Walk(e))
<1>1. PICK walk : /\ walk[0] = [path |-> << e >>, end |-> "walking"]
                  /\ \A k \in 1 .. Depth : walk[k] = Ascend(walk[k - 1])
                  /\ Walk(e) = walk[Depth]
  BY WalkIs
<1> DEFINE Good(k) == /\ OnWay(e, walk[k]) /\ (walk[k].end = "walking" => Len(walk[k].path) = k + 1)
                      /\ Tweaked(e) => Descends(e, walk[k])
           Bad == {k \in 0 .. Depth : ~ Good(k)}
<1>d. Depth = 17 /\ MAX_EXTENDS_DEPTH = 16
  BY DEF Depth, MAX_EXTENDS_DEPTH
<1>2. Good(0)
  <2>1. /\ walk[0].path = << e >> /\ walk[0].end = "walking" /\ walk[0] \in Walks
        /\ Len(walk[0].path) = 1 /\ walk[0].path[1] = e
    BY <1>1 DEF Walks
  <2>2. OnWay(e, walk[0])
    BY <1>d, <2>1 DEF OnWay
  <2>3. e[1] \in Scopes /\ e \in Named(e[2])
    BY EntryIs DEF Named
  <2>4. \A d \in Named(e[2]) : d[1] <= e[1] => d[1] < e[1] \/ d = e
    <3>1. \A d \in Named(e[2]) : d \in Scopes \X Recipes /\ e \in Scopes \X Recipes /\ d[2] = e[2]
      BY DEF Named, Entries
    <3> QED
      BY <3>1 DEF Scopes
  <2>5. Descends(e, walk[0])
    BY <2>1, <2>3, <2>4 DEF Descends, Scopes
  <2> QED
    BY <2>1, <2>2, <2>5
<1>3. ASSUME NEW k \in 1 .. Depth, Good(k - 1) PROVE Good(k)
  <2>1. walk[k] = Ascend(walk[k - 1])
    BY <1>1
  <2>2. /\ OnWay(e, walk[k])
        /\ walk[k].end = "walking" =>
              walk[k - 1].end = "walking" /\ Len(walk[k].path) = Len(walk[k - 1].path) + 1
    BY <1>3, <2>1, OnWayStep
  <2>3. Tweaked(e) => Descends(e, walk[k])
    BY <1>3, <2>1, DescendsStep
  <2>4. walk[k].end = "walking" => Len(walk[k].path) = k + 1
    BY <1>3, <1>d, <2>2
  <2> QED
    BY <2>2, <2>3, <2>4
<1> HIDE DEF Good
<1>4. Bad = {}
  <2> SUFFICES ASSUME Bad # {} PROVE FALSE
    OBVIOUS
  <2>1. Bad \subseteq Nat
    BY <1>d
  <2>2. Least(Bad) \in Bad /\ \A y \in Bad : Least(Bad) <= y
    BY <2>1, LeastIn
  <2>3. PICK k : k = Least(Bad)
    OBVIOUS
  <2>4. k \in 1 .. Depth /\ k - 1 \in 0 .. Depth /\ k - 1 < k
    BY <1>2, <1>d, <2>2, <2>3
  <2>5. Good(k - 1)
    BY <2>2, <2>3, <2>4
  <2> QED
    BY <1>3, <2>2, <2>3, <2>4, <2>5
<1>5. Good(Depth)
  BY <1>4, <1>d
<1>6. Walk(e).end # "walking"
  <2>1. Len(walk[Depth].path) <= MAX_EXTENDS_DEPTH + 1
    BY <1>5 DEF Good, OnWay
  <2>2. walk[Depth].end = "walking" => Len(walk[Depth].path) = Depth + 1
    BY <1>5 DEF Good
  <2>3. Len(walk[Depth].path) \in Nat
    BY <1>5 DEF Good, OnWay, Walks
  <2>4. PICK l : l = Len(walk[Depth].path)
    OBVIOUS
  <2>5. l <= 17 /\ l \in Nat /\ (walk[Depth].end = "walking" => l = 18)
    BY <1>d, <2>1, <2>2, <2>3, <2>4
  <2>6. l # 18
    BY <2>5
  <2> QED
    BY ONLY <1>1, <2>5, <2>6
<1> QED
  BY <1>1, <1>5, <1>6 DEF Good

\* The results of the merge are those of its steps.
LEMMA MergedIs ==
    ASSUME NEW files, Len(files) \in Nat \ {0}
    PROVE  \E merged :
              /\ merged[0] = Plain(files[Len(files)])
              /\ \A k \in 1 .. Len(files) - 1 : merged[k] = MergeOver(Plain(files[Len(files) - k]), merged[k - 1])
              /\ Merged(files) = merged[Len(files) - 1]
<1> DEFINE n == Len(files)
           Values == {files[k][b] : k \in 1 .. n, b \in Blocks}
           W == [Blocks -> Values]
           G == [c \in Nat \X W |-> IF c[1] \in 1 .. n - 1 THEN MergeOver(Plain(files[n - c[1]]), c[2]) ELSE c[2]]
           Rec(f) == f = [k \in 0 .. n - 1 |-> IF k = 0 THEN Plain(files[n])
                                               ELSE MergeOver(Plain(files[n - k]), f[k - 1])]
<1>1. \A k \in 1 .. n : Plain(files[k]) \in W
  BY DEF Plain
<1>2. ASSUME NEW c \in W, NEW d \in W PROVE MergeOver(c, d) \in W
  <2>1. \A b \in Blocks : (IF c[b] # Absent THEN c[b] ELSE d[b]) \in Values
    <3> HIDE DEF Values
    <3> QED
      BY <1>2
  <2> HIDE DEF Values
  <2> QED
    BY <2>1 DEF MergeOver
<1> HIDE DEF W
<1>3. G \in [Nat \X W -> W]
  <2>1. ASSUME NEW c \in Nat \X W, c[1] \in 1 .. n - 1 PROVE MergeOver(Plain(files[n - c[1]]), c[2]) \in W
    <3>1. n - c[1] \in 1 .. n /\ c[2] \in W
      BY <2>1
    <3> QED
      BY <1>1, <1>2, <3>1
  <2> QED
    BY <2>1
<1>4. n - 1 \in Nat /\ Plain(files[n]) \in W
  BY <1>1
<1>5. PICK f \in [0 .. n - 1 -> W] : IsResults(f, Plain(files[n]), G, n - 1)
  <2> HIDE DEF G
  <2> QED
    BY <1>3, <1>4, ResultsExist
<1>6. ASSUME NEW k \in 0 .. n - 1, k # 0 PROVE f[k] = MergeOver(Plain(files[n - k]), f[k - 1])
  <2>1. k \in 1 .. n - 1 /\ k - 1 \in 0 .. n - 1 /\ k \in Nat
    BY <1>4, <1>6
  <2>2. f[k] = G[<< k, f[k - 1] >>] /\ << k, f[k - 1] >> \in Nat \X W
    BY <1>5, <2>1 DEF IsResults
  <2> QED
    BY <2>1, <2>2
<1>7. Rec(f)
  <2>1. f[0] = Plain(files[n])
    BY <1>5 DEF IsResults
  <2>2. \A k \in 0 .. n - 1 : f[k] = IF k = 0 THEN Plain(files[n]) ELSE MergeOver(Plain(files[n - k]), f[k - 1])
    BY <1>6, <2>1
  <2> QED
    BY <1>5, <2>2
<1>8. PICK merged : merged = CHOOSE g : Rec(g)
  OBVIOUS
<1>9. Rec(merged)
  <2> HIDE DEF Rec
  <2> QED
    BY <1>7, <1>8
<1>10. Merged(files) = merged[n - 1]
  BY <1>8 DEF Merged
<1> HIDE DEF n
<1>11. /\ merged[0] = Plain(files[n])
       /\ \A k \in 1 .. n - 1 : merged[k] = MergeOver(Plain(files[n - k]), merged[k - 1])
  BY <1>4, <1>9
<1> QED
  BY <1>10, <1>11 DEF n

\* Each block is as the nearest file that has it states it.
LEMMA NearestWins ==
    ASSUME NEW files, Len(files) \in Nat, NEW b \in Blocks, NEW i \in 1 .. Len(files),
           files[i][b] # Absent, \A j \in 1 .. i - 1 : files[j][b] = Absent
    PROVE  Merged(files)[b] = files[i][b]
<1> DEFINE n == Len(files)
<1>n. n \in Nat \ {0} /\ i \in Nat /\ i >= 1 /\ i <= n
  OBVIOUS
<1>1. PICK merged :
              /\ merged[0] = Plain(files[n])
              /\ \A k \in 1 .. n - 1 : merged[k] = MergeOver(Plain(files[n - k]), merged[k - 1])
              /\ Merged(files) = merged[n - 1]
  BY <1>n, MergedIs
<1> DEFINE Bad == {k \in n - i .. n - 1 : merged[k][b] # files[i][b]}
<1> HIDE DEF n
<1>2. \A k \in 1 .. n - 1 : /\ files[n - k][b] # Absent => merged[k][b] = files[n - k][b]
                            /\ files[n - k][b] = Absent => merged[k][b] = merged[k - 1][b]
  <2> SUFFICES ASSUME NEW k \in 1 .. n - 1
               PROVE  /\ files[n - k][b] # Absent => merged[k][b] = files[n - k][b]
                      /\ files[n - k][b] = Absent => merged[k][b] = merged[k - 1][b]
    OBVIOUS
  <2>1. merged[k] = MergeOver(Plain(files[n - k]), merged[k - 1])
    BY <1>1
  <2>2. Plain(files[n - k])[b] = files[n - k][b]
    BY DEF Plain
  <2>3. \A c, d : MergeOver(c, d)[b] = IF c[b] # Absent THEN c[b] ELSE d[b]
    BY DEF MergeOver
  <2> QED
    BY <2>1, <2>2, <2>3
<1>3. merged[0][b] = files[n][b]
  BY <1>1 DEF Plain
<1>4. merged[n - i][b] = files[i][b]
  <2>1. CASE i = n
    BY <1>n, <1>3, <2>1
  <2>2. CASE i # n
    <3>1. n - i \in 1 .. n - 1 /\ n - (n - i) = i
      BY <1>n, <2>2
    <3> QED
      BY <1>2, <3>1
  <2> QED
    BY <2>1, <2>2
<1>5. Bad = {}
  <2> SUFFICES ASSUME Bad # {} PROVE FALSE
    OBVIOUS
  <2>1. Bad \subseteq Nat
    BY <1>n
  <2>2. Least(Bad) \in Bad /\ \A y \in Bad : Least(Bad) <= y
    BY <2>1, LeastIn
  <2>3. PICK k : k = Least(Bad)
    OBVIOUS
  <2>4. k \in n - i .. n - 1 /\ merged[k][b] # files[i][b] /\ k # n - i
    BY <1>4, <2>2, <2>3
  <2>5. k \in 1 .. n - 1 /\ k - 1 \in n - i .. n - 1 /\ k - 1 < k /\ n - k \in 1 .. i - 1
    BY <1>n, <2>4
  <2>6. merged[k - 1][b] = files[i][b]
    BY <2>2, <2>3, <2>5
  <2>7. files[n - k][b] = Absent
    BY <2>5
  <2> QED
    BY <1>2, <2>4, <2>5, <2>6, <2>7
<1>6. n - 1 \in n - i .. n - 1
  BY <1>n
<1> QED
  BY <1>1, <1>5, <1>6

\* What a recipe of that file over those parents elevates.
ElevatedBy(hash, parents) == Elevations(Merged(<< hash >> \o parents))

Grants == {NoGrant} \cup [hash : Files, parents : Seq(Files), listed : SUBSET {"mcp", "in_place", "no_gate", "local_merge"}]

\* A grant lists what its hash and the parents of its time elevate.
GrantOK(g) == g # NoGrant => g.listed = ElevatedBy(g.hash, g.parents)

\* What ran was elevated by the granted file over the parents of the dispatch.
RanOK ==
    /\ ran.name \in Recipes \cup {NoParent}
    /\ ran.elevations # {} =>
         /\ ran.by # NoGrant /\ GrantOK(ran.by)
         /\ ran.elevations = ElevatedBy(ran.by.hash, ran.parents)

RecipeInv ==
    /\ RecipeTyped /\ grant \in [Recipes -> Grants] /\ RanOK
    /\ \A n \in Recipes : GrantOK(grant[n])

\* What a name resolves to: the winning file over its parents.
LEMMA ResolveIs ==
    ASSUME RecipeTyped, NEW n \in Recipes, Resolve(n) # Unresolved
    PROVE  /\ Resolve(n).name = n /\ Resolve(n).hash \in Files /\ Resolve(n).parents \in Seq(Files)
           /\ Elevations(Resolve(n).blocks) = ElevatedBy(Resolve(n).hash, Resolve(n).parents)
<1> DEFINE w == Walk(Topmost(Named(n)))
           files == FilesOf(w.path)
<1>1. /\ Named(n) # {}
      /\ Resolve(n) = [name |-> n, blocks |-> Merged(files), hash |-> Head(files), parents |-> Tail(files)]
  BY DEF Resolve
<1>2. Topmost(Named(n)) \in Entries
  <2>1. Named(n) \subseteq Scopes \X Recipes /\ Named(n) \subseteq Entries
    BY DEF Named, Entries
  <2> QED
    BY <1>1, <2>1, TopmostIs
<1>3. w \in Walks
  BY <1>2, WalkEnds DEF OnWay
<1> HIDE DEF w
<1>4. w.path \in Seq(Entries) /\ Len(w.path) \in Nat \ {0}
  BY <1>3 DEF Walks
<1>5. \A i \in 1 .. Len(w.path) : At(w.path[i]) \in Files
  <2>1. \A i \in 1 .. Len(w.path) : w.path[i] \in Entries
    BY <1>4
  <2> QED
    BY <2>1, EntryIs
<1>6. files \in Seq(Files) /\ Len(files) = Len(w.path)
  BY <1>4, <1>5 DEF FilesOf
<1> HIDE DEF files
<1>7. files # << >> /\ Head(files) \in Files /\ Tail(files) \in Seq(Files) /\ files = << Head(files) >> \o Tail(files)
  BY <1>4, <1>6
<1>8. /\ Resolve(n).name = n /\ Resolve(n).blocks = Merged(files)
      /\ Resolve(n).hash = Head(files) /\ Resolve(n).parents = Tail(files)
  BY <1>1
<1>9. << Resolve(n).hash >> \o Resolve(n).parents = files
  BY ONLY <1>7, <1>8
<1> QED
  BY <1>7, <1>8, <1>9 DEF ElevatedBy

LEMMA RecipeStart == RecipeInit => RecipeInv
<1> SUFFICES ASSUME RecipeInit PROVE RecipeInv
  OBVIOUS
<1>1. RecipeTyped
  BY RecipeAssumption DEF RecipeInit, RecipeTyped, Scopes, Sources
<1>2. grant = [n \in Recipes |-> NoGrant] /\ ran.name = NoParent /\ ran.elevations = {}
  BY DEF RecipeInit
<1> QED
  BY <1>1, <1>2 DEF RecipeInv, GrantOK, RanOK, Grants

LEMMA RecipeSteps == RecipeInv /\ [RecipeNext]_recipeVars => RecipeInv'
<1> SUFFICES ASSUME RecipeInv, [RecipeNext]_recipeVars PROVE RecipeInv'
  OBVIOUS
<1>1. /\ RecipeTyped /\ grant \in [Recipes -> Grants] /\ RanOK
      /\ \A n \in Recipes : GrantOK(grant[n])
  BY DEF RecipeInv
<1>2. ASSUME NEW s \in Scopes, NEW n \in Recipes, NEW f \in Files \cup {NoFile}, WriteFile(s, n, f)
      PROVE  RecipeInv'
  <2>1. RecipeTyped'
    <3>1. edits' \in 0 .. MaxEdits
      BY <1>1, <1>2, RecipeAssumption DEF WriteFile, RecipeTyped
    <3>2. file' = [file EXCEPT ![s] = [file[s] EXCEPT ![n] = f]]
      BY <1>2 DEF WriteFile
    <3>3. [file[s] EXCEPT ![n] = f] \in [Recipes -> Sources]
      BY <1>1 DEF RecipeTyped, Sources
    <3> QED
      BY <1>1, <3>1, <3>2, <3>3 DEF RecipeTyped
  <2>2. UNCHANGED << grant, ran >>
    BY <1>2 DEF WriteFile
  <2> QED
    BY <1>1, <2>1, <2>2 DEF RecipeInv, RanOK, GrantOK
<1>3. ASSUME NEW n \in Recipes, Grant(n)
      PROVE  RecipeInv'
  <2> DEFINE r == Resolve(n)
             g == [hash |-> r.hash, parents |-> r.parents, listed |-> Elevations(r.blocks)]
  <2>1. r # Unresolved /\ grant' = [grant EXCEPT ![n] = g] /\ UNCHANGED << file, edits, ran >>
    BY <1>3 DEF Grant
  <2>2. /\ r.hash \in Files /\ r.parents \in Seq(Files)
        /\ Elevations(r.blocks) = ElevatedBy(r.hash, r.parents)
    BY <1>1, <2>1, ResolveIs
  <2>3. g \in Grants
    <3>1. Elevations(r.blocks) \subseteq {"mcp", "in_place", "no_gate", "local_merge"}
      BY DEF Elevations
    <3> QED
      BY <2>2, <3>1 DEF Grants
  <2>4. g.listed = ElevatedBy(g.hash, g.parents)
    BY <2>2
  <2> HIDE DEF g, r
  <2>5. grant' \in [Recipes -> Grants] /\ \A m \in Recipes : grant'[m] = g \/ grant'[m] = grant[m]
    BY <1>1, <2>1, <2>3
  <2>6. RecipeTyped' /\ RanOK'
    BY <1>1, <2>1 DEF RecipeTyped, RanOK, GrantOK
  <2>7. ASSUME NEW m \in Recipes PROVE GrantOK(grant'[m])
    BY <1>1, <2>4, <2>5 DEF GrantOK
  <2> QED
    BY <2>5, <2>6, <2>7 DEF RecipeInv, GrantOK
<1>4. ASSUME NEW n \in Recipes, RevokeGrant(n)
      PROVE  RecipeInv'
  <2>1. grant' = [grant EXCEPT ![n] = NoGrant] /\ UNCHANGED << file, edits, ran >>
    BY <1>4 DEF RevokeGrant
  <2>2. NoGrant \in Grants
    BY DEF Grants
  <2>3. grant' \in [Recipes -> Grants] /\ \A m \in Recipes : grant'[m] = NoGrant \/ grant'[m] = grant[m]
    BY <1>1, <2>1, <2>2
  <2>4. RecipeTyped' /\ RanOK'
    BY <1>1, <2>1 DEF RecipeTyped, RanOK, GrantOK
  <2> QED
    BY <1>1, <2>3, <2>4 DEF RecipeInv, GrantOK
<1>5. ASSUME NEW n \in Recipes, NEW capable, NEW ack, Dispatch(n, capable, ack)
      PROVE  RecipeInv'
  <2> DEFINE r == Resolve(n)
             x == Elevations(r.blocks)
  <2>1. /\ r # Unresolved /\ (x # {} => Granted(r))
        /\ ran' = [name |-> n, elevations |-> x, parents |-> r.parents, by |-> grant[n]]
        /\ UNCHANGED << file, edits, grant >>
    BY <1>5 DEF Dispatch
  <2>2. r.name = n /\ x = ElevatedBy(r.hash, r.parents)
    BY <1>1, <2>1, ResolveIs
  <2> HIDE DEF r, x
  <2>3. ran'.elevations # {} => /\ ran'.by # NoGrant /\ GrantOK(ran'.by)
                                /\ ran'.elevations = ElevatedBy(ran'.by.hash, ran'.parents)
    BY <1>1, <2>1, <2>2 DEF Granted
  <2>4. ran'.name = n
    BY <2>1
  <2>5. RanOK'
    BY <2>3, <2>4 DEF RanOK, GrantOK
  <2> QED
    BY <1>1, <2>1, <2>5 DEF RecipeInv, RecipeTyped, GrantOK
<1>6. CASE UNCHANGED recipeVars
  BY <1>1, <1>6 DEF recipeVars, RecipeInv, RecipeTyped, RanOK, GrantOK
<1>7. ASSUME NEW asked \in Recipes \cup {NoParent}, NEW dial \in Recipes \cup {NoParent}
      PROVE  Effective(asked, dial) \in Recipes
  BY RecipeAssumption DEF Effective
<1> QED
  BY <1>2, <1>3, <1>4, <1>5, <1>6, <1>7 DEF RecipeNext

LEMMA RecipesHold == RecipeInv => RecipeTypeOK /\ RecipesRunAsGranted
<1> SUFFICES ASSUME RecipeInv PROVE RecipeTypeOK /\ RecipesRunAsGranted
  OBVIOUS
<1>1. /\ RecipeTyped /\ grant \in [Recipes -> Grants] /\ RanOK
      /\ \A n \in Recipes : GrantOK(grant[n])
  BY DEF RecipeInv
<1>2. RecipeTypeOK
  <2>1. \A n \in Recipes : grant[n] = NoGrant \/ grant[n].hash \in Files
    BY <1>1 DEF Grants
  <2> QED
    BY <1>1, <2>1 DEF RecipeTypeOK, RecipeTyped, RanOK, Sources
<1>3. ResolvesToNearest
  <2> SUFFICES ASSUME NEW e \in Entries
               PROVE  LET w == Walk(e)
                      IN  /\ w.end # "walking"
                          /\ \A i, j \in DOMAIN w.path : w.path[i] = w.path[j] => i = j
                          /\ \A b \in Blocks, i \in DOMAIN w.path :
                               /\ w.end = "ok" /\ At(w.path[i])[b] # Absent
                               /\ \A j \in 1 .. i - 1 : At(w.path[j])[b] = Absent
                               => Merged(FilesOf(w.path))[b] = At(w.path[i])[b]
    BY DEF ResolvesToNearest
  <2> DEFINE w == Walk(e)
             files == FilesOf(w.path)
  <2>1. OnWay(e, w) /\ w.end # "walking"
    BY <1>1, WalkEnds
  <2> HIDE DEF w
  <2>2. DOMAIN w.path = 1 .. Len(w.path) /\ Len(w.path) \in Nat
    BY <2>1 DEF OnWay, Walks
  <2>3. \A i, j \in DOMAIN w.path : w.path[i] = w.path[j] => i = j
    BY <2>1, <2>2 DEF OnWay
  <2>4. Len(files) = Len(w.path) /\ \A i \in 1 .. Len(w.path) : files[i] = At(w.path[i])
    BY <2>2 DEF FilesOf
  <2> HIDE DEF files
  <2>5. ASSUME NEW b \in Blocks, NEW i \in DOMAIN w.path, At(w.path[i])[b] # Absent,
               \A j \in 1 .. i - 1 : At(w.path[j])[b] = Absent
        PROVE  Merged(files)[b] = At(w.path[i])[b]
    <3>1. i \in 1 .. Len(files) /\ files[i][b] # Absent /\ files[i] = At(w.path[i])
      BY <2>2, <2>4, <2>5
    <3>2. \A j \in 1 .. i - 1 : files[j][b] = Absent
      BY <2>2, <2>4, <2>5
    <3> QED
      BY <2>2, <2>4, <3>1, <3>2, NearestWins
  <2> QED
    BY <2>1, <2>3, <2>5 DEF w, files
<1>4. TweakingABundledRecipeWorks
  <2> SUFFICES ASSUME NEW e \in Entries, Tweaked(e), Walk(e).end # "ok", NEW d \in Named(e[2]), d[1] <= e[1]
               PROVE  At(d).extends = e[2]
    BY DEF TweakingABundledRecipeWorks, Tweaked
  <2> DEFINE w == Walk(e)
             at == w.path[Len(w.path)]
  <2>1. OnWay(e, w) /\ Descends(e, w) /\ w.end # "walking"
    BY <1>1, WalkEnds
  <2> HIDE DEF w
  <2>2. w \in Walks /\ Len(w.path) \in Nat /\ Len(w.path) > 0 /\ w.end \in {"walking", "ok", "missing", "cycle"}
    BY <2>1 DEF OnWay, Walks
  <2>3. w.end = "missing"
    BY <2>1, <2>2 DEF Descends, w
  <2>4. At(at).extends = e[2] /\ Candidates(at) = {} /\ at \in Named(e[2])
    BY <2>1, <2>2, <2>3 DEF Descends
  <2>5. d[1] < at[1] \/ \E i \in 1 .. Len(w.path) : w.path[i] = d
    BY <2>1 DEF Descends
  <2>6. \A i \in 1 .. Len(w.path) - 1 : At(w.path[i]).extends = e[2]
    BY <2>1 DEF Descends
  <2>7. CASE d[1] < at[1]
    <3> HIDE DEF at
    <3> QED
      BY <2>4, <2>7 DEF Candidates, Named
  <2>8. CASE \E i \in 1 .. Len(w.path) : w.path[i] = d
    <3>1. PICK i \in 1 .. Len(w.path) : w.path[i] = d
      BY <2>8
    <3>2. i \in 1 .. Len(w.path) - 1 \/ i = Len(w.path)
      BY <2>2
    <3> QED
      BY <2>4, <2>6, <3>1, <3>2
  <2> QED
    BY <2>5, <2>7, <2>8
<1>5. RunsAsGranted
  BY <1>1 DEF RanOK, GrantOK, RunsAsGranted
<1> QED
  BY <1>2, <1>3, <1>4, <1>5 DEF RecipesRunAsGranted

--------------------------------------------------------------------------------
(* The suite: each part keeps its invariant while another runs.                *)

StoreInv == CardsInv /\ RecipeInv /\ ProvInv /\ KnowInv

LEMMA StoreStart == MCInit => StoreInv
BY CardsStart, RecipeStart, ProvStart, KnowStart DEF MCInit, StoreInv

LEMMA PartsStep ==
    ASSUME [MCNext]_<< part, parts >>
    PROVE  /\ CardsNext \/ UNCHANGED cardVars
           /\ RecipeNext \/ UNCHANGED recipeVars
           /\ ProvNext \/ UNCHANGED provVars
           /\ KnowNext \/ UNCHANGED knowVars
<1>1. CASE UNCHANGED << part, parts >>
  BY <1>1 DEF parts
<1>2. CASE MCNext
  BY <1>2 DEF MCNext, CardsPart, RecipesPart, ProvisionsPart, KnowledgePart
<1> QED
  BY <1>1, <1>2

LEMMA StoreSteps == StoreInv /\ [MCNext]_<< part, parts >> => StoreInv'
<1> SUFFICES ASSUME StoreInv, [MCNext]_<< part, parts >> PROVE StoreInv'
  OBVIOUS
<1>1. CardsInv /\ RecipeInv /\ ProvInv /\ KnowInv
  BY DEF StoreInv
<1> QED
  BY <1>1, PartsStep, CardsSteps, RecipeSteps, ProvSteps, KnowSteps DEF StoreInv

LEMMA StoreStays == MCSpec => []StoreInv
<1> QED
  BY StoreStart, StoreSteps, PTL DEF MCSpec

\* Filing by origin: of one finding or one issue there is one card, the events of
\* a card tell it as long as no two handlers wrote it at a time, and the calls of
\* an agent overrun its budget by less than their number.
THEOREM CardsStayTrue == MCSpec => []CardsAgree
<1>1. StoreInv => CardsAgree
  BY CardsHold DEF StoreInv
<1> QED
  BY <1>1, StoreStays, PTL

\* What was decided of a card: a dismissed finding is not written by its refiling
\* (unless the dismissal came in between), and the card a session adopted stays its.
THEOREM DecisionsStand == MCSpec => CardsStand
<1>1. ASSUME StoreInv, [MCNext]_<< part, parts >>
      PROVE  DismissalStep /\ AdoptionStep
  BY <1>1, PartsStep, CardsStandStep DEF StoreInv
<1>2. StoreInv /\ [MCNext]_<< part, parts >> => [DismissalStep]_cardVars /\ [AdoptionStep]_cardVars
  BY <1>1
<1>3. MCSpec => [][DismissalStep]_cardVars /\ [][AdoptionStep]_cardVars
  BY <1>2, StoreStays, PTL DEF MCSpec
<1> QED
  BY <1>3, PTL DEF CardsStand, DismissalHolds, AdoptedForGood, DismissalStep, AdoptionStep

\* What a lease is given it gives back: a worktree of the pool has no file of the
\* vault's and nothing running, an agent's edit is told before it is shredded,
\* and no agent starts without the services it requires.
THEOREM ProvisionsStayKept == MCSpec => ProvisionsKept
<1>1. StoreInv => NothingRides /\ NothingRuns
  BY ProvHold DEF StoreInv
<1>2. ASSUME StoreInv, [MCNext]_<< part, parts >>
      PROVE  DriftStep /\ ServicesStep
  BY <1>2, PartsStep, DriftKept, ServicesKept DEF StoreInv
<1>3. StoreInv /\ [MCNext]_<< part, parts >> => [DriftStep]_provVars /\ [ServicesStep]_provVars
  BY <1>2
<1>4. MCSpec => [][DriftStep]_provVars /\ [][ServicesStep]_provVars
  BY <1>3, StoreStays, PTL DEF MCSpec
<1>5. MCSpec => []NothingRides /\ []NothingRuns
  BY <1>1, StoreStays, PTL
<1> QED
  BY <1>4, <1>5, PTL
  DEF ProvisionsKept, DriftIsTold, NoAgentWithoutServices, DriftStep, ServicesStep

\* `know add`: a call that ran alone leaves the index and the Catalog as the note
\* files are, and the Digest as it found it.
THEOREM AddsAloneAgree == MCSpec => []AloneAllAgree
<1>1. StoreInv => AloneAllAgree
  BY KnowHold DEF StoreInv
<1> QED
  BY <1>1, StoreStays, PTL

\* Recipes (RecipeConsent!RecipesRunAsGranted): resolution ends for every
\* arrangement of files and gives each block as the nearest file of the chain
\* states it, a tweak of a shadowed file of its own name resolves, and a dispatch
\* runs with no elevation its grant did not list unless a parent file changed.
THEOREM RecipesStayGranted == MCSpec => []RecipesRunAsGranted
<1>1. StoreInv => RecipesRunAsGranted
  BY RecipesHold DEF StoreInv
<1> QED
  BY <1>1, StoreStays, PTL

\* The variables of the four parts keep their types (MC_Store!StoreTypesOK).
THEOREM StoreTypes == MCSpec => []StoreTypesOK
<1>1. StoreInv => StoreTypesOK
  BY CardsHold, RecipesHold, ProvHold, KnowHold DEF StoreInv, StoreTypesOK
<1> QED
  BY <1>1, StoreStays, PTL
================================================================================
