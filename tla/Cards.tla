--------------------------------- MODULE Cards ---------------------------------
(***************************************************************************)
(* The board's cards in the store (store/cards.rs) and the daemon's        *)
(* handlers that write them (api.rs, github.rs): creating, updating and    *)
(* moving a card, and filing one by its origin, for an import of GitHub    *)
(* issues and for an agent with a card budget.  Connections run their      *)
(* handlers at the same time; each section that holds the store's lock, or *)
(* the token's, is one action.                                             *)
(*                                                                         *)
(* A card's history is kept as what its events tell of it: `told` is the   *)
(* card as one would rebuild it from the row that was created and the      *)
(* payloads of the events since.                                           *)
(***************************************************************************)
EXTENDS Integers, Sequences, FiniteSets

CONSTANTS
    Callers,      \* connections with a request of a human, an import or a gate
    AgentCalls,   \* connections of one session's `dflow` processes
    Refs,         \* what origins refer to: fingerprints, issue numbers
    Texts,        \* titles; type, priority and brief are written with them
    Dials,        \* recipes a card may be dialled to
    Lanes,        \* "inbox" and "done" among them
    CardBudget,   \* AgentToken.budget_cards
    MaxCards,     \* bound: cards
    MaxRequests   \* bound: requests served, an import's issues each for one

NoRef     == "no ref"
NoCardYet == 0
Same      == "unchanged"    \* a field of a CardPatch that is None

ASSUME CardsAssumption ==
    /\ {"inbox", "done"} \subseteq Lanes
    /\ NoRef \notin Refs /\ Same \notin Texts \cup Dials
    /\ Callers \cap AgentCalls = {} /\ IsFiniteSet(Callers \cup AgentCalls)
    /\ {CardBudget, MaxCards, MaxRequests} \subseteq Nat

VARIABLES
    audit,      \* whether the agent's token is an audit's
    cards,      \* the table `cards`: a sequence of rows
    told,       \* the same cards as their events tell them
    request,    \* what each connection's handler is doing
    issues,     \* what each connection's import has yet to file
    served,     \* requests taken up
    used,       \* TokenState.cards_used of the agent's token
    owned,      \* TokenState.created_cards
    adopted,    \* the card of the agent's session
    overlapped  \* cards written by a handler while another had read them

cardVars == << audit, cards, told, request, issues, served, used, owned, adopted, overlapped >>

Handlers == Callers \cup AgentCalls
Idle     == [at |-> "idle"]
Rows     == DOMAIN cards

Pick(new, old) == IF new = Same THEN old ELSE new

CardsInit ==
    /\ audit \in BOOLEAN
    /\ cards = << >> /\ told = << >>
    /\ request = [h \in Handlers |-> Idle] /\ issues = [h \in Handlers |-> << >>]
    /\ served = 0 /\ used = 0 /\ owned = {} /\ adopted = NoCardYet /\ overlapped = {}

-----------------------------------------------------------------------------
(* The store.                                                              *)

Row(origin, text, dial, lane) ==
    [origin |-> origin, text |-> text, dial |-> dial, lane |-> lane, dismissed |-> FALSE]

\* origin_kind and origin_ref: the agent's cards are of kind audit or manual,
\* an import's are issues.
Origin(h, ref) == << IF h \in AgentCalls THEN "filed" ELSE "imported", ref >>

\* get_card_by_origin.
ByOrigin(o) == {c \in Rows : cards[c].origin = o}

\* The index on (origin_kind, origin_ref), of cards that have a ref.
Unique(o) == o[2] = NoRef \/ ByOrigin(o) = {}

\* A slip: a card without its event.
InsertSilently(row) ==
    /\ cards' = Append(cards, row)
    /\ UNCHANGED told

\* create_card: a row and its `created` event in one transaction.
Insert(row) ==
    /\ cards' = Append(cards, row)
    /\ told'  = Append(told, row)

\* A slip: one event per update.
WriteTellsOnce(c, seen, text, dial) ==
    LET newText == Pick(text, seen.text)
        newDial == Pick(dial, seen.dial)
    IN  /\ cards' = [cards EXCEPT ![c].text = newText, ![c].dial = newDial]
        /\ told'  = [told EXCEPT
               ![c].text = IF newText # seen.text THEN newText ELSE @,
               ![c].dial = IF newDial # seen.dial /\ newText = seen.text THEN newDial ELSE @]

\* The transaction of update_card: all fields are written as the read before it
\* left them or as the patch gives them, with `shaped` and `dial_changed` events
\* for what differs from that read.
Write(c, seen, text, dial) ==
    LET newText == Pick(text, seen.text)
        newDial == Pick(dial, seen.dial)
    IN  /\ cards' = [cards EXCEPT ![c].text = newText, ![c].dial = newDial]
        /\ told'  = [told EXCEPT
               ![c].text = IF newText # seen.text THEN newText ELSE @,
               ![c].dial = IF newDial # seen.dial THEN newDial ELSE @]

\* The transaction of move_card: Done dismisses, every other lane un-dismisses.
SetLane(c, lane) ==
    /\ cards' = [cards EXCEPT ![c].lane = lane, ![c].dismissed = (lane = "done")]
    /\ told'  = [told EXCEPT ![c].lane = lane, ![c].dismissed = (lane = "done")]

-----------------------------------------------------------------------------
(* The handlers.                                                           *)

Serves(h) ==
    /\ request[h] = Idle /\ issues[h] = << >> /\ served < MaxRequests
    /\ served' = served + 1

TakeUp(h, r) ==
    /\ Serves(h)
    /\ request' = [request EXCEPT ![h] = r]

Goes(h, r) == request' = [request EXCEPT ![h] = r]
Finish(h)  == Goes(h, Idle)
TokenSame  == UNCHANGED << audit, used, owned, adopted >>

\* An agent may write the cards its token owns, and an audit move none.
MayWrite(h, c) == h \in Callers \/ c \in owned
MayMove(h, c)  == h \in Callers \/ (c \in owned /\ ~audit)

\* The handlers that have looked at a card and are yet to write it.
InHand(c) == {h \in Handlers : request[h].at \in {"refresh", "update"} /\ request[h].card = c}
Overlap(c, h) == overlapped' = IF InHand(c) \subseteq {h} THEN overlapped ELSE overlapped \cup {c}

\* card.update, first half: the card is read.
UpdateRead(h, c, text, dial) ==
    /\ MayWrite(h, c)
    /\ TakeUp(h, [at |-> "update", by |-> "patch", card |-> c, seen |-> cards[c],
                  text |-> text, dial |-> dial])
    /\ UNCHANGED << cards, told, issues, overlapped >> /\ TokenSame

\* Second half, of card.update and of refreshing a card.
UpdateWrite(h) ==
    LET r == request[h]
    IN  /\ r.at = "update"
        /\ Write(r.card, r.seen, r.text, r.dial)
        /\ Finish(h)
        /\ Overlap(r.card, h)
        /\ UNCHANGED << issues, served >> /\ TokenSame

\* card.move; dispatch and the gate move cards the same way.
Move(h, c, lane) ==
    /\ Serves(h) /\ MayMove(h, c)
    /\ SetLane(c, lane)
    /\ Overlap(c, h)
    /\ UNCHANGED << request, issues >> /\ TokenSame

\* card.create, from the board.
Create(h, text, dial, lane) ==
    /\ Serves(h) /\ Len(cards) < MaxCards
    /\ Insert(Row(Origin(h, NoRef), text, dial, lane))
    /\ UNCHANGED << request, issues, overlapped >> /\ TokenSame

\* Filing by an origin (upsert_origin_card; an agent's card.create, who may
\* leave the ref out): what the lookup makes of it.
Filing(h, ref, text) == [at |-> IF h \in AgentCalls THEN "budget" ELSE "insert",
                         origin |-> Origin(h, ref), text |-> text]

\* A slip: a dismissed finding is refreshed like another.
LookupForgets(h, ref, text) ==
    LET found == ByOrigin(Origin(h, ref))
    IN  IF ref = NoRef \/ found = {} THEN Filing(h, ref, text)
        ELSE [at |-> "refresh", card |-> CHOOSE c \in found : TRUE, text |-> text]

\* A card that was dismissed stays as it is, another is refreshed.
Lookup(h, ref, text) ==
    LET found == ByOrigin(Origin(h, ref))
    IN  IF ref = NoRef \/ found = {} THEN Filing(h, ref, text)
        ELSE LET c == CHOOSE c \in found : TRUE
             IN  IF cards[c].dismissed THEN Idle ELSE [at |-> "refresh", card |-> c, text |-> text]

FileLookup(h, ref, text) ==
    /\ TakeUp(h, Lookup(h, ref, text))
    /\ UNCHANGED << cards, told, issues, overlapped >> /\ TokenSame

\* parse_issue: what is read of an issue that gh tells.
Issue == [ref : Refs, text : Texts]

\* issue_list: what gh lists of a repository, or the numbers that were asked for,
\* of which one may come twice; at most as many as there are to tell apart.
IssueLists == UNION {[1 .. n -> Issue] : n \in 1 .. Cardinality(Refs)}

\* github.issues.import: the issues are listed ... (for the bound, each is a
\* request)
Import(h, list) ==
    /\ request[h] = Idle /\ issues[h] = << >> /\ served + Len(list) <= MaxRequests
    /\ served' = served + Len(list)
    /\ issues' = [issues EXCEPT ![h] = list]
    /\ UNCHANGED << cards, told, request, overlapped >> /\ TokenSame

\* ... and filed one after the other.
NextIssue(h) ==
    /\ request[h] = Idle /\ issues[h] # << >>
    /\ issues' = [issues EXCEPT ![h] = Tail(@)]
    /\ Goes(h, Lookup(h, Head(issues[h]).ref, Head(issues[h]).text))
    /\ UNCHANGED << cards, told, served, overlapped >> /\ TokenSame

\* update_card of the card found: its own read, with the dial left alone.
Refresh(h) ==
    LET r == request[h]
    IN  /\ r.at = "refresh"
        /\ Goes(h, [at |-> "update", by |-> "refile", card |-> r.card, seen |-> cards[r.card],
                    text |-> r.text, dial |-> Same])
        /\ UNCHANGED << cards, told, issues, served, overlapped >> /\ TokenSame

\* card_budget_ok.
BudgetOk == used < CardBudget

CheckBudget(h) ==
    LET r == request[h]
    IN  /\ r.at = "budget"
        /\ Goes(h, IF BudgetOk THEN [r EXCEPT !.at = "insert"] ELSE Idle)
        /\ UNCHANGED << cards, told, issues, served, overlapped >> /\ TokenSame

\* create_card, refused when another filing of the origin came first, which also
\* ends the import: what it has filed stays, the rest is not filed.  An audit
\* files into the Inbox, an import does too; another agent names the lane.
FileInsert(h) ==
    LET r == request[h]
    IN  /\ r.at = "insert" /\ Len(cards) < MaxCards
        /\ IF Unique(r.origin)
           THEN /\ \E dial \in Dials, lane \in Lanes :
                     /\ (h \in AgentCalls /\ ~audit) \/ lane = "inbox"
                     /\ Insert(Row(r.origin, r.text, dial, lane))
                /\ Goes(h, IF h \in AgentCalls THEN [at |-> "record", card |-> Len(cards) + 1] ELSE Idle)
                /\ UNCHANGED issues
           ELSE /\ Finish(h) /\ issues' = [issues EXCEPT ![h] = << >>]
                /\ UNCHANGED << cards, told >>
        /\ UNCHANGED << served, overlapped >> /\ TokenSame

\* record_created_card.
Record(h) ==
    LET r == request[h]
    IN  /\ r.at = "record"
        /\ used' = used + 1 /\ owned' = owned \cup {r.card}
        /\ Goes(h, [at |-> "adopt", card |-> r.card])
        /\ UNCHANGED << audit, cards, told, issues, served, adopted, overlapped >>

\* set_session_card fills an empty link only.
FirstAdopted(card) == IF adopted = NoCardYet THEN card ELSE adopted

\* A cardless session adopts the first card it created.
Adopt(h) ==
    LET r == request[h]
    IN  /\ r.at = "adopt"
        /\ adopted' = FirstAdopted(r.card)
        /\ Finish(h)
        /\ UNCHANGED << audit, cards, told, issues, served, used, owned, overlapped >>

CardsNext ==
    \E h \in Handlers :
        \/ \E c \in Rows, text \in Texts \cup {Same}, dial \in Dials \cup {Same} :
               /\ text # Same \/ dial # Same
               /\ UpdateRead(h, c, text, dial)
        \/ \E c \in Rows, lane \in Lanes : Move(h, c, lane)
        \/ \E text \in Texts, dial \in Dials, lane \in Lanes :
               h \in Callers /\ Create(h, text, dial, lane)
        \/ \E ref \in Refs \cup {NoRef}, text \in Texts :
               h \in AgentCalls /\ FileLookup(h, ref, text)
        \/ \E list \in IssueLists : h \in Callers /\ Import(h, list)
        \/ NextIssue(h) \/ UpdateWrite(h) \/ Refresh(h) \/ CheckBudget(h) \/ FileInsert(h) \/ Record(h) \/ Adopt(h)

CardsSpec == CardsInit /\ [][CardsNext]_cardVars

-----------------------------------------------------------------------------
(* Properties.                                                             *)

RowType ==
    [origin : {"filed", "imported"} \X (Refs \cup {NoRef}), text : Texts, dial : Dials,
     lane : Lanes, dismissed : BOOLEAN]

\* The types of the variables.
CardsTypeOK ==
    /\ audit \in BOOLEAN
    /\ cards \in Seq(RowType) /\ told \in Seq(RowType)
    /\ Len(cards) = Len(told) /\ Len(cards) <= MaxCards
    /\ \A h \in Handlers : request[h].at \in
           {"idle", "update", "refresh", "budget", "insert", "record", "adopt"}
    /\ issues \in [Handlers -> Seq(Issue)]
    /\ served \in 0 .. MaxRequests /\ used \in 0 .. MaxCards
    /\ owned \subseteq Rows /\ adopted \in {NoCardYet} \cup Rows /\ overlapped \subseteq Rows

\* "one issue, one card": filings of one origin, at the same time or again,
\* leave one card for it.
OneCardPerOrigin ==
    \A c, d \in Rows : cards[c].origin = cards[d].origin /\ cards[c].origin[2] # NoRef => c = d

\* The timeline tells the board: a card's events give its lane always, and its
\* text and dial as long as no handler wrote it between another's read and
\* write ("every card lifecycle mutation appends an event").
EventsTellTheCard ==
    \A c \in Rows :
        /\ told[c].lane = cards[c].lane
        /\ c \notin overlapped => told[c] = cards[c]

\* "a dismissed finding is never refiled": filing it again changes nothing of
\* it, unless the human dismissed it while the filing was under way.
DismissalHolds ==
    [][\A c \in Rows : cards[c].dismissed /\ c \notin overlapped' /\ cards'[c].text # cards[c].text
           => \E h \in Handlers : InHand(c) = {h} /\ request[h].by = "patch"]_cardVars

\* However many `dflow` processes of a session file cards at once, they overrun
\* its budget by less than their number.
BudgetRoughlyHolds ==
    Cardinality(owned) <= IF CardBudget = 0 THEN 0 ELSE CardBudget + Cardinality(AgentCalls) - 1

\* "the FIRST created card": the card a session adopts stays its card, and is
\* one it created.
AdoptedForGood ==
    [][adopted # NoCardYet => adopted' = adopted]_cardVars

\* One card for an origin, with a history that tells it, and of an agent no more
\* than its budget roughly allows.
CardsAgree == OneCardPerOrigin /\ EventsTellTheCard /\ BudgetRoughlyHolds

\* What was decided of a card stands: a dismissal, and whose card it is.
CardsStand == DismissalHolds /\ AdoptedForGood
================================================================================
