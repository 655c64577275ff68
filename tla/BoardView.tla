------------------------------- MODULE BoardView -------------------------------
(***************************************************************************)
(* What the desktop shows of the daemon's board: the lanes of its cards    *)
(* and the Needs You queue (state/store.tsx, data/live.ts), kept by        *)
(* snapshots, by the event stream, and by moves shown before the daemon    *)
(* has made them.                                                          *)
(*                                                                         *)
(* The daemon's end is one connection (conn.rs): its loop serves one       *)
(* request at a time, and a task of its own forwards events, so an answer  *)
(* and an event reach the socket in either order.  The rest of the daemon  *)
(* is whoever else moves cards and raises or resolves items.               *)
(***************************************************************************)
EXTENDS Integers, Sequences, FiniteSets

CONSTANTS
    BoardCards, BoardLanes,   \* the cards, and the lanes they move between
    Keys,          \* dedupe keys of Needs You items
    MaxChanges,    \* bound: changes by others
    MaxMoves,      \* bound: cards dragged on this board
    MaxUpsets      \* bound: refreshes after an action of the user's, connections lost
                   \* or not made, and moves the store fails to write, together

ASSUME BoardAssumption ==
    /\ IsFiniteSet(BoardCards) /\ BoardCards # {}
    /\ IsFiniteSet(BoardLanes) /\ "inbox" \in BoardLanes
    /\ {MaxChanges, MaxMoves, MaxUpsets} \subseteq Nat

Boards  == [BoardCards -> BoardLanes]
NoBoard == << >>
Items   == BoardCards \X Keys
Nothing == [kind |-> "nothing"]

VARIABLES
    lane, open,   \* the daemon's cards and open items
    history,      \* card_events: what has been announced so far
    changes,
    subscribed,   \* the connection has an event task
    queue,        \* events the task has not forwarded
    serving,      \* what the connection's loop has in hand
    reqs, out,    \* the socket, to the daemon and to the desktop
    link,         \* "down", "up": the desktop's socket
    upsets,
    boot,         \* bootstrap: "connect", "load", "up"
    source,       \* the data source bootstrap settled on: "none", "live", "empty"
    board, needs, \* the view: setCards, setNeedsYou
    half,         \* the cards of a snapshot whose fleet part is on its way
    moving,       \* pending: moves without an answer, with the request's id, the card
                  \* and where it was
    moves,
    fresh,        \* a snapshot has been shown since the connection was last lost
    missed        \* cards changed by others while the desktop could not hear of it
                  \* or waited for an answer, and cards dragged while the board
                  \* was out of date about them, since the last snapshot it asked for

daemonVars == << lane, open, history, changes >>
connVars   == << subscribed, queue, serving >>
deskVars   == << boot, source, board, needs, half, moving, moves, fresh >>
boardVars  == << lane, open, history, changes, subscribed, queue, serving, reqs, out,
                 link, upsets, boot, source, board, needs, half, moving, moves,
                 fresh, missed >>

BoardInit ==
    /\ lane = [c \in BoardCards |-> "inbox"] /\ open = {} /\ history = << >> /\ changes = 0
    /\ subscribed = FALSE /\ queue = << >> /\ serving = Nothing
    /\ reqs = << >> /\ out = << >> /\ link = "down" /\ upsets = 0
    /\ boot = "connect" /\ source = "none"
    /\ board = NoBoard /\ needs = {} /\ half = NoBoard /\ moving = {}
    /\ moves = 0 /\ fresh = FALSE /\ missed = {}

-----------------------------------------------------------------------------
(* The daemon.                                                             *)

Announce(e) ==
    /\ history' = Append(history, e)
    /\ queue' = IF subscribed THEN Append(queue, e) ELSE queue

\* Requests of the desktop that are not answered yet.
Waiting ==
    \/ reqs # << >> \/ serving # Nothing \/ half # NoBoard
    \/ \E i \in DOMAIN out : out[i].kind # "event"

\* The desktop will ask for events yet, and gets those so far with them.
WillSubscribe == boot \in {"connect", "load"} \/ \E i \in DOMAIN reqs : reqs[i].kind = "subscribe"

Overheard(c) ==
    missed' = IF \/ WillSubscribe /\ \A m \in moving : m.card # c
                 \/ subscribed /\ ~Waiting
              THEN missed ELSE missed \cup {c}

\* Another client, an agent or the gate moves a card.
OthersMove(c, to) ==
    /\ changes < MaxChanges /\ lane[c] # to
    /\ lane' = [lane EXCEPT ![c] = to]
    /\ changes' = changes + 1
    /\ Announce([type |-> "moved", card |-> c, to |-> to])
    /\ Overheard(c)
    /\ UNCHANGED << open, subscribed, serving, reqs, out, link, upsets, deskVars >>

\* raise_needs_you and resolve_needs_you, keyed by card and dedupe key.
OthersRaise(c, k) ==
    /\ changes < MaxChanges /\ << c, k >> \notin open
    /\ open' = open \cup {<< c, k >>}
    /\ changes' = changes + 1
    /\ Announce([type |-> "raised", card |-> c, key |-> k])
    /\ Overheard(c)
    /\ UNCHANGED << lane, subscribed, serving, reqs, out, link, upsets, deskVars >>

OthersResolve(c, k) ==
    /\ changes < MaxChanges /\ << c, k >> \in open
    /\ open' = open \ {<< c, k >>}
    /\ changes' = changes + 1
    /\ Announce([type |-> "resolved", card |-> c, key |-> k])
    /\ Overheard(c)
    /\ UNCHANGED << lane, subscribed, serving, reqs, out, link, upsets, deskVars >>

\* The event task.
ForwardEvent ==
    /\ queue # << >>
    /\ out' = Append(out, [kind |-> "event", event |-> Head(queue)])
    /\ queue' = Tail(queue)
    /\ UNCHANGED << daemonVars, subscribed, serving, reqs, link, upsets, deskVars, missed >>

\* The loop takes up a request: a card.move is committed, or fails; an
\* event.subscribe, which names no cursor, hears the log from its beginning.
Serve ==
    /\ serving = Nothing /\ reqs # << >>
    /\ LET r == Head(reqs)
       IN  \/ /\ r.kind = "move"
              /\ lane' = [lane EXCEPT ![r.card] = r.to]
              /\ Announce([type |-> "moved", card |-> r.card, to |-> r.to])
              /\ serving' = r
              /\ UNCHANGED << subscribed, upsets >>
           \/ /\ r.kind = "move" /\ upsets < MaxUpsets
              /\ upsets' = upsets + 1
              /\ serving' = [kind |-> "answer", answer |-> [kind |-> "refused", id |-> r.id]]
              /\ UNCHANGED << lane, history, subscribed, queue >>
           \/ /\ r.kind = "subscribe"
              /\ subscribed' = TRUE /\ queue' = history
              /\ serving' = [kind |-> "answer", answer |-> [kind |-> "subscribed"]]
              /\ UNCHANGED << lane, history, upsets >>
           \/ /\ r.kind \in {"cards", "fleet"}
              /\ serving' = r
              /\ UNCHANGED << lane, history, subscribed, queue, upsets >>
    /\ reqs' = Tail(reqs)
    /\ UNCHANGED << open, changes, out, link, deskVars, missed >>

\* The read an answer is made of: card.query, fleet.status, or the card as it
\* stands after a move.
ReadAnswer ==
    /\ serving.kind \in {"move", "cards", "fleet"}
    /\ serving' = [kind |-> "answer", answer |->
           CASE serving.kind = "move"  -> [kind |-> "moved", id |-> serving.id, card |-> serving.card,
                                           lane |-> lane[serving.card]]
             [] serving.kind = "cards" -> [kind |-> "cards", lanes |-> lane]
             [] serving.kind = "fleet" -> [kind |-> "fleet", items |-> open]]
    /\ UNCHANGED << daemonVars, subscribed, queue, reqs, out, link, upsets, deskVars, missed >>

SendAnswer ==
    /\ serving.kind = "answer"
    /\ out' = Append(out, serving.answer)
    /\ serving' = Nothing
    /\ UNCHANGED << daemonVars, subscribed, queue, reqs, link, upsets, deskVars, missed >>

-----------------------------------------------------------------------------
(* The desktop.                                                            *)

\* loadSnapshot: card.query and fleet.status, shown when both have answered.
Snapshot == << [kind |-> "cards"], [kind |-> "fleet"] >>

\* Bootstrap connects and fresh, or fails and shows an empty board; the client
\* goes on trying to connect either way.
Connect ==
    /\ boot = "connect"
    /\ \/ /\ boot' = "load" /\ source' = "live" /\ link' = "up"
          /\ reqs' = Snapshot /\ UNCHANGED << upsets, board >>
       \/ /\ upsets < MaxUpsets /\ upsets' = upsets + 1
          /\ boot' = "up" /\ source' = "empty"
          /\ board' = NoBoard
          /\ UNCHANGED << link, reqs >>
    /\ UNCHANGED << daemonVars, connVars, out, needs, half, moving, moves, fresh, missed >>

Arrives(kind) == out # << >> /\ Head(out).kind = kind

TakeCards ==
    /\ Arrives("cards")
    /\ half' = Head(out).lanes
    /\ out' = Tail(out)
    /\ UNCHANGED << daemonVars, connVars, reqs, link, upsets, boot, source, board, needs, moving,
                    moves, fresh, missed >>

\* The snapshot is complete and shown.  The first one ends the loading: only
\* then does the desktop ask for events, and the whole log is replayed over it.
TakeFleet ==
    /\ Arrives("fleet")
    /\ board' = half /\ needs' = Head(out).items /\ half' = NoBoard
    /\ fresh' = TRUE
    /\ boot' = "up"
    /\ reqs' = IF boot = "load" THEN Append(reqs, [kind |-> "subscribe"]) ELSE reqs
    /\ out' = Tail(out)
    /\ UNCHANGED << daemonVars, connVars, link, upsets, source, moving, moves, missed >>

TakeSubscribed ==
    /\ Arrives("subscribed")
    /\ out' = Tail(out)
    /\ UNCHANGED << daemonVars, connVars, reqs, link, upsets, deskVars, missed >>

\* applyEvent on the queue: items are told apart by dedupe key alone.
NeedsAfter(items, e) ==
    CASE e.type = "raised"   -> {i \in items : i[2] # e.key} \cup {<< e.card, e.key >>}
      [] e.type = "resolved" -> {i \in items : i[2] # e.key}
      [] e.type = "moved"    -> items

BoardAfter(b, e) == IF e.type = "moved" THEN [b EXCEPT ![e.card] = e.to] ELSE b

TakeEvent ==
    /\ Arrives("event")
    /\ LET e == Head(out).event
       IN  /\ board' = IF board = NoBoard THEN board ELSE BoardAfter(board, e)
           /\ needs' = NeedsAfter(needs, e)
    /\ out' = Tail(out)
    /\ UNCHANGED << daemonVars, connVars, reqs, link, upsets, boot, source, half, moving, moves,
                    fresh, missed >>

\* What the board shows of a card, and would roll back to, is out of date, or
\* waits for an answer.
InDoubt(c) == board[c] # lane[c] \/ \E m \in moving : m.card = c

\* moveCard: shown at once, then asked for; refused at once when disconnected.
DragCard(c, to) ==
    /\ board # NoBoard /\ board[c] # to /\ moves < MaxMoves
    /\ moves' = moves + 1
    /\ IF link = "up"
       THEN /\ board' = [board EXCEPT ![c] = to]
            /\ moving' = moving \cup {[id |-> moves + 1, card |-> c, prev |-> board[c]]}
            /\ reqs' = Append(reqs, [kind |-> "move", id |-> moves + 1, card |-> c, to |-> to])
            /\ missed' = IF InDoubt(c) THEN missed \cup {c} ELSE missed
       ELSE UNCHANGED << board, moving, reqs, missed >>
    /\ UNCHANGED << daemonVars, connVars, out, link, upsets, boot, source, needs, half,
                    fresh >>

\* onmessage: an answer finds its request by the id.
ItsMove == {m \in moving : m.id = Head(out).id}

\* The answer to a move, and the rollback of one that failed.
TakeMoved ==
    /\ Arrives("moved")
    /\ board' = [board EXCEPT ![Head(out).card] = Head(out).lane]
    /\ moving' = moving \ ItsMove
    /\ out' = Tail(out)
    /\ UNCHANGED << daemonVars, connVars, reqs, link, upsets, boot, source, needs, half, moves,
                    fresh, missed >>

\* A slip: a refused move stays on the board.
KeepRefused ==
    /\ Arrives("refused")
    /\ moving' = moving \ ItsMove
    /\ out' = Tail(out)
    /\ UNCHANGED << daemonVars, connVars, reqs, link, upsets, boot, source, board, needs, half,
                    moves, fresh, missed >>

TakeRefused ==
    /\ Arrives("refused")
    /\ \E m \in ItsMove : board' = [board EXCEPT ![m.card] = m.prev]
    /\ moving' = moving \ ItsMove
    /\ out' = Tail(out)
    /\ UNCHANGED << daemonVars, connVars, reqs, link, upsets, boot, source, needs, half, moves,
                    fresh, missed >>

\* refresh, after an action that changes much (dispatch, import, audit, merge).
Refresh ==
    /\ boot = "up" /\ source = "live" /\ link = "up" /\ upsets < MaxUpsets
    /\ upsets' = upsets + 1
    /\ reqs' = reqs \o Snapshot
    /\ missed' = {}
    /\ UNCHANGED << daemonVars, connVars, out, link, boot, source, board, needs, half,
                    moving, moves, fresh >>

\* Rolls back every move that is pending, the oldest first.
RollBack(b, ms) ==
    [c \in DOMAIN b |->
        LET of == {m \in ms : m.card = c}
        IN  IF of = {} THEN b[c] ELSE (CHOOSE m \in of : \A n \in of : n.id <= m.id).prev]

\* The connection breaks: what is pending is rejected, and the daemon's end of
\* it stops; a request in the loop's hands is finished for nobody.  A bootstrap
\* whose first load fails shows nothing and never asks for events.
Drop ==
    /\ link = "up" /\ upsets < MaxUpsets
    /\ link' = "down" /\ upsets' = upsets + 1
    /\ reqs' = << >> /\ out' = << >> /\ queue' = << >> /\ serving' = Nothing
    /\ subscribed' = FALSE
    /\ board' = IF board = NoBoard THEN board ELSE RollBack(board, moving)
    /\ moving' = {} /\ half' = NoBoard
    /\ boot' = "up" /\ fresh' = FALSE
    /\ missed' = BoardCards
    /\ UNCHANGED << daemonVars, source, needs, moves >>

\* scheduleReconnect and onReconnect: refresh, from the source bootstrap chose.
Reconnect ==
    /\ boot = "up" /\ link = "down"
    /\ link' = "up"
    /\ IF source = "live" THEN reqs' = Snapshot /\ missed' = {} ELSE UNCHANGED << reqs, missed >>
    /\ UNCHANGED << daemonVars, connVars, out, upsets, deskVars >>

Daemon  == ForwardEvent \/ Serve \/ ReadAnswer \/ SendAnswer
TakeIn  == TakeCards \/ TakeFleet \/ TakeSubscribed \/ TakeEvent \/ TakeMoved \/ TakeRefused

BoardNext ==
    \/ \E c \in BoardCards, l \in BoardLanes : OthersMove(c, l) \/ DragCard(c, l)
    \/ \E c \in BoardCards, k \in Keys : OthersRaise(c, k) \/ OthersResolve(c, k)
    \/ Daemon \/ Connect \/ TakeIn \/ Refresh \/ Drop \/ Reconnect

\* The daemon's tasks run, the socket delivers or breaks, and the client tries
\* again until it is connected.
BoardFairness ==
    /\ WF_boardVars(ForwardEvent) /\ WF_boardVars(Serve \/ ReadAnswer \/ SendAnswer)
    /\ WF_boardVars(TakeIn) /\ WF_boardVars(Reconnect)

BoardSpec == BoardInit /\ [][BoardNext]_boardVars /\ BoardFairness

-----------------------------------------------------------------------------
(* Properties.                                                             *)

\* The types of the variables.
BoardTypeOK ==
    /\ lane \in Boards /\ open \subseteq Items
    /\ \A i \in DOMAIN history : history[i].type \in {"moved", "raised", "resolved"}
    /\ changes \in 0 .. MaxChanges /\ subscribed \in BOOLEAN
    /\ \A i \in DOMAIN queue : queue[i].type \in {"moved", "raised", "resolved"}
    /\ serving.kind \in {"nothing", "move", "cards", "fleet", "answer"}
    /\ link \in {"down", "up"} /\ upsets \in 0 .. MaxUpsets
    /\ boot \in {"connect", "load", "up"} /\ source \in {"none", "live", "empty"}
    /\ board \in Boards \cup {NoBoard} /\ half \in Boards \cup {NoBoard}
    /\ needs \subseteq Items /\ missed \subseteq BoardCards
    /\ moving \subseteq [id : 1 .. moves, card : BoardCards, prev : BoardLanes] /\ moves \in 0 .. MaxMoves
    /\ fresh \in BOOLEAN

\* Nothing is under way between the two.
Settled == link = "up" /\ ~Waiting /\ out = << >> /\ queue = << >> /\ board # NoBoard

\* Snapshots, events, moves shown early, their answers and their rollbacks come
\* to one truth: with nothing under way the board has every card in the lane
\* the daemon has it in, unless somebody else changed that card while the
\* desktop was out of hearing or waited for an answer, or the user dragged it
\* while the board was out of date about it.
LanesAgree == Settled => \A c \in BoardCards \ missed : board[c] = lane[c]

Raised == {i \in Items : \E n \in DOMAIN history : history[n] = [type |-> "raised", card |-> i[1], key |-> i[2]]}

\* The same of the Needs You queue, for dedupe keys only one card has used.
QueueAgrees ==
    Settled => \A i \in Items :
        /\ i[1] \notin missed
        /\ \A j \in Raised : j[2] = i[2] => j[1] = i[1]
        => (i \in needs <=> i \in open)

\* A move of the user's does not stay in doubt: it is answered, refused, or
\* rolled back with the connection.
MovesSettle == \A n \in 1 .. MaxMoves : (\E m \in moving : m.id = n) ~> ~ \E m \in moving : m.id = n

\* "a reconnect should re-pull the board": after a lost connection the board is
\* loaded anew.
Reloads == (source = "live" /\ ~fresh) ~> fresh
================================================================================
