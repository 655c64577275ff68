------------------------------- MODULE Terminal -------------------------------
(***************************************************************************)
(* One agent's terminal, from the pseudo-console to the screen a human     *)
(* sees and back: the daemon's reader, the scrollback ring, the broadcast  *)
(* of live output, the attach handoff and the forwarder of one connection  *)
(* (session.rs, ring.rs, conn.rs), the desktop's socket with its request   *)
(* table and reconnection (client.ts), and the pooled pane that attaches,  *)
(* replays, and types (terminal-pool.tsx, TerminalPane.tsx).               *)
(*                                                                         *)
(* The output is the sequence of bytes 1, 2, 3, ...: a chunk is an         *)
(* interval of them, and a screen is the last byte it shows, or Garbled    *)
(* when it was fed anything but the next bytes.  A replay or a repaint     *)
(* shows the model's screen, whatever was there before.                    *)
(***************************************************************************)
EXTENDS Integers, Sequences

CONSTANTS
    RingCap,       \* RING_CAPACITY, in bytes
    BroadcastCap,  \* BROADCAST_CAPACITY, in chunks
    ReadChunk,     \* READ_CHUNK, in bytes
    MaxBytes,      \* bound: bytes the agent prints
    MaxKeys,       \* bound: keys the human types
    MaxPanes,      \* bound: times the pane is opened
    MaxTroubles    \* bound: dropped connections and attaches while attached, together

ASSUME TerminalAssumption ==
    /\ {RingCap, BroadcastCap, ReadChunk} \subseteq Nat \ {0}
    /\ {MaxBytes, MaxKeys, MaxPanes, MaxTroubles} \subseteq Nat

Garbled == -1
Nobody  == 0

VARIABLES
    printed,   \* bytes the reader has fed to the screen model
    ring,      \* ScrollbackRing.buf
    chunks,    \* output_tx: the chunks sent so far, as <<first, last>>
    watchers,  \* Session.attached
    handling,  \* the connection's loop: "idle", or "swap" inside session.attach
    fwd,       \* next chunk of the connection's forwarder, Nobody if none
    oldFwd,    \* the same of the forwarder an attach is about to replace
    toDaemon,  \* requests and input frames on their way
    toClient,  \* responses and output frames on their way (out_tx)
    socket,    \* the client's socket: "open" or "closed"
    losses,    \* how often it has closed
    pane,      \* "none", "mounted", "waiting", "replaying", "live", "failed"
    opened,    \* panes opened: the last one is the present pane
    reattached,\* attach requests sent while attached
    shown,     \* the pane's screen
    disturbed, \* the pane's attachment lagged, or replaced another one
    typed,     \* keys the human has typed into panes
    held,      \* pendingInputRef: keys typed during the replay
    console    \* the keys the pseudo-console received, in order

termVars == << printed, ring, chunks, watchers, handling, fwd, oldFwd, toDaemon, toClient,
               socket, losses, pane, opened, reattached, shown, disturbed, typed, held, console >>
\* What belongs to the session, the connection's two ends, and the pane.
ptyVars    == << printed, ring, chunks >>
serverVars == << watchers, handling, fwd, oldFwd >>
wireVars   == << toDaemon, toClient, socket, losses >>
paneVars   == << pane, opened, reattached, shown, disturbed, typed, held, console >>

TermInit ==
    /\ printed = 0 /\ ring = << >> /\ chunks = << >>
    /\ watchers = 0 /\ handling = "idle" /\ fwd = Nobody /\ oldFwd = Nobody
    /\ toDaemon = << >> /\ toClient = << >> /\ socket = "open" /\ losses = 0
    /\ pane = "none" /\ opened = 0 /\ reattached = 0 /\ shown = 0 /\ disturbed = FALSE
    /\ typed = 0 /\ held = << >> /\ console = << >>

-----------------------------------------------------------------------------
(* The session.                                                            *)

\* The last n elements of a sequence that has at least n.
LastN(seq, n) == SubSeq(seq, Len(seq) - n + 1, Len(seq))

\* ScrollbackRing::push, with its case for a chunk that is over capacity.
Push(buf, bytes) ==
    IF Len(bytes) >= RingCap
    THEN LastN(bytes, RingCap)
    ELSE LET over == Len(buf) + Len(bytes) - RingCap
         IN  (IF over > 0 THEN SubSeq(buf, over + 1, Len(buf)) ELSE buf) \o bytes

\* pump_reader: screen, ring and broadcast under one lock.
AgentPrints ==
    \E n \in 1 .. ReadChunk :
        /\ printed + n <= MaxBytes
        /\ printed' = printed + n
        /\ ring' = Push(ring, [i \in 1 .. n |-> printed + i])
        /\ chunks' = Append(chunks, << printed + 1, printed + n >>)
        /\ UNCHANGED << serverVars, wireVars, paneVars >>

-----------------------------------------------------------------------------
(* The connection's loop and its forwarders.                               *)

Asks(kind) == toDaemon # << >> /\ Head(toDaemon).kind = kind

\* A slip: subscribes only after the replay was composed and sent.
ServeAttachLate ==
    /\ handling = "idle" /\ Asks("attach")
    /\ toClient' = Append(toClient, [kind |-> "attached", pane |-> Head(toDaemon).pane, upto |-> printed])
    /\ oldFwd' = fwd /\ fwd' = Len(chunks) + 2
    /\ watchers' = watchers + 1
    /\ handling' = IF fwd = Nobody THEN "idle" ELSE "swap"
    /\ toDaemon' = Tail(toDaemon)
    /\ UNCHANGED << ptyVars, socket, losses, paneVars >>

\* compose_replay: what the screen model shows, after the history of the ring.
Replay == printed

\* "session.attach": subscribe and compose the replay under the session's
\* lock, then answer; a forwarder this one replaces still runs.
ServeAttach ==
    /\ handling = "idle" /\ Asks("attach")
    /\ toClient' = Append(toClient, [kind |-> "attached", pane |-> Head(toDaemon).pane, upto |-> Replay])
    /\ oldFwd' = fwd /\ fwd' = Len(chunks) + 1
    /\ watchers' = watchers + 1
    /\ handling' = IF fwd = Nobody THEN "idle" ELSE "swap"
    /\ toDaemon' = Tail(toDaemon)
    /\ UNCHANGED << ptyVars, socket, losses, paneVars >>

\* attached.insert: the forwarder it returns is aborted.
SwapForwarder ==
    /\ handling = "swap"
    /\ handling' = "idle"
    /\ oldFwd' = Nobody
    /\ watchers' = watchers - 1
    /\ UNCHANGED << ptyVars, fwd, wireVars, paneVars >>

\* "session.detach".
ServeDetach ==
    /\ handling = "idle" /\ Asks("detach")
    /\ fwd' = Nobody
    /\ watchers' = IF fwd = Nobody THEN watchers ELSE watchers - 1
    /\ toDaemon' = Tail(toDaemon)
    /\ UNCHANGED << ptyVars, handling, oldFwd, toClient, socket, losses, paneVars >>

\* route_binary: an input frame is written to the pseudo-console.
RouteInput ==
    /\ handling = "idle" /\ Asks("key")
    /\ console' = Append(console, Head(toDaemon).key)
    /\ toDaemon' = Tail(toDaemon)
    /\ UNCHANGED << ptyVars, serverVars, toClient, socket, losses,
                    pane, opened, reattached, shown, disturbed, typed, held >>

Oldest == IF Len(chunks) > BroadcastCap THEN Len(chunks) - BroadcastCap + 1 ELSE 1

\* A forwarder takes its next chunk, or learns that it lagged: it then sends a
\* repaint and goes on with the oldest chunk the queue still has.
Forwarded(next) ==
    IF next < Oldest THEN [kind |-> "repaint", upto |-> Replay]
                     ELSE [kind |-> "output", chunk |-> chunks[next]]

\* A slip: a lagged forwarder is told nothing and goes on.
ForwardSilently ==
    /\ fwd # Nobody /\ fwd <= Len(chunks)
    /\ LET next == IF fwd < Oldest THEN Oldest ELSE fwd
       IN  /\ toClient' = Append(toClient, [kind |-> "output", chunk |-> chunks[next]])
           /\ fwd' = next + 1
    /\ UNCHANGED << ptyVars, watchers, handling, oldFwd, toDaemon, socket, losses, paneVars >>

ForwardNew ==
    /\ fwd # Nobody /\ fwd <= Len(chunks)
    /\ toClient' = Append(toClient, Forwarded(fwd))
    /\ fwd' = IF fwd < Oldest THEN Oldest ELSE fwd + 1
    /\ UNCHANGED << ptyVars, watchers, handling, oldFwd, toDaemon, socket, losses, paneVars >>

ForwardOld ==
    /\ oldFwd # Nobody /\ oldFwd <= Len(chunks)
    /\ toClient' = Append(toClient, Forwarded(oldFwd))
    /\ oldFwd' = IF oldFwd < Oldest THEN Oldest ELSE oldFwd + 1
    /\ UNCHANGED << ptyVars, watchers, handling, fwd, toDaemon, socket, losses, paneVars >>

-----------------------------------------------------------------------------
(* The desktop.                                                            *)

Delivers(kind) == socket = "open" /\ toClient # << >> /\ Head(toClient).kind = kind

\* TerminalPane's mount (showTerminal of a session that is not pooled).
OpenPane ==
    /\ pane = "none" /\ opened < MaxPanes
    /\ opened' = opened + 1
    /\ pane' = "mounted" /\ shown' = 0 /\ disturbed' = FALSE /\ held' = << >>
    /\ UNCHANGED << ptyVars, serverVars, wireVars, reattached, typed, console >>

\* The mount's animation frame: attach, refused at once without a connection.
SendAttach ==
    /\ pane = "mounted"
    /\ IF socket = "open"
       THEN /\ pane' = "waiting"
            /\ toDaemon' = Append(toDaemon, [kind |-> "attach", pane |-> opened])
       ELSE pane' = "failed" /\ UNCHANGED toDaemon
    /\ UNCHANGED << ptyVars, serverVars, toClient, socket, losses,
                    opened, reattached, shown, disturbed, typed, held, console >>

\* A client attaches again without detaching (the daemon allows for it).
AttachAgain ==
    /\ pane = "live" /\ socket = "open" /\ reattached + losses < MaxTroubles
    /\ reattached' = reattached + 1
    /\ disturbed' = TRUE
    /\ toDaemon' = Append(toDaemon, [kind |-> "attach", pane |-> opened])
    /\ UNCHANGED << ptyVars, serverVars, toClient, socket, losses,
                    pane, opened, shown, typed, held, console >>

\* The attach promise resolves: reset the terminal and write the replay.  The
\* answer to a pane that is gone finds nobody.
TakeReplay ==
    /\ Delivers("attached")
    /\ LET m == Head(toClient)
       IN  IF m.pane = opened /\ pane # "none"
           THEN pane' = "replaying" /\ shown' = m.upto
           ELSE UNCHANGED << pane, shown >>
    /\ toClient' = Tail(toClient)
    /\ UNCHANGED << ptyVars, serverVars, toDaemon, socket, losses,
                    opened, reattached, disturbed, typed, held, console >>

Frames(keys) == [i \in DOMAIN keys |-> [kind |-> "key", key |-> keys[i]]]

\* The replay is written: keys held meanwhile are sent.
ReplayWritten ==
    /\ pane = "replaying"
    /\ pane' = "live"
    /\ held' = << >>
    /\ toDaemon' = IF socket = "open" THEN toDaemon \o Frames(held) ELSE toDaemon
    /\ UNCHANGED << ptyVars, serverVars, toClient, socket, losses,
                    opened, reattached, shown, disturbed, typed, console >>

\* A slip: output that arrives while the replay is written is dropped.
TakeOutputLate ==
    /\ Delivers("output")
    /\ LET c == Head(toClient).chunk
       IN  shown' = IF pane \in {"none", "replaying"} THEN shown
                    ELSE IF shown + 1 = c[1] THEN c[2] ELSE Garbled
    /\ toClient' = Tail(toClient)
    /\ UNCHANGED << ptyVars, serverVars, toDaemon, socket, losses,
                    pane, opened, reattached, disturbed, typed, held, console >>

\* An output frame: written to the pane's terminal if there is one.
TakeOutput ==
    /\ Delivers("output")
    /\ LET c == Head(toClient).chunk
       IN  shown' = IF pane = "none" THEN shown
                    ELSE IF shown + 1 = c[1] THEN c[2] ELSE Garbled
    /\ toClient' = Tail(toClient)
    /\ UNCHANGED << ptyVars, serverVars, toDaemon, socket, losses,
                    pane, opened, reattached, disturbed, typed, held, console >>

\* repaint_ansi: modes, every row, the cursor, whatever the pane showed before.
TakeRepaint ==
    /\ Delivers("repaint")
    /\ shown' = IF pane = "none" THEN shown ELSE Head(toClient).upto
    /\ disturbed' = TRUE
    /\ toClient' = Tail(toClient)
    /\ UNCHANGED << ptyVars, serverVars, toDaemon, socket, losses,
                    pane, opened, reattached, typed, held, console >>

\* term.onData: a key goes out, waits for the end of the replay, or is lost on
\* a closed socket.
TypeKey ==
    /\ pane # "none" /\ typed < MaxKeys
    /\ typed' = typed + 1
    /\ IF pane = "replaying"
       THEN held' = Append(held, typed + 1) /\ UNCHANGED toDaemon
       ELSE /\ toDaemon' = IF socket = "open"
                           THEN Append(toDaemon, [kind |-> "key", key |-> typed + 1]) ELSE toDaemon
            /\ UNCHANGED held
    /\ UNCHANGED << ptyVars, serverVars, toClient, socket, losses,
                    pane, opened, reattached, shown, disturbed, console >>

\* evictTerminal: the pane unmounts and detaches.
ClosePane ==
    /\ pane # "none"
    /\ pane' = "none" /\ held' = << >>
    /\ toDaemon' = IF socket = "open" THEN Append(toDaemon, [kind |-> "detach"]) ELSE toDaemon
    /\ UNCHANGED << ptyVars, serverVars, toClient, socket, losses,
                    opened, reattached, shown, disturbed, typed, console >>

\* The socket closes: the client rejects what is pending, and the daemon's end
\* of the connection detaches everything.
LoseSocket ==
    /\ socket = "open" /\ reattached + losses < MaxTroubles
    /\ socket' = "closed" /\ losses' = losses + 1
    /\ toDaemon' = << >> /\ toClient' = << >>
    /\ pane' = IF pane = "waiting" THEN "failed" ELSE pane
    /\ fwd' = Nobody /\ oldFwd' = Nobody /\ handling' = "idle"
    /\ watchers' = watchers - (IF fwd = Nobody THEN 0 ELSE 1) - (IF oldFwd = Nobody THEN 0 ELSE 1)
    /\ UNCHANGED << ptyVars, opened, reattached, shown, disturbed, typed, held, console >>

\* scheduleReconnect: the client connects and authenticates again.  onReconnect
\* reloads the board; panes stay as they are.
Redial ==
    /\ socket = "closed"
    /\ socket' = "open"
    /\ UNCHANGED << ptyVars, serverVars, toDaemon, toClient, losses, paneVars >>

DaemonLoop == ServeAttach \/ SwapForwarder \/ ServeDetach \/ RouteInput
Receive    == TakeReplay \/ TakeOutput \/ TakeRepaint

TermNext ==
    \/ AgentPrints \/ DaemonLoop \/ ForwardNew \/ ForwardOld
    \/ OpenPane \/ SendAttach \/ AttachAgain \/ Receive \/ ReplayWritten \/ TypeKey \/ ClosePane
    \/ LoseSocket \/ Redial

\* The daemon's tasks run, the socket delivers or closes, the webview's
\* callbacks run, and the client tries again until it is connected.
TermFairness ==
    /\ WF_termVars(DaemonLoop) /\ WF_termVars(ForwardNew)
    /\ WF_termVars(SendAttach) /\ WF_termVars(Receive) /\ WF_termVars(ReplayWritten)
    /\ WF_termVars(Redial)

TermSpec == TermInit /\ [][TermNext]_termVars /\ TermFairness

-----------------------------------------------------------------------------
(* Properties.                                                             *)

Screens == {Garbled} \cup 0 .. MaxBytes
Bytes   == 1 .. MaxBytes

\* The types of the variables.
TermTypeOK ==
    /\ printed \in 0 .. MaxBytes /\ ring \in Seq(Bytes) /\ chunks \in Seq(Bytes \X Bytes)
    /\ watchers \in 0 .. 2 /\ handling \in {"idle", "swap"}
    /\ {fwd, oldFwd} \subseteq 0 .. MaxBytes + 1
    /\ \A i \in DOMAIN toDaemon : toDaemon[i].kind \in {"attach", "detach", "key"}
    /\ \A i \in DOMAIN toClient : toClient[i].kind \in {"attached", "output", "repaint"}
    /\ socket \in {"open", "closed"} /\ losses \in 0 .. MaxTroubles
    /\ pane \in {"none", "mounted", "waiting", "replaying", "live", "failed"}
    /\ opened \in 0 .. MaxPanes /\ reattached \in 0 .. MaxTroubles
    /\ shown \in Screens /\ disturbed \in BOOLEAN
    /\ typed \in 0 .. MaxKeys /\ held \in Seq(1 .. MaxKeys) /\ console \in Seq(1 .. MaxKeys)

\* "evicts the oldest bytes when full": the ring, and so the history a replay
\* carries, is the newest bytes of the output, in order, as many as fit,
\* whatever the sizes of the chunks (ScrollbackRing::push).
RingIsTail ==
    /\ Len(ring) = IF printed < RingCap THEN printed ELSE RingCap
    /\ \A i \in DOMAIN ring : ring[i] = printed - Len(ring) + i

\* "the handoff is lossless and duplicate-free": what an attached pane shows is
\* the output up to some byte, never one with a chunk missing or written twice,
\* whenever the agent prints and however often panes open and close.  (Not so
\* when the attachment lagged, or replaced another one of its connection.)
ScreenIsTrue == pane \in {"replaying", "live"} /\ ~disturbed => shown # Garbled

\* The fleet's count of watchers is the number of forwarders there are, after
\* any order of attaching, attaching again, detaching and dropped connections.
WatchersCounted ==
    watchers = (IF fwd = Nobody THEN 0 ELSE 1) + (IF oldFwd = Nobody THEN 0 ELSE 1)

\* Keys reach the agent in the order typed and once; none typed into a first
\* pane of an unbroken connection is lost, those typed during the replay
\* included ("the eaten-first-key bug").
KeysKept ==
    LET all  == Frames(console) \o toDaemon \o Frames(held)
        keys == {i \in DOMAIN all : all[i].kind = "key"}
    IN  /\ \A i, j \in keys : i < j => all[i].key < all[j].key
        /\ pane # "none" /\ opened = 1 /\ losses = 0 => {all[i].key : i \in keys} = 1 .. typed

\* What goes over a terminal arrives as it was: output through the ring and the
\* forwarders, and keys.
TerminalIsTrue == RingIsTail /\ ScreenIsTrue /\ WatchersCounted /\ KeysKept

\* An attach request settles: it is answered, or the closing socket rejects it.
AttachSettles == pane = "waiting" ~> pane # "waiting"

\* A live pane comes to show everything the agent printed, as long as it is
\* attached and its attachment did not lag.
PaneCatchesUp ==
    pane = "live" /\ fwd # Nobody
        ~> shown = printed \/ disturbed \/ pane # "live" \/ fwd = Nobody

\* "True re-attach (app restart, daemon reconnect) still goes through
\* TerminalPane's replay path": a pane that lives through a dropped connection
\* is attached again.
ReattachesOnReconnect == pane = "live" /\ socket = "closed" ~> pane = "none" \/ fwd # Nobody
==============================================================================
