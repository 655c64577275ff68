------------------------------- MODULE LanAccess -------------------------------
(***************************************************************************)
(* The opt-in LAN listener and the phones paired with it: LanListener of   *)
(* lan.rs, the daemon.lan.* requests of api.rs, the phone_tokens table of  *)
(* store/phone.rs, the rebind at daemon start (server.rs).                 *)
(*                                                                         *)
(* A request touches the port, the handle and the two settings one after   *)
(* the other, with no lock over the whole; requests of two owner clients   *)
(* (the desktop, `dflowd --pair`) interleave at those steps.               *)
(***************************************************************************)
EXTENDS Naturals, FiniteSets

CONSTANTS
    Ports, NoPort,
    DefaultPort,  \* DEFAULT_LAN_PORT
    Phones,       \* phone tokens, each minted by at most one pairing
    Owners,       \* clients with the root token
    MaxAsks,      \* bound: requests of the owners
    MaxStops      \* bound: ends of the daemon

ASSUME LanAccessAssumption ==
    /\ DefaultPort \in Ports /\ NoPort \notin Ports
    /\ IsFiniteSet(Ports) /\ IsFiniteSet(Phones) /\ IsFiniteSet(Owners)
    /\ {MaxAsks, MaxStops} \subseteq Nat

VARIABLES
    daemonUp,
    serving,   \* ports of this machine the daemon accepts LAN connections on
    inner,     \* LanListener.inner: the port of the handle it holds, or NoPort
    enabled,   \* setting LAN_ENABLED = "1"
    lanPort,   \* setting LAN_PORT, or NoPort
    foreign,   \* ports some other program has bound
    pairing,   \* phone_tokens: "none", "live" or "revoked"
    address,   \* the port in the pairing's payload
    linked,    \* phones with an authenticated connection
    ask,       \* the request each owner waits for
    asks, stops,
    lanApart,  \* history: since the daemon started, its rebind worked and no two requests met
    promised   \* history: pairings made where the daemon listened, whose listener nobody moved since

lanSettings == << enabled, lanPort >>
lanVars == << daemonUp, serving, inner, lanSettings, foreign, pairing, address, linked, ask,
              asks, stops, lanApart, promised >>

NoAsk == [verb |-> "none", at |-> "done", port |-> NoPort]

LanInit ==
    /\ daemonUp = TRUE /\ serving = {} /\ inner = NoPort
    /\ enabled = FALSE /\ lanPort = NoPort /\ foreign = {}
    /\ pairing = [t \in Phones |-> "none"] /\ address = [t \in Phones |-> NoPort]
    /\ linked = {} /\ ask = [o \in Owners |-> NoAsk]
    /\ asks = 0 /\ stops = 0 /\ lanApart = TRUE /\ promised = {}

PersistedPort == IF lanPort = NoPort THEN DefaultPort ELSE lanPort
Quiet == \A o \in Owners : ask[o] = NoAsk

--------------------------------------------------------------------------------
(* The requests.                                                               *)

GoesTo(o, at)  == ask' = [ask EXCEPT ![o].at = at]
Replies(o)  == ask' = [ask EXCEPT ![o] = NoAsk]

Asks(o, verb, at, port) ==
    /\ daemonUp /\ ask[o] = NoAsk /\ asks < MaxAsks
    /\ ask' = [ask EXCEPT ![o] = [verb |-> verb, at |-> at, port |-> port]]
    /\ asks' = asks + 1
    /\ lanApart' = (lanApart /\ Quiet)
    /\ UNCHANGED << daemonUp, serving, inner, lanSettings, foreign, pairing, address, linked,
                    stops, promised >>

\* daemon.lan.enable { port? }
LanEnable(o) ==
    \E p \in Ports \cup {PersistedPort} : Asks(o, "enable", "bind", p)

LanDisable(o) == Asks(o, "disable", "stop", NoPort)

\* daemon.lan.pair, with the listener up or not.
LanPair(o) == Asks(o, "pair", "read", NoPort)

\* POST /pair enables the listener first when none is held.
PairHandler(o) ==
    IF inner = NoPort THEN Asks(o, "pair", "bind", PersistedPort)
    ELSE Asks(o, "pair", "read", NoPort)

\* LanListener::start binds before it stops the old listener; a port that is
\* taken, by the daemon itself too, ends the request with an error.
Binds(o) ==
    /\ ask[o].at = "bind"
    /\ IF ask[o].port \in serving \cup foreign
       THEN Replies(o) /\ UNCHANGED serving
       ELSE GoesTo(o, "stop") /\ serving' = serving \cup {ask[o].port}
    /\ UNCHANGED << daemonUp, inner, lanSettings, foreign, pairing, address, linked, asks, stops,
                    lanApart, promised >>

\* A slip: stop() ends the listener and leaves its handle in the slot.
StopsTask(o) ==
    /\ ask[o].at = "stop"
    /\ serving' = serving \ {inner}
    /\ GoesTo(o, IF ask[o].verb = "disable" THEN "off" ELSE "hold")
    /\ promised' = IF ask[o].verb = "disable" THEN {} ELSE promised
    /\ UNCHANGED << daemonUp, inner, lanSettings, foreign, pairing, address, linked, asks, stops,
                    lanApart >>

\* LanListener::stop takes the handle and ends its task; connections that were
\* upgraded run in tasks of their own and stay.
StopsOld(o) ==
    /\ ask[o].at = "stop"
    /\ serving' = serving \ {inner} /\ inner' = NoPort
    /\ GoesTo(o, IF ask[o].verb = "disable" THEN "off" ELSE "hold")
    /\ promised' = IF ask[o].verb = "disable" THEN {} ELSE promised
    /\ UNCHANGED << daemonUp, lanSettings, foreign, pairing, address, linked, asks, stops,
                    lanApart >>

\* The new handle replaces whatever is in the slot: the listener of a handle
\* put there meanwhile runs on and nothing stops it.
Holds(o) ==
    /\ ask[o].at = "hold"
    /\ inner' = ask[o].port /\ GoesTo(o, "on")
    /\ promised' = {t \in promised : address[t] = ask[o].port}
    /\ UNCHANGED << daemonUp, serving, lanSettings, foreign, pairing, address, linked, asks, stops,
                    lanApart >>

SetsOn(o) ==
    /\ ask[o].at = "on"
    /\ enabled' = TRUE /\ GoesTo(o, "port")
    /\ UNCHANGED << daemonUp, serving, inner, lanPort, foreign, pairing, address, linked, asks,
                    stops, lanApart, promised >>

SetsPort(o) ==
    /\ ask[o].at = "port"
    /\ lanPort' = ask[o].port
    /\ IF ask[o].verb = "pair" THEN GoesTo(o, "read") ELSE Replies(o)
    /\ UNCHANGED << daemonUp, serving, inner, enabled, foreign, pairing, address, linked, asks,
                    stops, lanApart, promised >>

SetsOff(o) ==
    /\ ask[o].at = "off"
    /\ enabled' = FALSE /\ Replies(o)
    /\ UNCHANGED << daemonUp, serving, inner, lanPort, foreign, pairing, address, linked, asks,
                    stops, lanApart, promised >>

\* lan_pair: the port of the payload, then the row of the minted token.
ReadsPort(o) ==
    /\ ask[o].at = "read"
    /\ ask' = [ask EXCEPT ![o].at = "mint",
                          ![o].port = IF inner = NoPort THEN PersistedPort ELSE inner]
    /\ UNCHANGED << daemonUp, serving, inner, lanSettings, foreign, pairing, address, linked, asks,
                    stops, lanApart, promised >>

AddsToken(o) ==
    /\ ask[o].at = "mint" /\ Replies(o)
    /\ \E t \in Phones :
         /\ pairing[t] = "none"
         /\ pairing' = [pairing EXCEPT ![t] = "live"]
         /\ address' = [address EXCEPT ![t] = ask[o].port]
         /\ promised' = IF lanApart /\ inner = ask[o].port THEN promised \cup {t} ELSE promised
    /\ UNCHANGED << daemonUp, serving, inner, lanSettings, foreign, linked, asks, stops, lanApart >>

\* daemon.lan.revoke: the row keeps revoked_at for good; an open connection of
\* the phone is not closed.
LanRevoke(o, t) ==
    /\ daemonUp /\ ask[o] = NoAsk /\ pairing[t] = "live"
    /\ pairing' = [pairing EXCEPT ![t] = "revoked"]
    /\ promised' = promised \ {t}
    /\ UNCHANGED << daemonUp, serving, inner, lanSettings, foreign, address, linked, ask, asks,
                    stops, lanApart >>

--------------------------------------------------------------------------------
(* The daemon, the phones, the machine.                                        *)

\* A crash or a shutdown, at any step of a request.
Ends ==
    /\ daemonUp /\ stops < MaxStops
    /\ daemonUp' = FALSE /\ stops' = stops + 1
    /\ serving' = {} /\ inner' = NoPort /\ linked' = {} /\ ask' = [o \in Owners |-> NoAsk]
    /\ UNCHANGED << lanSettings, foreign, pairing, address, asks, lanApart, promised >>

\* The start of the server rebinds the kept port when the toggle is on; a
\* failure is logged and the daemon serves without the LAN.
Starts ==
    LET rebinds == enabled /\ PersistedPort \notin foreign
    IN  /\ ~daemonUp /\ daemonUp' = TRUE
        /\ serving' = IF rebinds THEN {PersistedPort} ELSE {}
        /\ inner' = IF rebinds THEN PersistedPort ELSE NoPort
        /\ lanApart' = (enabled => rebinds)
        /\ promised' = IF lanApart' THEN promised ELSE {}
        /\ UNCHANGED << lanSettings, foreign, pairing, address, linked, ask, asks, stops >>

\* A slip: the handshake asks whether the token was ever minted.
HandshakeOfAnyPairing(t) ==
    /\ t \notin linked /\ address[t] \in serving /\ pairing[t] # "none"
    /\ linked' = linked \cup {t}
    /\ UNCHANGED << daemonUp, serving, inner, lanSettings, foreign, pairing, address, ask, asks,
                    stops, lanApart, promised >>

\* authenticate with lan_origin: resolve_phone_token finds live rows only.  The
\* phone tries again every 1.8 s.
Handshake(t) ==
    /\ t \notin linked /\ address[t] \in serving /\ pairing[t] = "live"
    /\ linked' = linked \cup {t}
    /\ UNCHANGED << daemonUp, serving, inner, lanSettings, foreign, pairing, address, ask, asks,
                    stops, lanApart, promised >>

PhoneDrops(t) ==
    /\ t \in linked /\ linked' = linked \ {t}
    /\ UNCHANGED << daemonUp, serving, inner, lanSettings, foreign, pairing, address, ask, asks,
                    stops, lanApart, promised >>

\* Another program binds a free port, or lets one go.
OthersBind ==
    /\ \E p \in Ports \ serving :
         foreign' = IF p \in foreign THEN foreign \ {p} ELSE foreign \cup {p}
    /\ UNCHANGED << daemonUp, serving, inner, lanSettings, pairing, address, linked, ask, asks,
                    stops, lanApart, promised >>

LanRequest(o) ==
    \/ Binds(o) \/ StopsOld(o) \/ Holds(o) \/ SetsOn(o) \/ SetsPort(o) \/ SetsOff(o)
    \/ ReadsPort(o) \/ AddsToken(o)

LanNext ==
    \/ \E o \in Owners : LanEnable(o) \/ LanDisable(o) \/ LanPair(o) \/ PairHandler(o)
    \/ \E o \in Owners : LanRequest(o)
    \/ \E o \in Owners, t \in Phones : LanRevoke(o, t)
    \/ \E t \in Phones : Handshake(t) \/ PhoneDrops(t)
    \/ Ends \/ Starts \/ OthersBind

\* The daemon's threads run; the desktop starts the daemon; a phone retries.
LanFairness ==
    /\ \A o \in Owners : WF_lanVars(LanRequest(o))
    /\ \A t \in Phones : WF_lanVars(Handshake(t))
    /\ WF_lanVars(Starts)

LanSpec == LanInit /\ [][LanNext]_lanVars /\ LanFairness

--------------------------------------------------------------------------------
(* Properties.                                                                 *)

\* Types, and: the listener LanListener holds is one that accepts, and only
\* while the daemon runs.
LanTypeOK ==
    /\ daemonUp \in BOOLEAN /\ enabled \in BOOLEAN /\ lanApart \in BOOLEAN
    /\ serving \subseteq Ports \ foreign /\ foreign \subseteq Ports
    /\ inner \in serving \cup {NoPort} /\ lanPort \in Ports \cup {NoPort}
    /\ pairing \in [Phones -> {"none", "live", "revoked"}]
    /\ \A t \in Phones : (address[t] = NoPort) = (pairing[t] = "none")
    /\ linked \subseteq {t \in Phones : pairing[t] # "none"}
    /\ promised \subseteq {t \in Phones : pairing[t] = "live"}
    /\ ~daemonUp => serving = {} /\ linked = {} /\ Quiet
    /\ asks \in 0..MaxAsks /\ stops \in 0..MaxStops

\* Off by default, on only as the toggle says: with no request running, and
\* none that met another since the daemon started, the daemon listens on the
\* LAN exactly when LAN_ENABLED is set, at the kept port and nowhere else.
\* A crash between a request's steps is covered: the start reads the settings.
ToggleIsTrue ==
    daemonUp /\ Quiet /\ lanApart =>
        serving = (IF enabled THEN {PersistedPort} ELSE {}) /\ serving = {inner} \ {NoPort}

\* "A paired phone reconnects after a daemon restart without the desktop
\* re-enabling it" (server.rs): a phone paired where the daemon listened comes
\* back until the pairing is revoked, the listener is disabled or moved, or its
\* port is lost to another program.
PromisedPhonesReturn ==
    \A t \in Phones : t \in promised /\ lanApart ~> t \in linked \/ t \notin promised \/ ~lanApart

\* A revoked phone opens no connection again, whatever restarts and requests
\* follow; one that is open stays until it drops.
RevokedStaysOut ==
    [][\A t \in Phones : pairing[t] = "revoked" =>
           pairing'[t] = "revoked" /\ (t \in linked' => t \in linked)]_lanVars
================================================================================
