------------------------------ MODULE Connection ------------------------------
(***************************************************************************)
(* A client's conversation with the daemon (conn.rs; client.ts of the      *)
(* desktop and the phone, client.rs of the CLI): the handshake that gives  *)
(* a connection its scope, the loop that handles one request after the     *)
(* other, the calls a client waits for, and what is left of them when      *)
(* either end goes.                                                        *)
(*                                                                         *)
(* The two ends of a connection close apart: requests the daemon has       *)
(* already received are handled after their client gave them up.           *)
(***************************************************************************)
EXTENDS Naturals, Sequences, FiniteSets

CONSTANTS
    Asked,        \* [client -> the verbs it asks for]
    ScopeOf,      \* [client -> the scope its token has]
    MaxSockets,   \* bound: connections opened
    MaxCalls,     \* bound: calls made
    MaxEnds       \* bound: ends of the daemon

Peers == DOMAIN Asked
TokenScopes  == {"root", "concertmaster", "round", "agent", "phone"}

ASSUME ConnectionAssumption ==
    /\ ScopeOf \in [Peers -> TokenScopes] /\ IsFiniteSet(Peers)
    /\ {MaxSockets, MaxCalls, MaxEnds} \subseteq Nat

--------------------------------------------------------------------------------
(* The dispatch tables.                                                        *)

ReadVerbs == {"fleet.status", "session.list", "session.peek", "card.query", "card.get"}
KnowReads == {"know.index", "know.find", "know.get"}

AgentVerbs ==
    KnowReads \cup
    {"agent.context", "session.self_report", "session.set_note", "card.create", "card.update",
     "card.move", "card.get", "know.add", "notify.forward", "finding.add", "artifact.register",
     "artifact.feedback.poll"}

ConcertmasterVerbs ==
    ReadVerbs \cup KnowReads \cup
    {"project.list", "session.send_verified", "card.create", "card.update", "card.move",
     "dispatch.start", "round.start"}

RoundVerbs == ReadVerbs \cup KnowReads \cup {"project.list", "round.digest"}

PhoneVerbs ==
    ReadVerbs \cup
    {"needs_you.list", "needs_you.resolve", "artifact.get", "artifact.feedback.submit",
     "session.send_verified", "event.subscribe", "event.ack"}

SessionVerbs ==
    {"session.create", "session.attach", "session.detach", "session.kill", "session.list",
     "fleet.status", "session.rename", "session.resume"}

BoardVerbs ==
    {"agents.list", "agents.add", "agents.update", "agents.remove", "agents.detect",
     "project.add", "project.update", "project.list", "card.create", "card.update", "card.move",
     "card.query", "card.get", "dispatch.start", "dispatch.cancel"}

ProjectVerbs ==
    KnowReads \cup
    {"env.set", "env.list", "env.delete", "env.materialize", "env.cleanup", "env.import",
     "session.peek", "session.send_verified", "auth.mint_concertmaster", "round.start",
     "needs_you.list", "needs_you.resolve"}

OwnerVerbs ==
    {"daemon.lan.enable", "daemon.lan.disable", "daemon.lan.status", "daemon.lan.pair",
     "daemon.lan.revoke", "recipe.list", "recipe.get", "recipe.validate", "recipe.install",
     "recipe.grant", "recipe.revoke_grant", "artifact.register", "artifact.get",
     "artifact.feedback.submit", "artifact.feedback.poll"}

ShipVerbs ==
    {"github.auth.status", "github.issues.preview", "github.issues.import", "github.issue.get",
     "gate.run", "gate.status", "gate.resolve_finding", "gate.ship", "gate.merge", "service.add",
     "service.list", "service.remove", "event.subscribe", "event.ack", "daemon.shutdown"}

RootVerbs == SessionVerbs \cup BoardVerbs \cup ProjectVerbs \cup OwnerVerbs \cup ShipVerbs

\* dispatch_control routes by scope first.
Routes(scope) ==
    CASE scope = "agent"         -> AgentVerbs
      [] scope = "concertmaster" -> ConcertmasterVerbs
      [] scope = "round"         -> RoundVerbs
      [] scope = "phone"         -> PhoneVerbs
      [] OTHER                   -> RootVerbs

\* ConcertmasterRegistry::excludes, which the daemon tells whoever mints a token.
Excludes ==
    {"env.set", "env.list", "env.delete", "env.materialize", "env.cleanup", "env.import",
     "session.kill", "dispatch.cancel", "agents.list", "agents.add", "agents.update",
     "agents.remove", "agents.detect", "recipe.install", "gate.merge", "gate.ship",
     "daemon.shutdown"}

--------------------------------------------------------------------------------
VARIABLES
    running,  \* the daemon runs
    known,    \* clients whose token the daemon's registries hold
    keyed,    \* clients that were given a token
    sock,   \* connections, in the order they were opened
    calls,     \* calls, in the order they were made
    handled,  \* history: the calls the daemon performed, in order
    ends

talkVars == << running, known, keyed, sock, calls, handled, ends >>

Roots == {c \in Peers : ScopeOf[c] = "root"}

ConnInit ==
    /\ running = TRUE /\ known = Roots /\ keyed = Roots
    /\ sock = << >> /\ calls = << >> /\ handled = << >> /\ ends = 0

Sockets   == DOMAIN sock
CallIds   == DOMAIN calls
StillWaiting(s) == {i \in CallIds : calls[i].on = s /\ calls[i].is = "waiting"}

Answer(i, result) == [of |-> i, result |-> result]
Welcome == Answer(0, "welcome")

\* send(out_tx, ..): nothing reads the queue once the client has closed.
Sent(s, a) == IF sock[s].near = "closed" THEN << >> ELSE Append(sock[s].outbox, a)

(* The client's end.                                                           *)

\* connect(), at start and from the retry timer: one connection at a time.
Dial(c) ==
    /\ running /\ c \in keyed /\ Len(sock) < MaxSockets
    /\ \A s \in Sockets : sock[s].client = c => sock[s].near = "closed"
    /\ sock' = Append(sock, [client |-> c, near |-> "hello", far |-> "hello",
                                 inbox |-> << >>, busy |-> 0, outbox |-> << >>])
    /\ UNCHANGED << running, known, keyed, calls, handled, ends >>

\* call(): on an open socket, welcomed or not; otherwise it is rejected at once.
Request(s, v) ==
    /\ sock[s].near # "closed" /\ v \in Asked[sock[s].client] /\ Len(calls) < MaxCalls
    /\ calls' = Append(calls, [on |-> s, verb |-> v, is |-> "waiting"])
    /\ sock' = [sock EXCEPT ![s].inbox = Append(@, Len(calls) + 1)]
    /\ UNCHANGED << running, known, keyed, handled, ends >>

\* The first answer has to be the welcome; the others settle the call they name.
ReadsAnswer(s) ==
    /\ sock[s].near # "closed" /\ sock[s].outbox # << >>
    /\ LET a == Head(sock[s].outbox)
       IN  /\ sock' = [sock EXCEPT ![s].outbox = Tail(@),
                                       ![s].near = IF a = Welcome THEN "open" ELSE @]
           /\ calls' = IF a.of = 0 THEN calls ELSE [calls EXCEPT ![a.of].is = a.result]
    /\ UNCHANGED << running, known, keyed, handled, ends >>

\* A slip: a connection that closes leaves its calls pending.
LosesNothing(s) ==
    /\ sock[s].near # "closed"
    /\ sock' = [sock EXCEPT ![s].near = "closed", ![s].outbox = << >>]
    /\ UNCHANGED << running, known, keyed, calls, handled, ends >>

\* onclose: every call that still waits on it is rejected.
Loses(s) ==
    /\ sock[s].near # "closed"
    /\ sock' = [sock EXCEPT ![s].near = "closed", ![s].outbox = << >>]
    /\ calls' = [i \in CallIds |-> IF i \in StillWaiting(s) THEN [calls[i] EXCEPT !.is = "lost"]
                                  ELSE calls[i]]
    /\ UNCHANGED << running, known, keyed, handled, ends >>

\* The client learns that the daemon closed its end; what it had sent arrives
\* first, unless the daemon died.
SeesClose(s) ==
    /\ sock[s].far = "closed" /\ sock[s].outbox = << >>
    /\ Loses(s)

\* The network, the client's reload or its read timeout cut the connection.
Cut(s) ==
    /\ Loses(s)

--------------------------------------------------------------------------------
(* The daemon's end.                                                           *)

\* authenticate: a token its registries hold gives the connection its scope; any
\* other closes it.
Authenticate(s) ==
    /\ running /\ sock[s].far = "hello"
    /\ sock' = IF sock[s].client \in known
                 THEN [sock EXCEPT ![s].far = "open", ![s].outbox = Sent(s, Welcome)]
                 ELSE [sock EXCEPT ![s].far = "closed"]
    /\ UNCHANGED << running, known, keyed, calls, handled, ends >>

\* handle_socket reads the next request; a verb without an arm in the table of
\* its scope is refused on the spot.
TakesNext(s) ==
    /\ running /\ sock[s].far = "open" /\ sock[s].busy = 0 /\ sock[s].inbox # << >>
    /\ LET i == Head(sock[s].inbox)
           routed == calls[i].verb \in Routes(ScopeOf[sock[s].client])
       IN  sock' = [sock EXCEPT ![s].inbox = Tail(@),
                                    ![s].busy = IF routed THEN i ELSE 0,
                                    ![s].outbox = IF routed THEN @
                                                ELSE Sent(s, Answer(i, "refused"))]
    /\ UNCHANGED << running, known, keyed, calls, handled, ends >>

\* Who is handed a token by a verb: the client that mints, the round session,
\* the agent, the phone.
Given(v) ==
    {c \in Peers :
        \/ v = "auth.mint_concertmaster" /\ ScopeOf[c] = "concertmaster"
        \/ v = "round.start" /\ ScopeOf[c] = "round"
        \/ v \in {"session.create", "session.resume", "dispatch.start"} /\ ScopeOf[c] = "agent"
        \/ v = "daemon.lan.pair" /\ ScopeOf[c] = "phone"}

\* A slip: the answer leaves before the handler has run.
AnswersFirst(s) ==
    /\ running /\ sock[s].busy # 0 /\ sock[s].far = "open"
    /\ LET i == sock[s].busy
       IN  IF \E k \in DOMAIN sock[s].outbox : sock[s].outbox[k].of = i
           THEN /\ handled' = Append(handled, i)
                /\ sock' = [sock EXCEPT ![s].busy = 0]
                /\ known' = known \cup Given(calls[i].verb)
                /\ keyed' = keyed \cup Given(calls[i].verb)
           ELSE /\ sock' = [sock EXCEPT ![s].outbox = Sent(s, Answer(i, "ok"))]
                /\ UNCHANGED << handled, known, keyed >>
    /\ UNCHANGED << running, calls, ends >>

\* The handler's effect, then its answer, then the next request: a handler that
\* waits (a poll, a verified submit) holds up the whole connection.  After
\* daemon.shutdown the loop ends.
Perform(s) ==
    /\ running /\ sock[s].busy # 0 /\ sock[s].far = "open"
    /\ LET i == sock[s].busy
       IN  /\ handled' = Append(handled, i)
           /\ sock' = [sock EXCEPT ![s].busy = 0, ![s].outbox = Sent(s, Answer(i, "ok")),
                                       ![s].far = IF calls[i].verb = "daemon.shutdown" THEN "closed"
                                                  ELSE @]
           /\ known' = known \cup Given(calls[i].verb)
           /\ keyed' = keyed \cup Given(calls[i].verb)
    /\ UNCHANGED << running, calls, ends >>

\* The loop ends when everything the client had sent is handled; a cut may have
\* lost the tail of it.
Notices(s) ==
    /\ running /\ sock[s].near = "closed" /\ sock[s].far # "closed" /\ sock[s].busy = 0
    /\ \/ sock[s].inbox = << >> /\ sock' = [sock EXCEPT ![s].far = "closed"]
       \/ /\ sock[s].inbox # << >>
          /\ \E n \in 0..Len(sock[s].inbox) - 1 :
               sock' = [sock EXCEPT ![s].inbox = SubSeq(@, 1, n),
                                        ![s].far = IF n = 0 THEN "closed" ELSE @]
    /\ UNCHANGED << running, known, keyed, calls, handled, ends >>

\* A task or round token is dropped when its session is gone.
Revoke(c) ==
    /\ running /\ ScopeOf[c] \in {"agent", "round"} /\ c \in known
    /\ known' = known \ {c}
    /\ UNCHANGED << running, keyed, sock, calls, handled, ends >>

\* daemon.lan.revoke.
RevokePhone(c) ==
    /\ running /\ ScopeOf[c] = "phone" /\ c \in known
    /\ known' = known \ {c}
    /\ UNCHANGED << running, keyed, sock, calls, handled, ends >>

\* The daemon dies, or stops: tokens kept in memory die with it, the root token
\* and the pairings are on disk.
Dies ==
    /\ running /\ ends < MaxEnds
    /\ running' = FALSE /\ ends' = ends + 1
    /\ known' = {c \in known : ScopeOf[c] \in {"root", "phone"}}
    /\ sock' = [s \in Sockets |-> [sock[s] EXCEPT !.far = "closed", !.inbox = << >>,
                                                      !.busy = 0, !.outbox = << >>]]
    /\ UNCHANGED << keyed, calls, handled >>

Boots ==
    /\ ~running /\ running' = TRUE
    /\ UNCHANGED << known, keyed, sock, calls, handled, ends >>

DaemonEnd(s) == Authenticate(s) \/ TakesNext(s) \/ Perform(s) \/ Notices(s)

ConnNext ==
    \/ \E c \in Peers : Dial(c) \/ Revoke(c) \/ RevokePhone(c)
    \/ \E s \in Sockets : \E v \in Asked[sock[s].client] : Request(s, v)
    \/ \E s \in Sockets : ReadsAnswer(s) \/ SeesClose(s) \/ Cut(s)
    \/ \E s \in Sockets : DaemonEnd(s)
    \/ Dies \/ Boots

\* The daemon's tasks run and their handlers end; a client reads its socket.
ConnFairness ==
    \A s \in 1..MaxSockets :
        /\ WF_talkVars(s \in Sockets /\ DaemonEnd(s))
        /\ WF_talkVars(s \in Sockets /\ (ReadsAnswer(s) \/ SeesClose(s)))

ConnSpec == ConnInit /\ [][ConnNext]_talkVars /\ ConnFairness

--------------------------------------------------------------------------------
(* Properties.                                                                 *)

\* Types, and: the daemon works for a connection only between its welcome and
\* its close, on one request of that connection at a time.
ConnTypeOK ==
    /\ running \in BOOLEAN /\ known \subseteq keyed /\ keyed \subseteq Peers
    /\ ends \in 0..MaxEnds /\ Len(sock) <= MaxSockets /\ Len(calls) <= MaxCalls
    /\ \A s \in Sockets :
         /\ sock[s].client \in Peers
         /\ sock[s].near \in {"hello", "open", "closed"}
         /\ sock[s].far \in {"hello", "open", "closed"}
         /\ sock[s].near = "open" => sock[s].far # "hello"
         /\ sock[s].busy # 0 => sock[s].far = "open" /\ calls[sock[s].busy].on = s
    /\ \A i \in CallIds : calls[i].is \in {"waiting", "ok", "refused", "lost"}
    /\ \A k \in DOMAIN handled : handled[k] \in CallIds

\* What a client is told is what the daemon did, through cuts, restarts and
\* reconnects: a call answered is performed, a call refused is not, none is
\* performed twice, and the calls of one connection are performed in the order
\* they were made.  A lost call may have been performed, or may be yet.
AnsweredMeansDone ==
    /\ \A i \in CallIds :
         LET times == Cardinality({k \in DOMAIN handled : handled[k] = i})
         IN  /\ times <= 1
             /\ calls[i].is = "ok" => times = 1
             /\ calls[i].is = "refused" => times = 0
    /\ \A k, m \in DOMAIN handled :
         k < m /\ calls[handled[k]].on = calls[handled[m]].on => handled[k] < handled[m]

\* "Every request either succeeds or returns a structured error" (protocol.md),
\* or its connection closes and the client rejects it: none waits forever.
CallsSettle ==
    \A i \in 1..MaxCalls : []<>(i \in CallIds => calls[i].is # "waiting")

\* The verbs ConcertmasterRegistry::excludes names, and everything a phone or a
\* round is told it cannot do, are performed for no client that holds only such
\* a token, whatever tokens were minted, lost and minted again before.
ScopesHold ==
    \A k \in DOMAIN handled :
        LET c == sock[calls[handled[k]].on].client
            v == calls[handled[k]].verb
        IN  /\ ScopeOf[c] # "root" => v \notin Excludes
            /\ ScopeOf[c] \in {"phone", "round", "agent"} => Given(v) = {}
================================================================================
