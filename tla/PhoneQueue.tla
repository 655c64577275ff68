------------------------------ MODULE PhoneQueue ------------------------------
(***************************************************************************)
(* The Needs You queue on the phone (apps/mobile: client.ts, data/live.ts, *)
(* state/app-store.tsx): the connection and its retry timer, the fetch of  *)
(* the fleet in two calls whose failures read as empty answers, dismissals *)
(* that leave the screen before the daemon has resolved them.              *)
(*                                                                         *)
(* The app asks for events once, before its socket is open: the call is    *)
(* rejected, the rejection swallowed, and no event ever arrives.  What     *)
(* refreshes the queue is a connect, an approval, or a dismissal that      *)
(* failed.                                                                 *)
(***************************************************************************)
EXTENDS Naturals, Sequences, FiniteSets

CONSTANTS
    PhoneItems,     \* rows of needs_you_items: one per card and dedupe_key
    MaxRaises,      \* bound: raises
    MaxPhoneDrops,  \* bound: connections lost or refused
    MaxLoads,       \* bound: fetches of the fleet that run at once
    MaxTaps         \* bound: dismissals and approvals by the user

ASSUME PhoneQueueAssumption ==
    /\ IsFiniteSet(PhoneItems)
    /\ {MaxRaises, MaxPhoneDrops, MaxTaps} \subseteq Nat /\ MaxLoads \in Nat \ {0}

VARIABLES
    openItems,  \* items with resolved_at NULL, at the daemon
    phoneLink,  \* "dialing", "up" or "down", with the retry timer set
    onScreen,   \* snapshot.needsYou
    index,      \* needsYouIndex: the items a dismissal can resolve
    line,       \* requests on the connection, oldest first, with their answers
    raises, phoneDrops, taps,
    since       \* history: items open ever since the link came up

phoneVars == << openItems, phoneLink, onScreen, index, line, raises, phoneDrops, taps, since >>

PhoneInit ==
    /\ openItems \in SUBSET PhoneItems /\ phoneLink = "dialing"
    /\ onScreen = {} /\ index = {} /\ line = << >>
    /\ raises = 0 /\ phoneDrops = 0 /\ taps = 0 /\ since = {}

\* The fleet.status call of loadFleet, the card.query after it, needs_you.resolve.
AskFleet        == [verb |-> "fleet", answered |-> FALSE, got |-> {}]
AskCards(items) == [verb |-> "cards", answered |-> FALSE, got |-> items]
AskResolve(i)   == [verb |-> "resolve", answered |-> FALSE, got |-> {i}]

Has(verb) == {k \in DOMAIN line : line[k].verb = verb}
Loads     == Has("fleet") \cup Has("cards")

--------------------------------------------------------------------------------
(* The daemon: others raise and resolve items, and it answers in order.        *)

RaiseItem(i) ==
    /\ i \notin openItems /\ raises < MaxRaises
    /\ openItems' = openItems \cup {i} /\ raises' = raises + 1
    /\ UNCHANGED << phoneLink, onScreen, index, line, phoneDrops, taps, since >>

ResolveItem(i) ==
    /\ i \in openItems
    /\ openItems' = openItems \ {i} /\ since' = since \ {i}
    /\ UNCHANGED << phoneLink, onScreen, index, line, raises, phoneDrops, taps >>

\* fleet_status reads the open items; needs_you_resolve resolves whatever is
\* open under the row's key, raised before or after the phone's snapshot.
AnswersNext ==
    \E k \in DOMAIN line :
        /\ ~line[k].answered /\ \A m \in 1..k - 1 : line[m].answered
        /\ line' = [line EXCEPT ![k].answered = TRUE,
                                ![k].got = IF line[k].verb = "fleet" THEN openItems ELSE @]
        /\ openItems' = IF line[k].verb = "resolve" THEN openItems \ line[k].got ELSE openItems
        /\ since' = since \cap openItems'
        /\ UNCHANGED << phoneLink, onScreen, index, raises, phoneDrops, taps >>

--------------------------------------------------------------------------------
(* The phone.                                                                  *)

\* refresh(): on a closed socket both calls are rejected and the queue is empty.
RefreshQueue ==
    IF phoneLink = "up"
    THEN line' = Append(line, AskFleet) /\ UNCHANGED << onScreen, index >>
    ELSE onScreen' = {} /\ index' = {} /\ UNCHANGED line

\* auth.welcome: connect() resolves, at start or from the timer, and refreshes.
Welcomed ==
    /\ phoneLink = "dialing" /\ phoneLink' = "up"
    /\ line' = << AskFleet >> /\ since' = openItems
    /\ UNCHANGED << openItems, onScreen, index, raises, phoneDrops, taps >>

\* The dial fails: onclose sets the timer, and the rejection finds it set.
Refused ==
    /\ phoneLink = "dialing" /\ phoneDrops < MaxPhoneDrops
    /\ phoneLink' = "down" /\ phoneDrops' = phoneDrops + 1
    /\ UNCHANGED << openItems, onScreen, index, line, raises, taps, since >>

\* The retry timer, 1.8 s after the close.
RetryFires ==
    /\ phoneLink = "down" /\ phoneLink' = "dialing"
    /\ UNCHANGED << openItems, onScreen, index, line, raises, phoneDrops, taps, since >>

\* The connection is lost: every call on it is rejected at once.  A fetch that
\* waited for the fleet, or a dismissal, which refreshes when it fails, ends
\* with an empty queue; one that waited for the cards keeps the fleet it had.
LinkDrops ==
    /\ phoneLink = "up" /\ phoneDrops < MaxPhoneDrops
    /\ phoneLink' = "down" /\ phoneDrops' = phoneDrops + 1 /\ line' = << >> /\ since' = {}
    /\ LET left == IF Has("fleet") \cup Has("resolve") # {} THEN {}
                   ELSE LET k == CHOOSE k \in Loads : \A m \in Loads : m <= k IN line[k].got
       IN  IF line = << >> THEN UNCHANGED << onScreen, index >>
           ELSE onScreen' = left /\ index' = left
    /\ UNCHANGED << openItems, raises, taps >>

\* The oldest answer arrives.  loadFleet asks for the cards when it has the
\* fleet, and sets queue and index when it has both; a dismissal leaves the index.
AnswerArrives ==
    /\ line # << >> /\ Head(line).answered
    /\ LET a == Head(line) IN
         CASE a.verb = "fleet" -> /\ line' = Append(Tail(line), AskCards(a.got))
                                  /\ UNCHANGED << onScreen, index >>
           [] a.verb = "cards" -> /\ line' = Tail(line)
                                  /\ onScreen' = a.got /\ index' = a.got
           [] OTHER            -> /\ line' = Tail(line)
                                  /\ index' = index \ a.got /\ UNCHANGED onScreen
    /\ UNCHANGED << openItems, phoneLink, raises, phoneDrops, taps, since >>

\* dismissNeedsYou: off the screen first; an item the index no longer has is
\* done; on a closed socket the call fails and the refresh empties the queue.
Dismiss(i) ==
    /\ i \in onScreen /\ taps < MaxTaps /\ taps' = taps + 1
    /\ IF phoneLink = "up" \/ i \notin index
       THEN /\ onScreen' = onScreen \ {i} /\ UNCHANGED index
            /\ line' = IF i \in index THEN Append(line, AskResolve(i)) ELSE line
       ELSE RefreshQueue
    /\ UNCHANGED << openItems, phoneLink, raises, phoneDrops, since >>

\* approvePlan that succeeded refreshes.
Approved ==
    /\ phoneLink = "up" /\ taps < MaxTaps /\ Cardinality(Loads) < MaxLoads
    /\ taps' = taps + 1 /\ RefreshQueue
    /\ UNCHANGED << openItems, phoneLink, raises, phoneDrops, since >>

PhoneNext ==
    \/ \E i \in PhoneItems : RaiseItem(i) \/ ResolveItem(i) \/ Dismiss(i)
    \/ Welcomed \/ Refused \/ RetryFires \/ LinkDrops
    \/ AnswersNext \/ AnswerArrives \/ Approved

\* The daemon answers, the socket delivers, the timer fires, a dial ends.
PhoneFairness ==
    WF_phoneVars(AnswersNext) /\ WF_phoneVars(AnswerArrives) /\ WF_phoneVars(RetryFires)
    /\ WF_phoneVars(Welcomed)

PhoneSpec == PhoneInit /\ [][PhoneNext]_phoneVars /\ PhoneFairness

--------------------------------------------------------------------------------
(* Properties.                                                                 *)

\* Types, and: a dismissal can name only items the phone has fetched, and one
\* connection carries all that is in flight.
PhoneTypeOK ==
    /\ openItems \subseteq PhoneItems /\ onScreen \subseteq PhoneItems /\ index \subseteq PhoneItems
    /\ phoneLink \in {"dialing", "up", "down"} /\ since \subseteq openItems
    /\ \A k \in DOMAIN line :
         line[k].verb \in {"fleet", "cards", "resolve"} /\ line[k].got \subseteq PhoneItems
    /\ phoneLink # "up" => line = << >> /\ since = {}
    /\ raises \in 0..MaxRaises /\ phoneDrops \in 0..MaxPhoneDrops /\ taps \in 0..MaxTaps

\* With the connection up and nothing in flight, every item that was open when
\* it came up and still is, is on the screen: whatever was lost with earlier
\* connections, whatever dismissals and fetches overlapped on this one.  Items
\* raised since are not promised: no event reaches the phone.
QueueOfThisConnection ==
    phoneLink = "up" /\ line = << >> => since \subseteq onScreen

\* An item open while the phone is cut off ends on the screen or resolved, a
\* dismissal that was lost with the connection too.
PhoneCatchesUp ==
    \A i \in PhoneItems :
        i \in openItems /\ phoneLink # "up" ~> i \in onScreen \/ i \notin openItems
================================================================================
