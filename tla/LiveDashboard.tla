---------------------------- MODULE LiveDashboard ----------------------------
(***************************************************************************)
(* The live page of the dashboard and its connection: the WebSocketManager *)
(* (shared/ws/manager.ts) that React effects acquire and release           *)
(* (hooks.ts, useWsDispatch.ts), the one-time tickets (shared/ws_ticket.py,*)
(* router_ws_ticket.py), the handshake (ws-server handler.py), and the     *)
(* Redux slices the frames end in.  EXTENDS the server's relays.           *)
(*                                                                         *)
(* Events of the page are atomic.  connect() awaits its ticket, and what   *)
(* happens meanwhile interleaves.  RTK Query runs one request per cache    *)
(* key, so the managers that wait at the same time get the same ticket.    *)
(***************************************************************************)
EXTENDS ChannelRelay

CONSTANTS
    None,            \* no locomotive, no message
    MaxAttempts,     \* maxReconnectAttempts
    MaxFaults        \* bound: lost connections, refusals, denied tickets, relay errors

ASSUME DashboardAssumption ==
    /\ IsFiniteSet(Socket) /\ Socket = 1..Cardinality(Socket)
    /\ None \notin Locomotive \cup Message
    /\ {MaxAttempts, MaxFaults} \subseteq Nat

VARIABLES
    rendered,    \* the locomotive the page names, as last rendered
    selected,    \* the locomotive its effects last ran for
    status,      \* connectionStatus of the page
    shown,       \* shown[k]: last message of a kind in the slices
    managers,    \* the WebSocketManagers ever made, the last one in sharedManagers
    stored,      \* tickets in Redis
    issued,      \* tickets created
    faults

pageVars == <<rendered, selected, status, shown>>
vars == <<relayVars, pageVars, managers, stored, issued, faults>>

\* `at` is what a manager waits for; `why` tells how it came to rest, and `refused` how
\* many handshakes failed in a row.
Manager == [loco : Locomotive, disposed : BOOLEAN,
            at : {"ticket", "handshake", "open", "timer", "rest"},
            ticket : Nat, attempts : 0..MaxAttempts,
            why : {"", "denied", "clean", "exhausted"}, refused : Nat]

Status == {"connecting", "connected", "disconnected", "reconnecting"}

TypeOK ==
    /\ RelayTypeOK
    /\ rendered \in Locomotive \cup {None} /\ selected \in Locomotive \cup {None}
    /\ status \in Status
    /\ shown \in [Kind -> Message \cup {None}]
    /\ managers \in Seq(Manager) /\ Len(managers) <= Cardinality(Socket)
    /\ stored \subseteq 1..issued /\ issued \in Nat
    /\ faults \in 0..MaxFaults

Blank == [k \in Kind |-> None]

Init ==
    /\ RelayInit
    /\ rendered = None /\ selected = None /\ status = "disconnected" /\ shown = Blank
    /\ managers = <<>>
    /\ stored = {} /\ issued = 0 /\ faults = 0

Fault ==
    /\ faults < MaxFaults
    /\ faults' = faults + 1

Current == Len(managers)

Waiting == {m \in DOMAIN managers : managers[m].at = "ticket"}

-----------------------------------------------------------------------------
(* Mounting, switching and unmounting.  React renders and commits the page *)
(* first and runs its effects in a later task: every cleanup of the commit,*)
(* then every effect, without a pause.  One component uses useWebSocket(), *)
(* so that releaseManager() comes before acquireManager(), an entry of     *)
(* sharedManagers counts one user, and no path is acquired twice.          *)

NewManager(l) == [loco |-> l, disposed |-> FALSE, at |-> "ticket", ticket |-> 0,
                  attempts |-> 0, why |-> "", refused |-> 0]

\* dispose(): the socket and the timer go, a connect() that awaits its ticket does not.
Disposed(manager) ==
    [manager EXCEPT !.disposed = TRUE, !.at = IF @ = "ticket" THEN @ ELSE "rest"]

\* The managers after releaseManager() of the mounted page's, which has no other user.
Released ==
    IF selected = None THEN managers
    ELSE [managers EXCEPT ![Current] = Disposed(@)]

\* The server's side of the sockets that close with it.
ReleasesSockets ==
    Unsubscribe({m \in {Current} : selected # None /\ managers[m].at = "open"})

\* Mutant: the slices are reset when the page mounts, not when the locomotive changes.
Reset_AtMount == shown' = IF selected = None THEN Blank ELSE shown

\* telemetryReset(), healthReset(), alertsReset().
Reset == shown' = Blank

\* The page is committed with another locomotive, or removed.  React renders again only
\* when the effects of the last commit have run.
Render(l) ==
    /\ rendered = selected /\ rendered # l
    /\ l # None => Current < Cardinality(Socket)
    /\ rendered' = l
    /\ UNCHANGED <<relayVars, selected, status, shown, managers, stored, issued, faults>>

\* The effects of a changed path: the cleanup releases the old manager, the effect acquires
\* a new one, whose connect() fetches a ticket, and resets the slices.
Select(l) ==
    /\ rendered = l /\ selected # l
    /\ Current < Cardinality(Socket)
    /\ ReleasesSockets
    /\ managers' = Append(Released, NewManager(l))
    /\ selected' = l
    /\ status' = "connecting"
    /\ Reset
    /\ UNCHANGED <<rendered, stored, issued, faults>>

\* The cleanup of a page that was removed.
Unmount ==
    /\ rendered = None /\ selected # None
    /\ ReleasesSockets
    /\ managers' = Released
    /\ selected' = None
    /\ status' = "disconnected"
    /\ UNCHANGED <<rendered, shown, stored, issued, faults>>

-----------------------------------------------------------------------------
(* connect().                                                              *)

\* GET /ws/ticket is answered: every connect() that awaits it opens its socket.
TicketIssued ==
    /\ Waiting # {}
    /\ issued' = issued + 1
    /\ stored' = stored \cup {issued + 1}
    /\ managers' = [m \in DOMAIN managers |->
          IF m \in Waiting
          THEN [managers[m] EXCEPT !.at = "handshake", !.ticket = issued + 1]
          ELSE managers[m]]
    /\ UNCHANGED <<relayVars, pageVars, faults>>

\* The request fails: fetchTicket() returns null, and nothing tries again.
TicketDenied ==
    /\ Waiting # {}
    /\ Fault
    /\ managers' = [m \in DOMAIN managers |->
          IF m \in Waiting THEN [managers[m] EXCEPT !.at = "rest", !.why = "denied"]
          ELSE managers[m]]
    /\ status' = "disconnected"
    /\ UNCHANGED <<relayVars, rendered, selected, shown, stored, issued>>

\* WS_TICKET_TTL is over, or Redis lost the ticket.
TicketExpires(t) ==
    /\ t \in stored
    /\ Fault
    /\ stored' = stored \ {t}
    /\ UNCHANGED <<relayVars, pageVars, managers, issued>>

\* Mutant: GET leaves the ticket where it is.
Consume_Get(t) == UNCHANGED stored

\* validate_ticket(): GETDEL.
Consume(t) == stored' = stored \ {t}

\* onopen
Opened(manager) == [manager EXCEPT !.at = "open", !.refused = 0, !.attempts = 0]

\* The handler consumes the ticket and accepts the socket.
HandshakeAccepted(m) ==
    /\ managers[m].at = "handshake"
    /\ managers[m].ticket \in stored
    /\ Consume(managers[m].ticket)
    /\ managers' = [managers EXCEPT ![m] = Opened(@)]
    /\ status' = "connected"
    /\ Subscribe(m, managers[m].loco)
    /\ UNCHANGED <<rendered, selected, shown, issued, faults>>

\* Mutant: an unclean close schedules no timer.
Dropped_Forgets(manager) == [manager EXCEPT !.at = "rest"]

\* onclose of a socket that did not end cleanly: the manager waits for its reconnect
\* timer, or gives up.  A disposed one does nothing.
Dropped(manager) ==
    IF manager.disposed THEN [manager EXCEPT !.at = "rest"]
    ELSE IF manager.attempts < MaxAttempts
    THEN [manager EXCEPT !.at = "timer", !.attempts = @ + 1]
    ELSE [manager EXCEPT !.at = "rest", !.why = "exhausted"]

StatusOfDropped(manager) ==
    CASE manager.disposed -> status
      [] manager.at = "timer" -> "reconnecting"
      [] OTHER -> "disconnected"

\* A close before accept() answers the handshake with an HTTP error, whatever code the
\* handler gave, and the browser reports an unclean close: the ticket is not in Redis, or
\* the server is full.
HandshakeRefused(m) ==
    /\ managers[m].at = "handshake"
    /\ \/ /\ managers[m].ticket \notin stored
          /\ UNCHANGED <<stored, faults>>
       \/ /\ managers[m].ticket \in stored
          /\ Consume(managers[m].ticket)
          /\ Fault
    /\ managers' = [managers EXCEPT ![m] = Dropped([managers[m] EXCEPT !.refused = @ + 1])]
    /\ status' = StatusOfDropped(managers'[m])
    /\ UNCHANGED <<relayVars, rendered, selected, shown, issued>>

\* The connection breaks.
Lost(m) ==
    /\ managers[m].at = "open"
    /\ Fault
    /\ managers' = [managers EXCEPT ![m] = Dropped(@)]
    /\ status' = StatusOfDropped(managers'[m])
    /\ Unsubscribe({m})
    /\ UNCHANGED <<rendered, selected, shown, stored, issued>>

\* The server closes the socket: eviction by the heartbeat, or shutdown().  wasClean holds,
\* so that the manager does not reconnect.
ClosedByServer(m) ==
    /\ managers[m].at = "open"
    /\ Fault
    /\ managers' = [managers EXCEPT ![m].at = "rest", ![m].why = "clean"]
    /\ status' = IF managers[m].disposed THEN status ELSE "disconnected"
    /\ Unsubscribe({m})
    /\ UNCHANGED <<rendered, selected, shown, stored, issued>>

TimerFires(m) ==
    /\ managers[m].at = "timer"
    /\ managers' = [managers EXCEPT ![m].at = "ticket"]
    /\ status' = "connecting"
    /\ UNCHANGED <<relayVars, rendered, selected, shown, stored, issued, faults>>

\* Mutant: dispose() does not clear the handlers.
Handled_Always(m, message) == [shown EXCEPT ![message.kind] = message]

\* onmessage: the page's handler, gone when its manager is disposed, fills the slices.
Handled(m, message) ==
    IF managers[m].disposed THEN shown ELSE [shown EXCEPT ![message.kind] = message]

Receive(m) ==
    /\ wire[m] # <<>>
    /\ wire' = [wire EXCEPT ![m] = Tail(@)]
    /\ shown' = Handled(m, Head(wire[m]))
    /\ UNCHANGED <<published, relay, inbox, slots, rendered, selected, status, managers,
                   stored, issued, faults>>

-----------------------------------------------------------------------------

Connecting(m) == HandshakeAccepted(m) \/ HandshakeRefused(m) \/ TimerFires(m)

Listener(c) == Subscribed(c) \/ BackoffOver(c) \/ FanOut(c)

client == <<pageVars, managers, stored, issued>>

Next ==
    \/ \E l \in Locomotive \cup {None} : Render(l)
    \/ \E l \in Locomotive : Select(l)
    \/ Unmount
    \/ TicketIssued \/ TicketDenied
    \/ \E t \in 1..issued : TicketExpires(t)
    \/ \E m \in DOMAIN managers :
        Connecting(m) \/ Lost(m) \/ ClosedByServer(m) \/ Receive(m)
    \/ \E k \in Kind, l \in Locomotive : Publish(k, l) /\ UNCHANGED <<client, faults>>
    \/ \E c \in Channel : Listener(c) /\ UNCHANGED <<client, faults>>
    \/ \E c \in Channel : RelayError(c) /\ Fault /\ UNCHANGED client
    \/ \E s \in Socket : SendFrame(s) /\ UNCHANGED <<client, faults>>

Spec == Init /\ [][Next]_vars

\* Requests are answered, handshakes end, timers fire.
Fairness ==
    /\ WF_vars(TicketIssued \/ TicketDenied)
    /\ \A m \in Socket : WF_vars(m \in DOMAIN managers /\ Connecting(m))

FairSpec == Spec /\ Fairness

-----------------------------------------------------------------------------
(* Properties.                                                             *)

\* useWsDispatch.ts:19-23, filter_loco_id: whatever is still under way for the locomotive
\* looked at before, the slices hold nothing but messages of the one the page names.  (From
\* a render to its effects the page names the new one beside the slices of the old one.)
ShownIsSelected ==
    rendered = selected /\ rendered # None =>
        \A k \in Kind : shown[k] = None \/ shown[k].loco = rendered

\* Frames overtake none: a message replaces an older one of its kind, across reconnects,
\* full queues and relays that subscribe anew.
ShownInOrder ==
    [][\A k \in Kind :
        shown[k] # None /\ shown'[k] \notin {None, shown[k]} => shown'[k].n > shown[k].n]_vars

\* connection_manager.py:141-149, drop-oldest: the newest message that reached the queue of
\* a page's slot is still in it, on the wire, or on the page.
NewestSurvives ==
    \A m \in DOMAIN managers :
        managers[m].at = "open" /\ ~managers[m].disposed =>
            \A c \in DOMAIN slots[m] :
                LET n == slots[m][c].newest IN
                n > 0 => \/ \E message \in Range(slots[m][c].queue) \cup Range(wire[m]) :
                                message.n = n
                         \/ shown[c.kind] # None /\ shown[c.kind].n = n

\* ws_ticket.py:35-37, "single-use even under concurrent connects": no two sockets were
\* admitted with the same ticket.
TicketAdmitsOnce ==
    \A m, o \in DOMAIN managers :
        m # o /\ managers[m].at = "open" /\ managers[o].at = "open" =>
            managers[m].ticket # managers[o].ticket

\* A mounted page's manager without a connection, whether onclose scheduled a timer or not.
CutOff(manager) == ~manager.disposed /\ manager.at # "open"

\* What may end that: a connection, the page's end, a denied ticket, a clean close by the
\* server, or maxReconnectAttempts handshakes refused in a row.
Resumed(manager) ==
    \/ manager.at = "open" \/ manager.disposed
    \/ manager.why \in {"denied", "clean"}
    \/ manager.why = "exhausted" /\ manager.refused >= MaxAttempts

\* manager.ts:78-85, onclose: a page whose connection was lost connects again, unless it is
\* left, its ticket is denied, the server itself closed the socket, or maxReconnectAttempts
\* handshakes in a row were refused.
Reconnects ==
    \A m \in Socket :
        m \in DOMAIN managers /\ CutOff(managers[m])
            ~> m \in DOMAIN managers /\ Resumed(managers[m])
=============================================================================
