------------------------- MODULE ConnectionManager -------------------------
(***************************************************************************)
(* The WebSocket connection manager of ws-server (ws_server/               *)
(* connection_manager.py) driven by its socket handlers (handler.py) and   *)
(* its heartbeat: who is registered, which relay object serves which       *)
(* channel, and the manager's lock.                                        *)
(*                                                                         *)
(* Coroutines of one event loop: an actor runs until it awaits something   *)
(* that is not ready, and nobody else moves meanwhile.  `running` is the   *)
(* actor that has not yielded.  Taking a free asyncio.Lock nobody waits    *)
(* for does not yield; a taken one is handed on in the order of arrival.   *)
(* A relay's own lock is only ever held between two awaits, so it is never *)
(* contended and left out.                                                 *)
(***************************************************************************)
EXTENDS Naturals, Sequences, FiniteSets

CONSTANTS
    Client,          \* sockets; a browser that reconnects is another one
    Channel,
    ChannelsOf,      \* the channels a handler subscribes to, in order
    MaxConnections,  \* max_connections
    Suspending,      \* sockets whose close() suspends when they are rejected
    Heartbeat,       \* the actor of _heartbeat_loop
    NoOne

Actor == Client \cup {Heartbeat}

ASSUME ManagerAssumption ==
    /\ IsFiniteSet(Client) /\ IsFiniteSet(Channel)
    /\ ChannelsOf \in [Client -> Seq(Channel) \ {<<>>}]
    /\ MaxConnections \in Nat \ {0}
    /\ Suspending \subseteq Client
    /\ Heartbeat \notin Client /\ NoOne \notin Actor

VARIABLES
    running,      \* the actor that holds the event loop, or NoOne
    waiters,      \* actors waiting for the manager's lock
    locked,       \* the lock is held by an actor that yielded
    at,           \* at[a]: where actor a stands
    target,       \* the socket a's disconnect() works on
    todo,         \* channels a's disconnect() has left
    dropping,     \* channel whose relay a's disconnect() is about to pop
    next,         \* next[w]: index of the channel the handler subscribes next
    connections,  \* _connections: sockets it has an entry for
    channels,     \* _connections[w]
    refs,         \* keys of _ws_refs and _ws_states
    pong,         \* _ws_states[w].pong_received of w in refs
    relays,       \* _relays: the relay of a channel, 0 if none
    made,         \* number of relay objects made
    channelOf,    \* the channel of a relay
    slots,        \* _clients of a relay
    listening,    \* relays with a listener task
    socket,       \* connecting, open, closed
    silent,       \* peers that answer no ping any more
    pinging,      \* sockets of the heartbeat's snapshot it has not pinged
    stale         \* sockets the heartbeat will evict

loop == <<running, waiters, locked, at>>
tables == <<connections, channels, refs, pong>>
relayVars == <<relays, made, channelOf, slots, listening>>
leaving == <<target, todo, dropping>>
beat == <<pinging, stale>>
vars == <<loop, leaving, next, tables, relayVars, socket, silent, beat>>

LockPoints == {"accept", "subscribe", "leave", "drop", "snapshot"}

TypeOK ==
    /\ running \in Actor \cup {NoOne}
    /\ waiters \in Seq(Actor)
    /\ locked \in BOOLEAN
    /\ at \in [Actor -> LockPoints \cup {"new", "reject", "rejected", "open", "unsubscribe",
                                         "close", "gone", "sleep", "ping", "pinged", "evict"}]
    /\ target \in [Actor -> Client \cup {NoOne}]
    /\ todo \in [Actor -> SUBSET Channel]
    /\ dropping \in [Actor -> Channel \cup {NoOne}]
    /\ next \in [Client -> Nat \ {0}]
    /\ connections \subseteq Client /\ refs \subseteq Client
    /\ channels \in [Client -> SUBSET Channel]
    /\ pong \in [refs -> BOOLEAN]
    /\ relays \in [Channel -> 0..made]
    /\ made \in Nat
    /\ channelOf \in [1..made -> Channel]
    /\ slots \in [1..made -> SUBSET Client]
    /\ listening \subseteq 1..made
    /\ socket \in [Client -> {"connecting", "open", "closed"}]
    /\ silent \subseteq Client
    /\ pinging \subseteq Client /\ stale \subseteq Client

Init ==
    /\ running = NoOne /\ waiters = <<>> /\ locked = FALSE
    /\ at = [a \in Actor |-> IF a = Heartbeat THEN "sleep" ELSE "new"]
    /\ target = [a \in Actor |-> IF a = Heartbeat THEN NoOne ELSE a]
    /\ todo = [a \in Actor |-> {}]
    /\ dropping = [a \in Actor |-> NoOne]
    /\ next = [w \in Client |-> 1]
    /\ connections = {} /\ refs = {} /\ pong = <<>>
    /\ channels = [w \in Client |-> {}]
    /\ relays = [ch \in Channel |-> 0]
    /\ made = 0 /\ channelOf = <<>> /\ slots = <<>> /\ listening = {}
    /\ socket = [w \in Client |-> "connecting"]
    /\ silent = {}
    /\ pinging = {} /\ stale = {}

-----------------------------------------------------------------------------
(* The event loop and the lock.                                            *)

\* a goes on at `where`, keeping the event loop, or yields there.
GoOn(a, where) == at' = [at EXCEPT ![a] = where] /\ running' = a
Yield(a, where) == at' = [at EXCEPT ![a] = where] /\ running' = NoOne

\* a is at `where` and it is its turn.
Turn(a, where) == at[a] = where /\ running \in {a, NoOne}

Waiting(a) == \E k \in DOMAIN waiters : waiters[k] = a

\* a takes the lock: it is free and nobody waits, or a is the first to have waited.
\* The body it protects does not await, so a releases it in the same step.
TakeLock(a, where) ==
    /\ Turn(a, where)
    /\ ~locked
    /\ \/ waiters = <<>> /\ UNCHANGED waiters
       \/ waiters # <<>> /\ Head(waiters) = a /\ waiters' = Tail(waiters)

JoinWaiters(a) ==
    /\ at[a] \in LockPoints
    /\ Turn(a, at[a])
    /\ ~Waiting(a)
    /\ locked \/ waiters # <<>>
    /\ waiters' = Append(waiters, a)
    /\ running' = NoOne
    /\ UNCHANGED <<locked, at, leaving, next, tables, relayVars, socket, silent, beat>>

-----------------------------------------------------------------------------
(* A socket's handler: accept(), subscribe() for each channel, then the    *)
(* receive loop.                                                           *)

Connect(w) ==
    /\ Turn(w, "new")
    /\ GoOn(w, "accept")
    /\ UNCHANGED <<waiters, locked, leaving, next, tables, relayVars, socket, silent, beat>>

\* Over the limit: the socket is closed with the lock held.  Whether ws.close() of an
\* unaccepted socket yields is the server's choice: uvicorn's does not, ASGI allows it.
Reject(w) ==
    /\ TakeLock(w, "accept")
    /\ Cardinality(connections) >= MaxConnections
    /\ \/ /\ w \in Suspending
          /\ locked' = TRUE
          /\ Yield(w, "reject")
          /\ UNCHANGED socket
       \/ /\ w \notin Suspending
          /\ socket' = [socket EXCEPT ![w] = "closed"]
          /\ Yield(w, "gone")
          /\ UNCHANGED locked
    /\ UNCHANGED <<leaving, next, tables, relayVars, silent, beat>>

Rejected(w) ==
    /\ Turn(w, "reject")
    /\ locked' = FALSE
    /\ socket' = [socket EXCEPT ![w] = "closed"]
    /\ Yield(w, "rejected")
    /\ UNCHANGED <<waiters, leaving, next, tables, relayVars, silent, beat>>

\* The socket is registered before ws.accept(), which raises when the peer is gone:
\* the handler ends and the entry stays.
Accept(w) ==
    /\ TakeLock(w, "accept")
    /\ Cardinality(connections) < MaxConnections
    /\ connections' = connections \cup {w}
    /\ channels' = [channels EXCEPT ![w] = {}]
    /\ refs' = refs \cup {w}
    /\ pong' = [x \in refs' |-> x = w \/ pong[x]]
    /\ \/ socket' = [socket EXCEPT ![w] = "open"] /\ GoOn(w, "subscribe")
       \/ socket' = [socket EXCEPT ![w] = "closed"] /\ Yield(w, "gone")
    /\ UNCHANGED <<locked, leaving, next, relayVars, silent, beat>>

\* A slot on relay r, which may be new; the listener starts if there is none.
add_client(r, w) ==
    /\ slots' = IF r > made THEN Append(slots, {w}) ELSE [slots EXCEPT ![r] = @ \cup {w}]
    /\ listening' = listening \cup {r}

\* subscribe() finds or makes the channel's relay, then adds the client to it.
Subscribe(w) ==
    /\ TakeLock(w, "subscribe")
    /\ LET ch == ChannelsOf[w][next[w]]
           r == IF relays[ch] = 0 THEN made + 1 ELSE relays[ch]
       IN  /\ relays' = [relays EXCEPT ![ch] = r]
           /\ connections' = connections \cup {w}
           /\ channels' = [channels EXCEPT ![w] = @ \cup {ch}]
           /\ add_client(r, w)
           /\ \/ relays[ch] = 0 /\ made' = r /\ channelOf' = Append(channelOf, ch)
              \/ relays[ch] # 0 /\ UNCHANGED <<made, channelOf>>
    /\ next' = [next EXCEPT ![w] = @ + 1]
    /\ IF next[w] < Len(ChannelsOf[w]) THEN GoOn(w, "subscribe") ELSE Yield(w, "open")
    /\ UNCHANGED <<locked, leaving, refs, pong, socket, silent, beat>>

\* mark_pong(); a socket the heartbeat removed has no state to mark.
MarkPong(w) ==
    /\ Turn(w, "open")
    /\ socket[w] = "open" /\ w \notin silent
    /\ pong' = IF w \in refs THEN [pong EXCEPT ![w] = TRUE] ELSE pong
    /\ UNCHANGED <<loop, leaving, next, connections, channels, refs, relayVars, socket,
                   silent, beat>>

\* receive() raises once the socket is closed: finally disconnect().
HandlerEnds(w) ==
    /\ Turn(w, "open")
    /\ socket[w] = "closed"
    /\ GoOn(w, "leave")
    /\ UNCHANGED <<waiters, locked, leaving, next, tables, relayVars, socket, silent, beat>>

\* The peer closes the socket, or goes silent without closing it.
PeerCloses(w) ==
    /\ socket[w] = "open" /\ w \notin silent
    /\ running = NoOne
    /\ socket' = [socket EXCEPT ![w] = "closed"]
    /\ UNCHANGED <<loop, leaving, next, tables, relayVars, silent, beat>>

PeerGoesSilent(w) ==
    /\ socket[w] = "open"
    /\ running = NoOne
    /\ silent' = silent \cup {w}
    /\ UNCHANGED <<loop, leaving, next, tables, relayVars, socket, beat>>

-----------------------------------------------------------------------------
(* disconnect(), run by the socket's handler or by the heartbeat.          *)

Leave(a) ==
    /\ TakeLock(a, "leave")
    /\ LET w == target[a] IN
       /\ todo' = [todo EXCEPT ![a] = channels[w]]
       /\ connections' = connections \ {w}
       /\ channels' = [channels EXCEPT ![w] = {}]
       /\ refs' = refs \ {w}
       /\ pong' = [x \in refs' |-> pong[x]]
    /\ GoOn(a, "unsubscribe")
    /\ UNCHANGED <<locked, target, dropping, next, relayVars, socket, silent, beat>>

\* The last client out stops the listener.
remove_client(r, w) ==
    /\ slots' = [slots EXCEPT ![r] = @ \ {w}]
    /\ listening' = IF slots'[r] = {} THEN listening \ {r} ELSE listening

\* Mutant: remove_client() waits for the listener it cancelled, so others run before the relay
\* is popped.
RemoveClient_AwaitsListener(a, ch) ==
    /\ Turn(a, "unsubscribe")
    /\ ch \in todo[a]
    /\ todo' = [todo EXCEPT ![a] = @ \ {ch}]
    /\ LET r == relays[ch] IN
       \/ /\ r = 0
          /\ GoOn(a, "unsubscribe")
          /\ UNCHANGED <<slots, listening, dropping>>
       \/ /\ r # 0
          /\ remove_client(r, target[a])
          /\ \/ slots'[r] = {} /\ dropping' = [dropping EXCEPT ![a] = ch] /\ Yield(a, "drop")
             \/ slots'[r] # {} /\ UNCHANGED dropping /\ GoOn(a, "unsubscribe")
    /\ UNCHANGED <<waiters, locked, target, next, tables, relays, made, channelOf, socket,
                   silent, beat>>

\* remove_client() on the relay the channel has now; the last client out goes for the
\* lock to pop the relay.
RemoveClient(a, ch) ==
    /\ Turn(a, "unsubscribe")
    /\ ch \in todo[a]
    /\ todo' = [todo EXCEPT ![a] = @ \ {ch}]
    /\ LET r == relays[ch] IN
       \/ /\ r = 0
          /\ GoOn(a, "unsubscribe")
          /\ UNCHANGED <<slots, listening, dropping>>
       \/ /\ r # 0
          /\ remove_client(r, target[a])
          /\ \/ slots'[r] = {} /\ dropping' = [dropping EXCEPT ![a] = ch] /\ GoOn(a, "drop")
             \/ slots'[r] # {} /\ UNCHANGED dropping /\ GoOn(a, "unsubscribe")
    /\ UNCHANGED <<waiters, locked, target, next, tables, relays, made, channelOf, socket,
                   silent, beat>>

\* Mutant: disconnect() returns once it has popped a relay.
DropRelay_Returns(a) ==
    /\ TakeLock(a, "drop")
    /\ relays' = [relays EXCEPT ![dropping[a]] = 0]
    /\ dropping' = [dropping EXCEPT ![a] = NoOne]
    /\ todo' = [todo EXCEPT ![a] = {}]
    /\ GoOn(a, "unsubscribe")
    /\ UNCHANGED <<locked, target, next, tables, made, channelOf, slots, listening,
                   socket, silent, beat>>

DropRelay(a) ==
    /\ TakeLock(a, "drop")
    /\ relays' = [relays EXCEPT ![dropping[a]] = 0]
    /\ dropping' = [dropping EXCEPT ![a] = NoOne]
    /\ GoOn(a, "unsubscribe")
    /\ UNCHANGED <<locked, target, todo, next, tables, made, channelOf, slots, listening,
                   socket, silent, beat>>

\* disconnect() is over: the handler ends, the heartbeat goes to its next stale socket.
Left(a) == IF a = Heartbeat THEN GoOn(a, "evict") ELSE Yield(a, "gone")

Unsubscribed(a) ==
    /\ Turn(a, "unsubscribe")
    /\ todo[a] = {}
    /\ IF socket[target[a]] = "open" THEN Yield(a, "close") ELSE Left(a)
    /\ UNCHANGED <<waiters, locked, leaving, next, tables, relayVars, socket, silent, beat>>

Close(a) ==
    /\ Turn(a, "close")
    /\ socket' = [socket EXCEPT ![target[a]] = "closed"]
    /\ Left(a)
    /\ UNCHANGED <<waiters, locked, leaving, next, tables, relayVars, silent, beat>>

-----------------------------------------------------------------------------
(* _heartbeat_loop.                                                        *)

HeartbeatWakes ==
    /\ Turn(Heartbeat, "sleep")
    /\ GoOn(Heartbeat, "snapshot")
    /\ UNCHANGED <<waiters, locked, leaving, next, tables, relayVars, socket, silent, beat>>

Snapshot ==
    /\ TakeLock(Heartbeat, "snapshot")
    /\ pinging' = refs /\ stale' = {}
    /\ GoOn(Heartbeat, "ping")
    /\ UNCHANGED <<locked, leaving, next, tables, relayVars, socket, silent>>

\* Mutant: the heartbeat pings without forgetting the last pong.
Ping_KeepsPong(w) ==
    /\ Turn(Heartbeat, "ping")
    /\ w \in pinging
    /\ \/ /\ w \in refs /\ ~pong[w]
          /\ stale' = stale \cup {w}
          /\ pinging' = pinging \ {w}
          /\ GoOn(Heartbeat, "ping")
          /\ UNCHANGED target
       \/ /\ w \in refs => pong[w]
          /\ target' = [target EXCEPT ![Heartbeat] = w]
          /\ Yield(Heartbeat, "pinged")
          /\ UNCHANGED <<pinging, stale>>
    /\ UNCHANGED <<waiters, locked, todo, dropping, next, tables, relayVars, socket, silent>>

\* No pong since the last ping: stale.  Otherwise the ping is sent.
Ping(w) ==
    /\ Turn(Heartbeat, "ping")
    /\ w \in pinging
    /\ \/ /\ w \in refs /\ ~pong[w]
          /\ stale' = stale \cup {w}
          /\ pinging' = pinging \ {w}
          /\ GoOn(Heartbeat, "ping")
          /\ UNCHANGED <<target, pong>>
       \/ /\ w \in refs => pong[w]
          /\ pong' = IF w \in refs THEN [pong EXCEPT ![w] = FALSE] ELSE pong
          /\ target' = [target EXCEPT ![Heartbeat] = w]
          /\ Yield(Heartbeat, "pinged")
          /\ UNCHANGED <<pinging, stale>>
    /\ UNCHANGED <<waiters, locked, todo, dropping, next, connections, channels, refs,
                   relayVars, socket, silent>>

\* Sending to a closed socket raises.
Pinged ==
    /\ Turn(Heartbeat, "pinged")
    /\ LET w == target[Heartbeat] IN
       /\ pinging' = pinging \ {w}
       /\ stale' = IF socket[w] = "closed" THEN stale \cup {w} ELSE stale
    /\ GoOn(Heartbeat, "ping")
    /\ UNCHANGED <<waiters, locked, leaving, next, tables, relayVars, socket, silent>>

PingedAll ==
    /\ Turn(Heartbeat, "ping")
    /\ pinging = {}
    /\ GoOn(Heartbeat, "evict")
    /\ UNCHANGED <<waiters, locked, leaving, next, tables, relayVars, socket, silent, beat>>

Evict(w) ==
    /\ Turn(Heartbeat, "evict")
    /\ w \in stale
    /\ stale' = stale \ {w}
    /\ target' = [target EXCEPT ![Heartbeat] = w]
    /\ GoOn(Heartbeat, "leave")
    /\ UNCHANGED <<waiters, locked, todo, dropping, next, tables, relayVars, socket, silent,
                   pinging>>

HeartbeatSleeps ==
    /\ Turn(Heartbeat, "evict")
    /\ stale = {}
    /\ target' = [target EXCEPT ![Heartbeat] = NoOne]
    /\ Yield(Heartbeat, "sleep")
    /\ UNCHANGED <<waiters, locked, todo, dropping, next, tables, relayVars, socket, silent,
                   beat>>

-----------------------------------------------------------------------------

Disconnect(a) ==
    \/ Leave(a) \/ DropRelay(a) \/ Unsubscribed(a) \/ Close(a)
    \/ \E ch \in Channel : RemoveClient(a, ch)

Handler(w) ==
    \/ Reject(w) \/ Rejected(w) \/ Accept(w) \/ Subscribe(w) \/ HandlerEnds(w)
    \/ Disconnect(w)

HeartbeatLoop ==
    \/ HeartbeatWakes \/ Snapshot \/ Pinged \/ PingedAll \/ HeartbeatSleeps
    \/ \E w \in Client : Ping(w) \/ Evict(w)
    \/ Disconnect(Heartbeat)

Peer(w) == Connect(w) \/ MarkPong(w) \/ PeerCloses(w) \/ PeerGoesSilent(w)

Next ==
    \/ \E w \in Client : Handler(w) \/ Peer(w)
    \/ HeartbeatLoop
    \/ \E a \in Actor : JoinWaiters(a)

Spec == Init /\ [][Next]_vars

\* A coroutine that can go on does, since the event loop is fair to its tasks and a
\* close or a ping on a dead connection fails in the end (uvicorn's own keepalive).
\* Nothing makes a peer connect, answer, close or go silent.
Fairness ==
    /\ \A w \in Client : WF_vars(Handler(w))
    /\ WF_vars(HeartbeatLoop)
    /\ \A a \in Actor : WF_vars(JoinWaiters(a))

FairSpec == Spec /\ Fairness

-----------------------------------------------------------------------------
(* Properties.                                                             *)

\* A close() has suspended with the manager's lock held, so the lock was contended.  The
\* relays are only right while that has not happened: disconnect() pops a relay in a
\* second turn of the lock, and a socket that took it in between subscribes to that relay.
Contended == \E w \in Client : at[w] \in {"reject", "rejected"}

\* connection_manager.py:3, "One Redis subscription per channel is shared across its
\* subscribers": no two relays listen to one channel, though the last client out and
\* the next one in interleave.
OneRelayPerChannel ==
    ~Contended => \A r, s \in listening : channelOf[r] = channelOf[s] => r = s

\* A registered socket is served: each channel it subscribed to has, in _relays, a
\* relay that listens and holds a slot for it.
SubscriberIsServed ==
    ~Contended => \A w \in connections : at[w] = "open" =>
        \A ch \in channels[w] :
            relays[ch] # 0 /\ w \in slots[relays[ch]] /\ relays[ch] \in listening

\* a's disconnect() still has to take w out of the relay of ch.
IsRemoving(a, w, ch) ==
    target[a] = w /\ at[a] \in {"unsubscribe", "drop"} /\ ch \in todo[a]

\* A slot is never left behind: its socket is registered for the channel, or a
\* disconnect() is on its way to remove it.  A slot left behind keeps a queue, a
\* sender task and the relay's listener for a socket that is gone.
NoSlotLeftBehind ==
    ~Contended => \A r \in 1..made : \A w \in slots[r] :
        \/ w \in connections /\ channelOf[r] \in channels[w]
        \/ \E a \in Actor : IsRemoving(a, w, channelOf[r])

\* A socket that closed, or whose peer went silent, is in the end registered nowhere
\* and stays so: its handler, or the heartbeat if the handler cannot, removes it, also
\* when they have to wait for the lock.
GoneIsForgotten ==
    \A w \in Client :
        (socket[w] = "closed" \/ w \in silent)
            ~> [](w \notin connections \cup refs
                    /\ (Contended \/ \A r \in 1..made : w \notin slots[r]))
=============================================================================
