----------------------- MODULE ConnectionManagerProofs -----------------------
(***************************************************************************)
(* Theorems about the connection manager, for any finite sets of sockets   *)
(* and channels, any order a handler subscribes in, any limit, and any set *)
(* of sockets whose rejection suspends.                                    *)
(***************************************************************************)
EXTENDS ConnectionManager, SequenceTheorems, TLAPS

-----------------------------------------------------------------------------
(* The inductive invariant.                                                *)

\* What an actor works on where it stands: a disconnect() and a ping have a socket, a
\* handler about to subscribe a channel.
Placed ==
    /\ \A w \in Client : target[w] = w
    /\ at[Heartbeat] \in {"leave", "unsubscribe", "drop", "close", "pinged"} =>
            target[Heartbeat] \in Client
    /\ \A w \in Client :
        /\ at[w] \in {"new", "accept"} => next[w] = 1
        /\ at[w] = "subscribe" => next[w] <= Len(ChannelsOf[w])

\* Places an actor reaches without yielding and, with the lock free, leaves so.
Busy == {"accept", "subscribe", "leave", "drop", "snapshot", "unsubscribe", "ping", "evict"}

\* The lock was never held across a yield: nobody waits, and who stands at a busy place
\* holds the event loop.
Orderly ==
    /\ locked = FALSE /\ waiters = <<>>
    /\ \A a \in Actor : at[a] \in Busy => running = a

\* A relay is in the table under its channel while it has clients, and listens exactly then.
RelayInTable ==
    /\ \A ch \in Channel : relays[ch] # 0 => channelOf[relays[ch]] = ch
    /\ \A r \in 1..made : slots[r] # {} => relays[channelOf[r]] = r
    /\ \A r \in 1..made : slots[r] # {} <=> r \in listening

\* The channels a socket is registered for have a relay with a slot for it.
Served ==
    \A w \in Client : \A ch \in channels[w] : relays[ch] # 0 /\ w \in slots[relays[ch]]

\* A slot belongs to a registered socket, or a disconnect() is about to remove it.
SlotHasOwner ==
    \A r \in 1..made : \A w \in slots[r] :
        \/ w \in connections /\ channelOf[r] \in channels[w]
        \/ \E a \in Actor : IsRemoving(a, w, channelOf[r])

\* A disconnect() has taken its socket off the table; the relay it is about to pop is empty.
Leaving ==
    \A a \in Actor :
        /\ at[a] \in {"unsubscribe", "drop"} => channels[target[a]] = {}
        /\ at[a] = "drop" =>
            /\ dropping[a] \in Channel /\ relays[dropping[a]] # 0
            /\ slots[relays[dropping[a]]] = {}

\* A handler that has not been accepted holds nothing.
Fresh ==
    \A w \in Client : at[w] \in {"new", "accept"} =>
        channels[w] = {} /\ \A r \in 1..made : w \notin slots[r]

Relays == RelayInTable /\ Served /\ SlotHasOwner /\ Leaving /\ Fresh

-----------------------------------------------------------------------------
(* Types and places.                                                       *)

LoopTyped ==
    /\ running \in Actor \cup {NoOne} /\ locked \in BOOLEAN
    /\ waiters \in Seq(Actor)
    /\ at \in [Actor -> LockPoints \cup {"new", "reject", "rejected", "open", "unsubscribe",
                                         "close", "gone", "sleep", "ping", "pinged", "evict"}]

LocalsTyped ==
    /\ target \in [Actor -> Client \cup {NoOne}]
    /\ todo \in [Actor -> SUBSET Channel]
    /\ dropping \in [Actor -> Channel \cup {NoOne}]
    /\ next \in [Client -> Nat \ {0}]
    /\ pinging \subseteq Client /\ stale \subseteq Client
    /\ Placed

TablesTyped ==
    /\ connections \subseteq Client /\ refs \subseteq Client
    /\ channels \in [Client -> SUBSET Channel]
    /\ pong \in [refs -> BOOLEAN]
    /\ socket \in [Client -> {"connecting", "open", "closed"}]
    /\ silent \subseteq Client

RelaysTyped ==
    /\ made \in Nat
    /\ relays \in [Channel -> 0..made]
    /\ channelOf \in [1..made -> Channel]
    /\ slots \in [1..made -> SUBSET Client]
    /\ listening \subseteq 1..made

Typed == LoopTyped /\ LocalsTyped /\ TablesTyped /\ RelaysTyped

LEMMA TypedIsTypeOK == Typed <=> TypeOK /\ Placed
BY DEF Typed, TypeOK, LoopTyped, LocalsTyped, TablesTyped, RelaysTyped

LEMMA ActorFacts == Client \subseteq Actor /\ Heartbeat \in Actor /\ Heartbeat \notin Client
BY ManagerAssumption DEF Actor

LEMMA InitTyped == Init => Typed
<1> SUFFICES ASSUME Init PROVE Typed
  OBVIOUS
<1>1. LoopTyped
  BY EmptySeq DEF Init, LoopTyped, LockPoints
<1>2. LocalsTyped
  BY ManagerAssumption DEF Init, LocalsTyped, Placed, Actor
<1>3. TablesTyped
  BY DEF Init, TablesTyped
<1>4. RelaysTyped
  BY DEF Init, RelaysTyped
<1> QED
  BY <1>1, <1>2, <1>3, <1>4 DEF Typed

LEMMA LockIsTyped ==
    ASSUME LoopTyped, NEW a \in Actor, NEW p, TakeLock(a, p)
    PROVE  waiters' \in Seq(Actor) /\ at[a] = p /\ running \in {a, NoOne}
<1>1. waiters # <<>> => Tail(waiters) \in Seq(Actor)
  BY HeadTailProperties DEF LoopTyped
<1> QED
  BY <1>1 DEF TakeLock, Turn, LoopTyped

LEMMA WaitersAreTyped ==
    ASSUME LoopTyped, NEW a \in Actor
    PROVE  Append(waiters, a) \in Seq(Actor)
BY AppendProperties DEF LoopTyped

LEMMA TargetIsClient ==
    ASSUME Typed, NEW a \in Actor, at[a] \in {"leave", "unsubscribe", "drop", "close"}
    PROVE  target[a] \in Client
BY DEF Typed, LocalsTyped, Placed, Actor

\* The channel subscribe() is about, and the relay it finds or makes.
LEMMA ChannelIsTyped ==
    ASSUME Typed, NEW w \in Client, at[w] = "subscribe"
    PROVE  ChannelsOf[w][next[w]] \in Channel
<1>1. next[w] \in 1..Len(ChannelsOf[w]) /\ ChannelsOf[w] \in Seq(Channel)
  BY ManagerAssumption DEF Typed, LocalsTyped, Placed
<1> QED
  BY <1>1, ElementOfSeq

\* w now has a slot on r, which is the relay of ch.
SubscribesTo(w, ch, r) ==
    /\ relays' = [relays EXCEPT ![ch] = r]
    /\ connections' = connections \cup {w}
    /\ channels' = [channels EXCEPT ![w] = @ \cup {ch}]
    /\ listening' = listening \cup {r}
    /\ (relays[ch] = 0 /\ r = made + 1) \/ (relays[ch] = r /\ r \in 1..made)
    /\ made' = (IF r > made THEN r ELSE made)
    /\ channelOf' = [k \in 1..made' |-> IF k <= made THEN channelOf[k] ELSE ch]
    /\ slots' = [k \in 1..made' |->
            (IF k <= made THEN slots[k] ELSE {}) \cup (IF k = r THEN {w} ELSE {})]

LEMMA AppendAsFunction ==
    ASSUME NEW S, NEW n \in Nat, NEW f \in [1..n -> S], NEW e \in S
    PROVE  Append(f, e) = [k \in 1..n + 1 |-> IF k <= n THEN f[k] ELSE e]
<1>1. f \in Seq(S) /\ Len(f) = n
  OBVIOUS
<1>2. Append(f, e) \in Seq(S) /\ Len(Append(f, e)) = n + 1
  BY <1>1, AppendProperties
<1>3. Append(f, e) \in [1..n + 1 -> S]
  BY <1>2, LenProperties
<1>4. (\A k \in 1..n : Append(f, e)[k] = f[k]) /\ Append(f, e)[n + 1] = e
  BY <1>1, AppendProperties
<1>5. \A k \in 1..n + 1 : Append(f, e)[k] = IF k <= n THEN f[k] ELSE e
  BY <1>4
<1> QED
  BY <1>3, <1>5

LEMMA SubscribeEffect ==
    ASSUME Typed, NEW w \in Client, Subscribe(w)
    PROVE  \E ch \in Channel, r \in Nat \ {0} : SubscribesTo(w, ch, r)
<1> DEFINE ch == ChannelsOf[w][next[w]]
           r == IF relays[ch] = 0 THEN made + 1 ELSE relays[ch]
<1>1. at[w] = "subscribe"
  BY LockIsTyped, ActorFacts DEF Subscribe, Typed
<1>2. ch \in Channel
  BY <1>1, ChannelIsTyped
<1>3. /\ relays' = [relays EXCEPT ![ch] = r]
      /\ connections' = connections \cup {w}
      /\ channels' = [channels EXCEPT ![w] = @ \cup {ch}]
      /\ slots' = IF r > made THEN Append(slots, {w}) ELSE [slots EXCEPT ![r] = @ \cup {w}]
      /\ listening' = listening \cup {r}
      /\ \/ relays[ch] = 0 /\ made' = r /\ channelOf' = Append(channelOf, ch)
         \/ relays[ch] # 0 /\ UNCHANGED <<made, channelOf>>
  BY DEF Subscribe, add_client
<1> HIDE DEF ch
<1>4. relays[ch] \in 0..made /\ made \in Nat
  BY <1>2 DEF Typed, RelaysTyped
<1>5. channelOf \in [1..made -> Channel] /\ slots \in [1..made -> SUBSET Client]
  BY DEF Typed, RelaysTyped
<1>6. r \in Nat \ {0} /\ ((relays[ch] = 0 /\ r = made + 1) \/ (relays[ch] = r /\ r \in 1..made))
  <2>1. CASE relays[ch] = 0
    <3>1. r = made + 1
      BY <2>1
    <3> HIDE DEF r
    <3> QED
      BY <1>4, <2>1, <3>1
  <2>2. CASE relays[ch] # 0
    BY <1>4, <2>2
  <2> QED
    BY <2>1, <2>2
<1>7. SubscribesTo(w, ch, r)
  <2>1. CASE relays[ch] = 0
    <3>1. r = made + 1 /\ made' = r /\ r > made
      BY <1>3, <1>4, <2>1
    <3> HIDE DEF r
    <3>2. channelOf' = [k \in 1..made' |-> IF k <= made THEN channelOf[k] ELSE ch]
      <4>1. channelOf' = Append(channelOf, ch)
        BY <1>3, <2>1
      <4> QED
        BY <1>2, <1>4, <1>5, <3>1, <4>1, AppendAsFunction
    <3>3. slots' = [k \in 1..made' |-> IF k <= made THEN slots[k] ELSE {w}]
      BY <1>3, <1>4, <1>5, <3>1, AppendAsFunction
    <3>4. slots' = [k \in 1..made' |->
                (IF k <= made THEN slots[k] ELSE {}) \cup (IF k = r THEN {w} ELSE {})]
      BY <1>4, <1>5, <3>1, <3>3
    <3> QED
      BY <1>3, <1>6, <3>1, <3>2, <3>4 DEF SubscribesTo
  <2>2. CASE relays[ch] # 0
    <3>1. r \in 1..made /\ ~(r > made)
      BY <1>4, <1>6, <2>2
    <3> HIDE DEF r
    <3>2. slots' = [slots EXCEPT ![r] = @ \cup {w}] /\ made' = made /\ channelOf' = channelOf
      BY <1>3, <2>2, <3>1
    <3>3. channelOf' = [k \in 1..made' |-> IF k <= made THEN channelOf[k] ELSE ch]
      BY <1>4, <1>5, <3>2
    <3>4. slots' = [k \in 1..made |-> IF k = r THEN slots[k] \cup {w} ELSE slots[k]]
      BY <1>5, <3>1, <3>2
    <3>5. \A k \in 1..made : (IF k <= made THEN slots[k] ELSE {}) \cup (IF k = r THEN {w} ELSE {})
                                = (IF k = r THEN slots[k] \cup {w} ELSE slots[k])
      BY <1>4
    <3>6. slots' = [k \in 1..made' |->
                (IF k <= made THEN slots[k] ELSE {}) \cup (IF k = r THEN {w} ELSE {})]
      BY <3>2, <3>4, <3>5
    <3> QED
      BY <1>3, <1>6, <3>1, <3>2, <3>3, <3>6 DEF SubscribesTo
  <2> QED
    BY <2>1, <2>2
<1> QED
  BY <1>2, <1>6, <1>7

LEMMA ConnectTyped ==
    ASSUME Typed, NEW w \in Client, Connect(w)
    PROVE  Typed'
BY ActorFacts, TargetIsClient DEF Typed, LoopTyped, LocalsTyped, TablesTyped, RelaysTyped, Placed,
   Connect, Turn, GoOn, LockPoints, vars, loop, leaving, tables, relayVars, beat

LEMMA RejectTyped ==
    ASSUME Typed, NEW w \in Client, Reject(w)
    PROVE  Typed'
<1>0. waiters' \in Seq(Actor) /\ at[w] = "accept"
  BY LockIsTyped, ActorFacts DEF Reject, Typed
<1>1. LoopTyped'
  BY <1>0, ActorFacts
     DEF Typed, LoopTyped, Reject, Turn, Yield, LockPoints, vars, loop, leaving, tables,
         relayVars, beat
<1>2. LocalsTyped'
  BY <1>0, ActorFacts
     DEF Typed, LocalsTyped, Reject, Turn, Yield, LoopTyped, Placed, vars, loop, leaving, tables,
         relayVars, beat
<1>3. TablesTyped'
  BY <1>0, ActorFacts
     DEF Typed, TablesTyped, Reject, LocalsTyped, Placed, vars, loop, leaving, tables, relayVars,
         beat
<1>4. RelaysTyped'
  BY <1>0, ActorFacts
     DEF Typed, RelaysTyped, Reject, vars, loop, leaving, tables, relayVars, beat
<1> QED
  BY <1>1, <1>2, <1>3, <1>4 DEF Typed

LEMMA RejectedTyped ==
    ASSUME Typed, NEW w \in Client, Rejected(w)
    PROVE  Typed'
BY ActorFacts, TargetIsClient DEF Typed, LoopTyped, LocalsTyped, TablesTyped, RelaysTyped, Placed,
   Rejected, Turn, Yield, LockPoints, vars, loop, leaving, tables, relayVars, beat

LEMMA AcceptTyped ==
    ASSUME Typed, NEW w \in Client, Accept(w)
    PROVE  Typed'
<1>0. waiters' \in Seq(Actor) /\ at[w] = "accept"
  BY LockIsTyped, ActorFacts DEF Accept, Typed
<1>1. LoopTyped'
  BY <1>0, ActorFacts
     DEF Typed, LoopTyped, Accept, GoOn, Yield, LockPoints, vars, loop, leaving, tables,
         relayVars, beat
<1>2. LocalsTyped'
  BY <1>0, ActorFacts, ManagerAssumption
     DEF Typed, LocalsTyped, Accept, GoOn, Yield, LoopTyped, Placed, vars, loop, leaving, tables,
         relayVars, beat
<1>3. TablesTyped'
  BY <1>0, ActorFacts, ManagerAssumption
     DEF Typed, TablesTyped, Accept, LocalsTyped, Placed, vars, loop, leaving, tables, relayVars,
         beat
<1>4. RelaysTyped'
  BY <1>0, ActorFacts
     DEF Typed, RelaysTyped, Accept, vars, loop, leaving, tables, relayVars, beat
<1> QED
  BY <1>1, <1>2, <1>3, <1>4 DEF Typed

LEMMA SubscribeTyped ==
    ASSUME Typed, NEW w \in Client, Subscribe(w)
    PROVE  Typed'
<1>0. waiters' \in Seq(Actor) /\ at[w] = "subscribe"
  BY LockIsTyped, ActorFacts DEF Subscribe, Typed
<1>1. LoopTyped'
  BY <1>0, ActorFacts
     DEF Typed, LoopTyped, Subscribe, GoOn, Yield, LockPoints, vars, loop, leaving, tables,
         relayVars, beat
<1>2. LocalsTyped'
  BY <1>0, ActorFacts
     DEF Typed, LocalsTyped, Subscribe, GoOn, Yield, LoopTyped, LoopTyped, Placed, vars, loop,
         leaving, tables, relayVars, beat
<1>3. PICK ch \in Channel, r \in Nat \ {0} : SubscribesTo(w, ch, r)
  BY SubscribeEffect
<1>4. TablesTyped'
  BY <1>3 DEF Typed, TablesTyped, Subscribe, SubscribesTo
<1>5. RelaysTyped'
  <2>1. made \in Nat /\ made' \in Nat /\ made <= made' /\ r \in 1..made'
    BY <1>3 DEF Typed, RelaysTyped, SubscribesTo
  <2> QED
    BY <1>3, <2>1 DEF Typed, RelaysTyped, SubscribesTo
<1> QED
  BY <1>1, <1>2, <1>4, <1>5 DEF Typed

LEMMA MarkPongTyped ==
    ASSUME Typed, NEW w \in Client, MarkPong(w)
    PROVE  Typed'
BY ActorFacts, TargetIsClient DEF Typed, LoopTyped, LocalsTyped, TablesTyped, RelaysTyped, Placed,
   MarkPong, Turn, LockPoints, vars, loop, leaving, tables, relayVars, beat

LEMMA HandlerEndsTyped ==
    ASSUME Typed, NEW w \in Client, HandlerEnds(w)
    PROVE  Typed'
BY ActorFacts, TargetIsClient DEF Typed, LoopTyped, LocalsTyped, TablesTyped, RelaysTyped, Placed,
   HandlerEnds, Turn, GoOn, LockPoints, vars, loop, leaving, tables, relayVars, beat

LEMMA PeerClosesTyped ==
    ASSUME Typed, NEW w \in Client, PeerCloses(w)
    PROVE  Typed'
BY ActorFacts, TargetIsClient DEF Typed, LoopTyped, LocalsTyped, TablesTyped, RelaysTyped, Placed,
   PeerCloses, LockPoints, vars, loop, leaving, tables, relayVars, beat

LEMMA PeerGoesSilentTyped ==
    ASSUME Typed, NEW w \in Client, PeerGoesSilent(w)
    PROVE  Typed'
BY ActorFacts, TargetIsClient DEF Typed, LoopTyped, LocalsTyped, TablesTyped, RelaysTyped, Placed,
   PeerGoesSilent, LockPoints, vars, loop, leaving, tables, relayVars, beat

LEMMA LeaveTyped ==
    ASSUME Typed, NEW a \in Actor, Leave(a)
    PROVE  Typed'
<1>0. waiters' \in Seq(Actor) /\ at[a] = "leave"
  BY LockIsTyped, ActorFacts DEF Leave, Typed
<1>1. LoopTyped'
  BY <1>0, ActorFacts
     DEF Typed, LoopTyped, Leave, GoOn, LockPoints, vars, loop, leaving, tables, relayVars, beat
<1>2. LocalsTyped'
  BY <1>0, ActorFacts, TargetIsClient
     DEF Typed, LocalsTyped, Leave, GoOn, TablesTyped, LoopTyped, Placed, vars, loop, leaving,
         tables, relayVars, beat
<1>3. TablesTyped'
  BY <1>0, ActorFacts
     DEF Typed, TablesTyped, Leave, LoopTyped, LocalsTyped, Placed, vars, loop, leaving, tables,
         relayVars, beat
<1>4. RelaysTyped'
  BY <1>0, ActorFacts
     DEF Typed, RelaysTyped, Leave, vars, loop, leaving, tables, relayVars, beat
<1> QED
  BY <1>1, <1>2, <1>3, <1>4 DEF Typed

LEMMA RemoveClientTyped ==
    ASSUME Typed, NEW a \in Actor, NEW ch \in Channel, RemoveClient(a, ch)
    PROVE  Typed'
<1>1. LoopTyped'
  BY DEF Typed, LoopTyped, RemoveClient, Turn, GoOn, LockPoints
<1>2. LocalsTyped'
  BY ActorFacts DEF Typed, LoopTyped, LocalsTyped, RemoveClient, Turn, GoOn, Placed, beat
<1>3. TablesTyped'
  BY DEF Typed, TablesTyped, RemoveClient, tables
<1>4. RelaysTyped'
  <2>1. made' = made /\ relays' = relays /\ channelOf' = channelOf
    BY DEF RemoveClient
  <2>2. CASE UNCHANGED <<slots, listening>>
    BY <2>1, <2>2 DEF Typed, RelaysTyped
  <2>3. CASE relays[ch] # 0 /\ remove_client(relays[ch], target[a])
    <3>1. relays[ch] \in 1..made
      BY <2>3 DEF Typed, RelaysTyped
    <3>2. slots' = [slots EXCEPT ![relays[ch]] = @ \ {target[a]}] /\ listening' \subseteq listening
      BY <2>3 DEF remove_client
    <3> QED
      BY <2>1, <3>1, <3>2 DEF Typed, RelaysTyped
  <2> QED
    BY <2>2, <2>3 DEF RemoveClient
<1> QED
  BY <1>1, <1>2, <1>3, <1>4 DEF Typed

LEMMA DropRelayTyped ==
    ASSUME Typed, NEW a \in Actor, DropRelay(a)
    PROVE  Typed'
<1>0. waiters' \in Seq(Actor) /\ at[a] = "drop"
  BY LockIsTyped, ActorFacts DEF DropRelay, Typed
<1>1. LoopTyped'
  BY <1>0, ActorFacts
     DEF Typed, LoopTyped, DropRelay, GoOn, LockPoints, vars, loop, leaving, tables, relayVars, beat
<1>2. LocalsTyped'
  BY <1>0, ActorFacts
     DEF Typed, LocalsTyped, DropRelay, GoOn, LoopTyped, Placed, vars, loop, leaving, tables,
         relayVars, beat
<1>3. TablesTyped'
  BY <1>0, ActorFacts
     DEF Typed, TablesTyped, DropRelay, LocalsTyped, Placed, vars, loop, leaving, tables,
         relayVars, beat
<1>4. RelaysTyped'
  <2>1. made' = made /\ channelOf' = channelOf /\ slots' = slots /\ listening' = listening
        /\ relays' = [relays EXCEPT ![dropping[a]] = 0]
    BY DEF DropRelay
  <2>2. 0 \in 0..made
    BY DEF Typed, RelaysTyped
  <2> QED
    BY <2>1, <2>2 DEF Typed, RelaysTyped
<1> QED
  BY <1>1, <1>2, <1>3, <1>4 DEF Typed

LEMMA UnsubscribedTyped ==
    ASSUME Typed, NEW a \in Actor, Unsubscribed(a)
    PROVE  Typed'
<1>1. LoopTyped'
  BY ActorFacts
     DEF Typed, LoopTyped, Unsubscribed, Turn, Yield, GoOn, Left, LockPoints, vars, loop,
         leaving, tables, relayVars, beat
<1>2. LocalsTyped'
  BY ActorFacts
     DEF Typed, LocalsTyped, Unsubscribed, Turn, Yield, GoOn, Left, LoopTyped, Placed, vars,
         loop, leaving, tables, relayVars, beat
<1>3. TablesTyped'
  BY ActorFacts
     DEF Typed, TablesTyped, Unsubscribed, LocalsTyped, Placed, vars, loop, leaving, tables,
         relayVars, beat
<1>4. RelaysTyped'
  BY ActorFacts
     DEF Typed, RelaysTyped, Unsubscribed, vars, loop, leaving, tables, relayVars, beat
<1> QED
  BY <1>1, <1>2, <1>3, <1>4 DEF Typed

LEMMA CloseTyped ==
    ASSUME Typed, NEW a \in Actor, Close(a)
    PROVE  Typed'
<1>1. LoopTyped'
  BY ActorFacts
     DEF Typed, LoopTyped, Close, Turn, Yield, GoOn, Left, LockPoints, vars, loop, leaving,
         tables, relayVars, beat
<1>2. LocalsTyped'
  BY ActorFacts
     DEF Typed, LocalsTyped, Close, Turn, Yield, GoOn, Left, LoopTyped, Placed, vars, loop,
         leaving, tables, relayVars, beat
<1>3. TablesTyped'
  BY ActorFacts
     DEF Typed, TablesTyped, Close, LocalsTyped, Placed, vars, loop, leaving, tables, relayVars,
         beat
<1>4. RelaysTyped'
  BY ActorFacts
     DEF Typed, RelaysTyped, Close, vars, loop, leaving, tables, relayVars, beat
<1> QED
  BY <1>1, <1>2, <1>3, <1>4 DEF Typed

LEMMA HeartbeatWakesTyped ==
    ASSUME Typed, HeartbeatWakes
    PROVE  Typed'
BY ActorFacts, TargetIsClient DEF Typed, LoopTyped, LocalsTyped, TablesTyped, RelaysTyped, Placed,
   HeartbeatWakes, Turn, GoOn, LockPoints, vars, loop, leaving, tables, relayVars, beat

LEMMA SnapshotTyped ==
    ASSUME Typed, Snapshot
    PROVE  Typed'
<1>0. waiters' \in Seq(Actor) /\ at[Heartbeat] = "snapshot"
  BY LockIsTyped, ActorFacts DEF Snapshot, Typed
<1>1. LoopTyped'
  BY <1>0, ActorFacts
     DEF Typed, LoopTyped, Snapshot, GoOn, LockPoints, vars, loop, leaving, tables, relayVars, beat
<1>2. LocalsTyped'
  BY <1>0, ActorFacts
     DEF Typed, LocalsTyped, Snapshot, GoOn, TablesTyped, LoopTyped, Placed, vars, loop, leaving,
         tables, relayVars, beat
<1>3. TablesTyped'
  BY <1>0, ActorFacts
     DEF Typed, TablesTyped, Snapshot, LocalsTyped, Placed, vars, loop, leaving, tables,
         relayVars, beat
<1>4. RelaysTyped'
  BY <1>0, ActorFacts
     DEF Typed, RelaysTyped, Snapshot, vars, loop, leaving, tables, relayVars, beat
<1> QED
  BY <1>1, <1>2, <1>3, <1>4 DEF Typed

LEMMA PingTyped ==
    ASSUME Typed, NEW w \in Client, Ping(w)
    PROVE  Typed'
<1>1. LoopTyped'
  BY ActorFacts
     DEF Typed, LoopTyped, Ping, Turn, GoOn, Yield, LockPoints, vars, loop, leaving, tables,
         relayVars, beat
<1>2. LocalsTyped'
  BY ActorFacts
     DEF Typed, LocalsTyped, Ping, Turn, GoOn, Yield, LoopTyped, Placed, vars, loop, leaving,
         tables, relayVars, beat
<1>3. TablesTyped'
  BY ActorFacts
     DEF Typed, TablesTyped, Ping, LocalsTyped, Placed, vars, loop, leaving, tables, relayVars, beat
<1>4. RelaysTyped'
  BY ActorFacts
     DEF Typed, RelaysTyped, Ping, vars, loop, leaving, tables, relayVars, beat
<1> QED
  BY <1>1, <1>2, <1>3, <1>4 DEF Typed

LEMMA PingedTyped ==
    ASSUME Typed, Pinged
    PROVE  Typed'
BY ActorFacts, TargetIsClient DEF Typed, LoopTyped, LocalsTyped, TablesTyped, RelaysTyped, Placed,
   Pinged, Turn, GoOn, LockPoints, vars, loop, leaving, tables, relayVars, beat

LEMMA PingedAllTyped ==
    ASSUME Typed, PingedAll
    PROVE  Typed'
BY ActorFacts, TargetIsClient DEF Typed, LoopTyped, LocalsTyped, TablesTyped, RelaysTyped, Placed,
   PingedAll, Turn, GoOn, LockPoints, vars, loop, leaving, tables, relayVars, beat

LEMMA EvictTyped ==
    ASSUME Typed, NEW w \in Client, Evict(w)
    PROVE  Typed'
BY ActorFacts, TargetIsClient DEF Typed, LoopTyped, LocalsTyped, TablesTyped, RelaysTyped, Placed,
   Evict, Turn, GoOn, LockPoints, vars, loop, leaving, tables, relayVars, beat

LEMMA HeartbeatSleepsTyped ==
    ASSUME Typed, HeartbeatSleeps
    PROVE  Typed'
BY ActorFacts, TargetIsClient DEF Typed, LoopTyped, LocalsTyped, TablesTyped, RelaysTyped, Placed,
   HeartbeatSleeps, Turn, Yield, LockPoints, vars, loop, leaving, tables, relayVars, beat

LEMMA JoinWaitersTyped ==
    ASSUME Typed, NEW a \in Actor, JoinWaiters(a)
    PROVE  Typed'
BY WaitersAreTyped DEF Typed, LoopTyped, LocalsTyped, TablesTyped, RelaysTyped, Placed,
   JoinWaiters, LockPoints, vars, loop, leaving, tables, relayVars, beat

LEMMA StepTyped == Typed /\ [Next]_vars => Typed'
<1> SUFFICES ASSUME Typed, [Next]_vars PROVE Typed'
  OBVIOUS
<1>1. ASSUME NEW w \in Client, Handler(w) \/ Peer(w) PROVE Typed'
  <2>1. CASE Disconnect(w)
    BY <2>1, ActorFacts, LeaveTyped, DropRelayTyped, UnsubscribedTyped, CloseTyped,
       RemoveClientTyped DEF Disconnect
  <2> QED
    BY <1>1, <2>1, ConnectTyped, RejectTyped, RejectedTyped, AcceptTyped, SubscribeTyped,
       HandlerEndsTyped, MarkPongTyped, PeerClosesTyped, PeerGoesSilentTyped DEF Handler, Peer
<1>2. CASE HeartbeatLoop
  <2>1. CASE Disconnect(Heartbeat)
    BY <2>1, ActorFacts, LeaveTyped, DropRelayTyped, UnsubscribedTyped, CloseTyped,
       RemoveClientTyped DEF Disconnect
  <2> QED
    BY <1>2, <2>1, HeartbeatWakesTyped, SnapshotTyped, PingedTyped, PingedAllTyped,
       HeartbeatSleepsTyped, PingTyped, EvictTyped DEF HeartbeatLoop
<1>3. ASSUME NEW a \in Actor, JoinWaiters(a) PROVE Typed'
  BY <1>3, JoinWaitersTyped
<1>4. CASE UNCHANGED vars
  BY <1>4 DEF Typed, LoopTyped, LocalsTyped, TablesTyped, RelaysTyped, Placed, vars, loop, leaving,
     tables, relayVars, beat
<1> QED
  BY <1>1, <1>2, <1>3, <1>4 DEF Next

LEMMA SpecTyped == Spec => []Typed
<1>1. Init => Typed
  BY InitTyped
<1>2. Typed /\ [Next]_vars => Typed'
  BY StepTyped
<1> QED
  BY <1>1, <1>2, PTL DEF Spec

\* Every socket, channel and relay the tables name exists, whatever suspends.
THEOREM ManagerIsTyped == Spec => []TypeOK
<1>1. Typed => TypeOK
  BY TypedIsTypeOK
<1> QED
  BY <1>1, SpecTyped, PTL

-----------------------------------------------------------------------------
(* The event loop, while the lock was never contended.                     *)

\* One actor moves, and goes on where it may have to or yields where it may.
Moves(a) ==
    /\ running \in {a, NoOne}
    /\ locked' = FALSE /\ waiters' = <<>>
    /\ \E p : GoOn(a, p) \/ (Yield(a, p) /\ p \notin Busy)

LEMMA BusyIsAlone ==
    ASSUME Orderly, NEW a \in Actor, at[a] \in Busy, NEW b \in Actor, at[b] \in Busy
    PROVE  a = b
BY DEF Orderly

LEMMA TakesFreeLock ==
    ASSUME Orderly, NEW a, NEW p, TakeLock(a, p)
    PROVE  waiters' = <<>> /\ at[a] = p /\ running \in {a, NoOne}
BY DEF Orderly, TakeLock, Turn

LEMMA GoOnMoves ==
    ASSUME Orderly, NEW a, running \in {a, NoOne}, UNCHANGED locked, waiters' = <<>>,
           NEW p, GoOn(a, p)
    PROVE  Moves(a)
BY DEF Moves, Orderly

LEMMA YieldMoves ==
    ASSUME Orderly, NEW a, running \in {a, NoOne}, UNCHANGED locked, waiters' = <<>>,
           NEW p, p \notin Busy, Yield(a, p)
    PROVE  Moves(a)
BY DEF Moves, Orderly

LEMMA MoveKeepsOrderly ==
    ASSUME Typed, Orderly, NEW a \in Actor, Moves(a)
    PROVE  Orderly'
<1>1. PICK p : GoOn(a, p) \/ (Yield(a, p) /\ p \notin Busy)
  BY DEF Moves
<1>2. at' = [at EXCEPT ![a] = p] /\ (running' = a \/ p \notin Busy)
  BY <1>1 DEF GoOn, Yield
<1>3. ASSUME NEW b \in Actor, at'[b] \in Busy PROVE running' = b
  <2>1. CASE b = a
    BY <1>2, <1>3, <2>1 DEF Typed, LoopTyped
  <2>2. CASE b # a
    <3>1. at[b] \in Busy
      BY <1>2, <1>3, <2>2 DEF Typed, LoopTyped
    <3>2. running = b
      BY <3>1 DEF Orderly
    <3> QED
      BY <2>2, <3>2, ManagerAssumption DEF Moves
  <2> QED
    BY <2>1, <2>2
<1> QED
  BY <1>3 DEF Moves, Orderly

LEMMA LeftMoves ==
    ASSUME Orderly, NEW a, running \in {a, NoOne}, UNCHANGED <<locked, waiters>>, Left(a)
    PROVE  Moves(a)
<1>1. waiters' = <<>> /\ UNCHANGED locked
  BY DEF Orderly
<1>2. CASE a = Heartbeat
  BY <1>1, <1>2, GoOnMoves DEF Left
<1>3. CASE a # Heartbeat
  BY <1>1, <1>3, YieldMoves DEF Left, Busy
<1> QED
  BY <1>2, <1>3

LEMMA DisconnectMoves ==
    ASSUME Orderly, NEW a \in Actor, Disconnect(a)
    PROVE  Moves(a)
<1>1. CASE Leave(a)
  BY <1>1, TakesFreeLock, GoOnMoves DEF Leave
<1>2. CASE DropRelay(a)
  BY <1>2, TakesFreeLock, GoOnMoves DEF DropRelay
<1>3. CASE Unsubscribed(a)
  <2>1. running \in {a, NoOne} /\ UNCHANGED <<locked, waiters>> /\ waiters' = <<>>
    BY <1>3 DEF Unsubscribed, Turn, Orderly
  <2> QED
    BY <1>3, <2>1, LeftMoves, YieldMoves DEF Unsubscribed, Busy
<1>4. CASE Close(a)
  BY <1>4, LeftMoves DEF Close, Turn
<1>5. ASSUME NEW ch \in Channel, RemoveClient(a, ch) PROVE Moves(a)
  <2>1. running \in {a, NoOne} /\ UNCHANGED locked /\ waiters' = <<>>
    BY <1>5 DEF RemoveClient, Turn, Orderly
  <2>2. GoOn(a, "unsubscribe") \/ GoOn(a, "drop")
    BY <1>5 DEF RemoveClient
  <2> QED
    BY <2>1, <2>2, GoOnMoves
<1> QED
  BY <1>1, <1>2, <1>3, <1>4, <1>5 DEF Disconnect

LEMMA HandlerMoves ==
    ASSUME Typed, Orderly, ~Contended', NEW w \in Client, Handler(w)
    PROVE  Moves(w)
<1>1. CASE Reject(w)
  <2>1. ~Yield(w, "reject")
    BY ActorFacts DEF Typed, LoopTyped, Contended, Yield
  <2>2. UNCHANGED locked /\ Yield(w, "gone")
    BY <1>1, <2>1 DEF Reject
  <2> QED
    BY <1>1, <2>2, TakesFreeLock, YieldMoves DEF Reject, Busy
<1>2. CASE Rejected(w)
  <2>1. ~Yield(w, "rejected")
    BY ActorFacts DEF Typed, LoopTyped, Contended, Yield
  <2> QED
    BY <1>2, <2>1 DEF Rejected
<1>3. CASE Accept(w)
  <2>1. running \in {w, NoOne} /\ UNCHANGED locked /\ waiters' = <<>>
    BY <1>3, TakesFreeLock DEF Accept
  <2>2. GoOn(w, "subscribe") \/ Yield(w, "gone")
    BY <1>3 DEF Accept
  <2> QED
    BY <2>1, <2>2, YieldMoves, GoOnMoves DEF Busy
<1>4. CASE Subscribe(w)
  <2>1. running \in {w, NoOne} /\ UNCHANGED locked /\ waiters' = <<>>
    BY <1>4, TakesFreeLock DEF Subscribe
  <2>2. GoOn(w, "subscribe") \/ Yield(w, "open")
    BY <1>4 DEF Subscribe
  <2> QED
    BY <2>1, <2>2, YieldMoves, GoOnMoves DEF Busy
<1>5. CASE HandlerEnds(w)
  <2>1. running \in {w, NoOne} /\ UNCHANGED locked /\ waiters' = <<>> /\ GoOn(w, "leave")
    BY <1>5 DEF HandlerEnds, Turn, Orderly
  <2> QED
    BY <2>1, GoOnMoves
<1> QED
  BY <1>1, <1>2, <1>3, <1>4, <1>5, DisconnectMoves, ActorFacts DEF Handler

LEMMA HeartbeatMoves ==
    ASSUME Orderly, HeartbeatLoop
    PROVE  Moves(Heartbeat)
<1>1. ASSUME running \in {Heartbeat, NoOne}, UNCHANGED <<locked, waiters>>,
             NEW p, GoOn(Heartbeat, p) \/ (Yield(Heartbeat, p) /\ p \notin Busy)
      PROVE  Moves(Heartbeat)
  <2>1. waiters' = <<>>
    BY <1>1 DEF Orderly
  <2> QED
    BY <1>1, <2>1, GoOnMoves, YieldMoves
<1>2. CASE HeartbeatWakes \/ PingedAll \/ Pinged
  BY <1>1, <1>2 DEF HeartbeatWakes, PingedAll, Pinged, Turn
<1>3. CASE Snapshot
  BY <1>3, TakesFreeLock, GoOnMoves DEF Snapshot
<1>4. ASSUME NEW w \in Client, Ping(w) \/ Evict(w) PROVE Moves(Heartbeat)
  <2>1. running \in {Heartbeat, NoOne} /\ UNCHANGED <<locked, waiters>>
    BY <1>4 DEF Ping, Evict, Turn
  <2>2. GoOn(Heartbeat, "ping") \/ GoOn(Heartbeat, "leave") \/ Yield(Heartbeat, "pinged")
    BY <1>4 DEF Ping, Evict
  <2> QED
    BY <1>1, <2>1, <2>2 DEF Busy
<1>5. CASE HeartbeatSleeps
  BY <1>1, <1>5 DEF HeartbeatSleeps, Turn, Busy
<1> QED
  BY <1>2, <1>3, <1>4, <1>5, DisconnectMoves, ActorFacts DEF HeartbeatLoop

LEMMA StepOrderly ==
    ASSUME Typed, Orderly, ~Contended', [Next]_vars
    PROVE  Orderly'
<1>1. ASSUME UNCHANGED loop PROVE Orderly'
  BY <1>1 DEF loop, Orderly
<1>2. ASSUME NEW w \in Client, Handler(w) PROVE Orderly'
  BY <1>2, HandlerMoves, MoveKeepsOrderly, ActorFacts
<1>3. ASSUME NEW w \in Client, Peer(w) PROVE Orderly'
  <2>1. CASE Connect(w)
    <3>1. running \in {w, NoOne} /\ UNCHANGED locked /\ waiters' = <<>> /\ GoOn(w, "accept")
      BY <2>1 DEF Connect, Turn, Orderly
    <3> QED
      BY <3>1, GoOnMoves, MoveKeepsOrderly, ActorFacts
  <2> QED
    BY <1>1, <1>3, <2>1 DEF Peer, MarkPong, PeerCloses, PeerGoesSilent
<1>4. CASE HeartbeatLoop
  BY <1>4, HeartbeatMoves, MoveKeepsOrderly, ActorFacts
<1>5. ASSUME NEW a \in Actor, JoinWaiters(a) PROVE FALSE
  BY <1>5 DEF JoinWaiters, Orderly
<1>6. CASE UNCHANGED vars
  BY <1>1, <1>6 DEF vars
<1> QED
  BY <1>2, <1>3, <1>4, <1>5, <1>6 DEF Next

\* What has contended for the lock stays on record.
LEMMA ContendedStays ==
    ASSUME Typed, Contended, [Next]_vars
    PROVE  Contended'
<1> PICK w \in Client : at[w] \in {"reject", "rejected"}
  BY DEF Contended
<1> SUFFICES at'[w] \in {"reject", "rejected"}
  BY DEF Contended
<1> USE ActorFacts DEF Typed, LoopTyped
<1>1. ASSUME NEW a \in Actor, NEW p, Turn(a, p), p \notin {"reject", "rejected"},
             NEW q, at' = [at EXCEPT ![a] = q]
      PROVE  at'[w] = at[w]
  BY <1>1 DEF Turn
<1>2. ASSUME NEW a \in Actor, Disconnect(a) PROVE at'[w] = at[w]
  BY <1>1, <1>2 DEF Disconnect, Leave, DropRelay, Unsubscribed, Close, RemoveClient, TakeLock, GoOn,
     Yield, Left
<1>3. ASSUME NEW u \in Client, Handler(u) PROVE at'[w] \in {"reject", "rejected"}
  <2>1. CASE Rejected(u)
    BY <2>1 DEF Rejected, Yield
  <2>2. CASE Reject(u) \/ Accept(u) \/ Subscribe(u) \/ HandlerEnds(u)
    BY <1>1, <2>2 DEF Reject, Accept, Subscribe, HandlerEnds, TakeLock, GoOn, Yield
  <2> QED
    BY <1>2, <1>3, <2>1, <2>2 DEF Handler
<1>4. ASSUME NEW u \in Client, Peer(u) PROVE at'[w] = at[w]
  BY <1>1, <1>4 DEF Peer, Connect, MarkPong, PeerCloses, PeerGoesSilent, GoOn, loop
<1>5. CASE HeartbeatLoop
  BY <1>1, <1>2, <1>5 DEF HeartbeatLoop, HeartbeatWakes, Snapshot, Pinged, PingedAll,
      HeartbeatSleeps,
     Ping, Evict, TakeLock, GoOn, Yield
<1>6. ASSUME NEW a \in Actor, JoinWaiters(a) PROVE at'[w] = at[w]
  BY <1>6 DEF JoinWaiters
<1>7. CASE UNCHANGED vars
  BY <1>7 DEF vars, loop
<1> QED
  BY <1>3, <1>4, <1>5, <1>6, <1>7 DEF Next

-----------------------------------------------------------------------------
(* Relays and slots, while the lock was never contended.                   *)

Removing(a) == at[a] \in {"unsubscribe", "drop"}

\* A step that touches no table: no disconnect() begins to unsubscribe, one that ends has
\* nothing left, and nobody comes back to the places before accept().
Quiet ==
    /\ UNCHANGED <<relayVars, connections, channels, todo, dropping>>
    /\ \A a \in Actor :
        /\ Removing(a)' => Removing(a) /\ at'[a] = at[a] /\ target'[a] = target[a]
        /\ Removing(a) => (at'[a] = at[a] /\ target'[a] = target[a]) \/ todo[a] = {}
    /\ \A w \in Client : at'[w] \in {"new", "accept"} => at[w] \in {"new", "accept"}

LEMMA QuietKeepsRelays ==
    ASSUME Typed, Relays, Quiet
    PROVE  Relays'
<1> USE DEF Relays
<1>1. RelayInTable' /\ Served'
  BY DEF Quiet, relayVars, RelayInTable, Served
<1>2. SlotHasOwner'
  <2> SUFFICES ASSUME NEW r \in 1..made, NEW w \in slots[r],
                      NEW a \in Actor, IsRemoving(a, w, channelOf[r])
               PROVE  IsRemoving(a, w, channelOf[r])'
    BY DEF Quiet, relayVars, SlotHasOwner
  <2> QED
    BY DEF Quiet, relayVars, IsRemoving, Removing
<1>3. Leaving'
  BY DEF Quiet, relayVars, Leaving, Removing
<1>4. Fresh'
  BY DEF Quiet, relayVars, Fresh
<1> QED
  BY <1>1, <1>2, <1>3, <1>4

\* A step of actor a that goes from `from` to `to`, neither of them an unsubscribing place.
LEMMA MoveIsQuiet ==
    ASSUME Typed, NEW a \in Actor, NEW from, NEW to,
           UNCHANGED <<relayVars, connections, channels, todo, dropping>>,
           at[a] = from, at' = [at EXCEPT ![a] = to],
           \A b \in Actor : b # a => target'[b] = target[b],
           from \notin {"unsubscribe", "drop"}, to \notin {"unsubscribe", "drop", "new"},
           to = "accept" => from = "new"
    PROVE  Quiet
BY ActorFacts DEF Typed, LoopTyped, Quiet, Removing

LEMMA UnsubscribedIsQuiet ==
    ASSUME Typed, NEW a \in Actor, Unsubscribed(a)
    PROVE  Quiet
<1>1. PICK p \in {"close", "evict", "gone"} : at' = [at EXCEPT ![a] = p]
  BY DEF Unsubscribed, Left, GoOn, Yield
<1>2. UNCHANGED <<relayVars, connections, channels, todo, dropping, target>> /\ todo[a] = {}
  BY DEF Unsubscribed, tables, leaving
<1> QED
  BY <1>1, <1>2, ActorFacts DEF Typed, LoopTyped, Quiet, Removing

LEMMA HandlerIsQuiet ==
    ASSUME Typed, NEW w \in Client,
           Connect(w) \/ Reject(w) \/ Rejected(w) \/ HandlerEnds(w) \/ MarkPong(w)
             \/ PeerCloses(w) \/ PeerGoesSilent(w)
    PROVE  Quiet
<1>1. UNCHANGED <<relayVars, connections, channels, todo, dropping, target>>
  BY DEF Connect, Reject, Rejected, HandlerEnds, MarkPong, PeerCloses, PeerGoesSilent, tables,
      leaving
<1>2. CASE UNCHANGED at
  BY <1>1, <1>2 DEF Quiet, Removing
<1>3. CASE Connect(w)
  BY <1>1, <1>3, MoveIsQuiet, ActorFacts DEF Connect, Turn, GoOn
<1>4. CASE Reject(w)
  <2>1. at[w] = "accept"
    BY <1>4, LockIsTyped, ActorFacts DEF Reject, Typed
  <2> QED
    BY <1>1, <1>4, <2>1, MoveIsQuiet, ActorFacts DEF Reject, Yield
<1>5. CASE Rejected(w)
  BY <1>1, <1>5, MoveIsQuiet, ActorFacts DEF Rejected, Turn, Yield
<1>6. CASE HandlerEnds(w)
  BY <1>1, <1>6, MoveIsQuiet, ActorFacts DEF HandlerEnds, Turn, GoOn
<1> QED
  BY <1>2, <1>3, <1>4, <1>5, <1>6 DEF MarkPong, PeerCloses, PeerGoesSilent, loop

LEMMA CloseIsQuiet ==
    ASSUME Typed, NEW a \in Actor, Close(a)
    PROVE  Quiet
<1>1. UNCHANGED <<relayVars, connections, channels, todo, dropping, target>> /\ at[a] = "close"
  BY DEF Close, tables, leaving, Turn
<1>2. at' = [at EXCEPT ![a] = "evict"] \/ at' = [at EXCEPT ![a] = "gone"]
  BY DEF Close, Left, GoOn, Yield
<1> QED
  BY <1>1, <1>2, MoveIsQuiet

LEMMA HeartbeatIsQuiet ==
    ASSUME Typed,
           \/ HeartbeatWakes \/ Snapshot \/ Pinged \/ PingedAll \/ HeartbeatSleeps
           \/ \E w \in Client : Ping(w) \/ Evict(w)
    PROVE  Quiet
<1>1. /\ UNCHANGED <<relayVars, connections, channels, todo, dropping>>
      /\ \A b \in Actor : b # Heartbeat => target'[b] = target[b]
  BY ActorFacts DEF HeartbeatWakes, Snapshot, Pinged, PingedAll, HeartbeatSleeps, Ping, Evict,
      tables,
     leaving, Typed, LocalsTyped
<1>2. CASE HeartbeatWakes
  BY <1>1, <1>2, MoveIsQuiet, ActorFacts DEF HeartbeatWakes, Turn, GoOn
<1>3. CASE Snapshot
  <2>1. at[Heartbeat] = "snapshot"
    BY <1>3, LockIsTyped, ActorFacts DEF Snapshot, Typed
  <2> QED
    BY <1>1, <1>3, <2>1, MoveIsQuiet, ActorFacts DEF Snapshot, GoOn
<1>4. CASE Pinged
  BY <1>1, <1>4, MoveIsQuiet, ActorFacts DEF Pinged, Turn, GoOn
<1>5. CASE PingedAll
  BY <1>1, <1>5, MoveIsQuiet, ActorFacts DEF PingedAll, Turn, GoOn
<1>6. CASE HeartbeatSleeps
  BY <1>1, <1>6, MoveIsQuiet, ActorFacts DEF HeartbeatSleeps, Turn, Yield
<1>7. ASSUME NEW w \in Client, Ping(w) PROVE Quiet
  <2>1. at[Heartbeat] = "ping"
        /\ (at' = [at EXCEPT ![Heartbeat] = "ping"] \/ at' = [at EXCEPT ![Heartbeat] = "pinged"])
    BY <1>7 DEF Ping, Turn, GoOn, Yield
  <2> QED
    BY <1>1, <2>1, MoveIsQuiet, ActorFacts
<1>8. ASSUME NEW w \in Client, Evict(w) PROVE Quiet
  <2>1. at[Heartbeat] = "evict" /\ at' = [at EXCEPT ![Heartbeat] = "leave"]
    BY <1>8 DEF Evict, Turn, GoOn
  <2> QED
    BY <1>1, <2>1, MoveIsQuiet, ActorFacts
<1> QED
  BY <1>2, <1>3, <1>4, <1>5, <1>6, <1>7, <1>8

LEMMA AcceptKeepsRelays ==
    ASSUME Typed, Relays, NEW w \in Client, Accept(w)
    PROVE  Relays'
<1>1. at[w] = "accept"
  BY LockIsTyped, ActorFacts DEF Accept, Typed
<1>2. channels' = channels
  BY <1>1 DEF Accept, Relays, Fresh, Typed, TablesTyped
<1>3. /\ UNCHANGED <<relayVars, todo, dropping, target>> /\ connections \subseteq connections'
      /\ at' = [at EXCEPT ![w] = "subscribe"] \/ at' = [at EXCEPT ![w] = "gone"]
  BY DEF Accept, leaving, GoOn, Yield
<1>4. \A a \in Actor : /\ Removing(a)' <=> Removing(a)
                       /\ Removing(a) => at'[a] = at[a]
  BY <1>1, <1>3, ActorFacts DEF Removing, Typed, LoopTyped
<1>5. RelayInTable' /\ Served'
  BY <1>2, <1>3 DEF Relays, relayVars, RelayInTable, Served
<1>6. SlotHasOwner'
  <2> SUFFICES ASSUME NEW r \in 1..made, NEW u \in slots[r],
                      NEW a \in Actor, IsRemoving(a, u, channelOf[r])
               PROVE  IsRemoving(a, u, channelOf[r])'
    BY <1>2, <1>3 DEF relayVars, SlotHasOwner, Relays
  <2>1. Removing(a) /\ at'[a] = at[a]
    BY <1>4 DEF IsRemoving, Removing
  <2> QED
    BY <1>3, <2>1 DEF IsRemoving, relayVars
<1>7. Leaving'
  BY <1>2, <1>3, <1>4 DEF relayVars, Leaving, Removing, Relays
<1>8. Fresh'
  BY <1>2, <1>3, ActorFacts DEF relayVars, Fresh, Relays, Typed, LoopTyped
<1> QED
  BY <1>5, <1>6, <1>7, <1>8 DEF Relays

\* Who has the event loop at a busy place is the only one there.
LEMMA NobodyRemoves ==
    ASSUME Orderly, NEW a \in Actor, at[a] \in Busy \ {"unsubscribe", "drop"}, NEW b \in Actor
    PROVE  ~Removing(b)
BY BusyIsAlone DEF Removing, Busy

LEMMA SubscribeKeepsRelays ==
    ASSUME Typed, Typed', Orderly, Relays, NEW w \in Client, Subscribe(w)
    PROVE  Relays'
<1>1. PICK ch \in Channel, r \in Nat \ {0} : SubscribesTo(w, ch, r)
  BY SubscribeEffect
<1>2. at[w] = "subscribe"
  BY LockIsTyped, ActorFacts DEF Subscribe, Typed
<1>3. \A a \in Actor : ~Removing(a)
  BY <1>2, NobodyRemoves, ActorFacts DEF Busy
<1>4. \A a \in Actor : ~Removing(a)'
  BY <1>2, <1>3, ActorFacts DEF Subscribe, GoOn, Yield, Removing, Typed, LoopTyped
<1>5. /\ made \in Nat /\ made' \in Nat /\ made <= made' /\ r \in 1..made'
      /\ \A k \in 1..made' : k \in 1..made \/ k = r
      /\ r \in 1..made <=> relays[ch] = r
  BY <1>1 DEF SubscribesTo, Typed, RelaysTyped
<1>6. /\ \A k \in 1..made : channelOf'[k] = channelOf[k]
      /\ \A k \in 1..made : k # r => slots'[k] = slots[k]
      /\ r \in 1..made => slots'[r] = slots[r] \cup {w}
      /\ r \notin 1..made => slots'[r] = {w} /\ channelOf'[r] = ch
      /\ relays'[ch] = r /\ \A d \in Channel : d # ch => relays'[d] = relays[d]
  BY <1>1, <1>5 DEF SubscribesTo, Typed, RelaysTyped
<1>7. channelOf'[r] = ch
  BY <1>1, <1>5, <1>6 DEF Relays, RelayInTable
<1>8. /\ channels'[w] = channels[w] \cup {ch}
      /\ \A u \in Client : u # w => channels'[u] = channels[u]
  BY <1>1 DEF SubscribesTo, Typed, TablesTyped
<1>9. RelayInTable'
  <2>1. ASSUME NEW d \in Channel, relays'[d] # 0 PROVE channelOf'[relays'[d]] = d
    <3>1. CASE d = ch
      BY <1>6, <1>7, <3>1
    <3>2. CASE d # ch
      <4>1. relays[d] \in 1..made /\ relays'[d] = relays[d]
        BY <1>6, <2>1, <3>2 DEF Typed, RelaysTyped
      <4> QED
        BY <1>6, <4>1 DEF Relays, RelayInTable
    <3> QED
      BY <3>1, <3>2
  <2>2. ASSUME NEW k \in 1..made', slots'[k] # {} PROVE relays'[channelOf'[k]] = k
    <3>1. CASE k = r
      BY <1>6, <1>7, <3>1
    <3>2. CASE k # r
      <4>1. k \in 1..made /\ slots[k] # {} /\ channelOf'[k] = channelOf[k] /\ channelOf[k] \in Channel
        BY <1>5, <1>6, <2>2, <3>2 DEF Typed, RelaysTyped
      <4>2. relays[channelOf[k]] = k
        BY <4>1 DEF Relays, RelayInTable
      <4>3. channelOf[k] # ch
        BY <1>1, <1>5, <3>2, <4>1, <4>2 DEF SubscribesTo
      <4> QED
        BY <1>6, <4>1, <4>2, <4>3
    <3> QED
      BY <3>1, <3>2
  <2>3. ASSUME NEW k \in 1..made' PROVE slots'[k] # {} <=> k \in listening'
    <3>1. CASE k = r
      BY <1>1, <1>5, <1>6, <3>1 DEF SubscribesTo
    <3>2. CASE k # r
      BY <1>1, <1>5, <1>6, <3>2 DEF SubscribesTo, Relays, RelayInTable
    <3> QED
      BY <3>1, <3>2
  <2> QED
    BY <2>1, <2>2, <2>3 DEF RelayInTable
<1>10. Served'
  <2> SUFFICES ASSUME NEW u \in Client, NEW d \in channels'[u]
               PROVE  relays'[d] # 0 /\ u \in slots'[relays'[d]]
    BY DEF Served
  <2>1. d \in Channel
    BY DEF Typed, TablesTyped
  <2>2. CASE u = w /\ d = ch
    BY <1>5, <1>6, <2>2
  <2>3. CASE ~(u = w /\ d = ch)
    <3>1. d \in channels[u]
      BY <1>8, <2>3
    <3>2. relays[d] \in 1..made /\ u \in slots[relays[d]]
      BY <2>1, <3>1 DEF Relays, Served, Typed, RelaysTyped
    <3> QED
      BY <1>1, <1>5, <1>6, <2>1, <3>2 DEF SubscribesTo
  <2> QED
    BY <2>2, <2>3
<1>11. SlotHasOwner'
  <2> SUFFICES ASSUME NEW k \in 1..made', NEW u \in slots'[k]
               PROVE  u \in connections' /\ channelOf'[k] \in channels'[u]
    BY DEF SlotHasOwner
  <2>1. CASE u = w /\ k = r
    BY <1>1, <1>7, <1>8, <2>1 DEF SubscribesTo
  <2>2. CASE ~(u = w /\ k = r)
    <3>1. k \in 1..made /\ u \in slots[k]
      BY <1>5, <1>6, <2>2
    <3>2. u \in connections /\ channelOf[k] \in channels[u] /\ u \in Client
      BY <1>3, <3>1 DEF Relays, SlotHasOwner, IsRemoving, Removing, Typed, RelaysTyped
    <3> QED
      BY <1>1, <1>6, <1>8, <3>1, <3>2 DEF SubscribesTo
  <2> QED
    BY <2>1, <2>2
<1>12. Leaving'
  BY <1>4 DEF Leaving, Removing
<1>13. Fresh'
  <2> SUFFICES ASSUME NEW u \in Client, at'[u] \in {"new", "accept"}
               PROVE  channels'[u] = {} /\ \A k \in 1..made' : u \notin slots'[k]
    BY DEF Fresh
  <2>1. u # w /\ at'[u] = at[u]
    BY <1>2, ActorFacts DEF Subscribe, GoOn, Yield, Typed, LoopTyped
  <2> QED
    BY <1>5, <1>6, <1>8, <2>1 DEF Relays, Fresh
<1> QED
  BY <1>9, <1>10, <1>11, <1>12, <1>13 DEF Relays

LEMMA LeaveKeepsRelays ==
    ASSUME Typed, Orderly, Relays, NEW a \in Actor, Leave(a)
    PROVE  Relays'
<1> DEFINE w == target[a]
<1>1. at[a] = "leave"
  BY LockIsTyped DEF Leave, Typed
<1>2. w \in Client
  BY <1>1, TargetIsClient
<1>3. \A b \in Actor : ~Removing(b)
  BY <1>1, NobodyRemoves DEF Busy
<1>4. /\ UNCHANGED <<relayVars, target, dropping>>
      /\ todo' = [todo EXCEPT ![a] = channels[w]]
      /\ connections' = connections \ {w} /\ channels' = [channels EXCEPT ![w] = {}]
      /\ at' = [at EXCEPT ![a] = "unsubscribe"]
  BY DEF Leave, GoOn
<1>5. at'[a] = "unsubscribe" /\ \A b \in Actor : b # a => at'[b] = at[b] /\ ~Removing(b)'
  BY <1>3, <1>4 DEF Typed, LoopTyped, Removing
<1>6. /\ channels'[w] = {} /\ todo'[a] = channels[w]
      /\ \A u \in Client : u # w => channels'[u] = channels[u]
  BY <1>2, <1>4 DEF Typed, TablesTyped, LocalsTyped
<1> HIDE DEF w
<1>7. RelayInTable'
  BY <1>4 DEF Relays, relayVars, RelayInTable
<1>8. Served'
  BY <1>4, <1>6 DEF Relays, relayVars, Served
<1>9. SlotHasOwner'
  <2> SUFFICES ASSUME NEW r \in 1..made, NEW u \in slots[r]
               PROVE  \/ u \in connections' /\ channelOf[r] \in channels'[u]
                      \/ IsRemoving(a, u, channelOf[r])'
    BY <1>4 DEF relayVars, SlotHasOwner
  <2>1. u \in Client /\ u \in connections /\ channelOf[r] \in channels[u]
    BY <1>3 DEF Relays, SlotHasOwner, IsRemoving, Removing, Typed, RelaysTyped
  <2>2. CASE u = w
    BY <1>4, <1>5, <1>6, <2>1, <2>2 DEF IsRemoving, relayVars, w
  <2>3. CASE u # w
    BY <1>4, <1>6, <2>1, <2>3
  <2> QED
    BY <2>2, <2>3
<1>10. Leaving'
  <2> SUFFICES ASSUME NEW b \in Actor, Removing(b)'
               PROVE  channels'[target'[b]] = {} /\ at'[b] # "drop"
    BY DEF Leaving, Removing
  <2> QED
    BY <1>4, <1>5, <1>6 DEF w
<1>11. Fresh'
  <2> SUFFICES ASSUME NEW u \in Client, at'[u] \in {"new", "accept"}
               PROVE  channels'[u] = {} /\ \A r \in 1..made' : u \notin slots'[r]
    BY DEF Fresh
  <2>1. at[u] \in {"new", "accept"}
    BY <1>5, ActorFacts
  <2> QED
    BY <1>4, <1>6, <2>1 DEF Relays, Fresh, relayVars
<1> QED
  BY <1>7, <1>8, <1>9, <1>10, <1>11 DEF Relays

LEMMA RemoveClientKeepsRelays ==
    ASSUME Typed, Orderly, Relays, NEW a \in Actor, NEW ch \in Channel, RemoveClient(a, ch)
    PROVE  Relays'
<1> DEFINE w == target[a]
           s == relays[ch]
<1>1. at[a] = "unsubscribe" /\ ch \in todo[a]
  BY DEF RemoveClient, Turn
<1>2. w \in Client /\ channels[w] = {} /\ s \in 0..made /\ made \in Nat
  BY <1>1, TargetIsClient DEF Relays, Leaving, Typed, RelaysTyped
<1>3. \A b \in Actor : b # a => ~Removing(b)
  BY <1>1, BusyIsAlone DEF Removing, Busy
<1>4. /\ UNCHANGED <<target, relays, made, channelOf, channels, connections>>
      /\ todo'[a] = todo[a] \ {ch}
  BY DEF RemoveClient, tables, Typed, LocalsTyped
<1>5. at'[a] \in {"unsubscribe", "drop"} /\ \A b \in Actor : b # a => at'[b] = at[b]
  BY DEF RemoveClient, GoOn, Typed, LoopTyped
<1>6. \/ s = 0 /\ UNCHANGED <<slots, listening, dropping>> /\ at'[a] = "unsubscribe"
      \/ /\ s # 0 /\ remove_client(s, w)
         /\ \/ slots'[s] = {} /\ dropping'[a] = ch
            \/ slots'[s] # {} /\ at'[a] = "unsubscribe"
  BY DEF RemoveClient, GoOn, Typed, LoopTyped, LocalsTyped
<1> HIDE DEF w, s
<1>7. /\ \A k \in 1..made : k # s => slots'[k] = slots[k] /\ (k \in listening' <=> k \in listening)
      /\ s # 0 => /\ slots'[s] = slots[s] \ {w}
                  /\ s \in listening' <=> s \in listening /\ slots'[s] # {}
  BY <1>2, <1>6 DEF remove_client, Typed, RelaysTyped
<1>8. RelayInTable'
  <2>1. \A k \in 1..made : slots'[k] # {} => relays[channelOf[k]] = k
    BY <1>7 DEF Relays, RelayInTable
  <2>2. \A k \in 1..made : slots'[k] # {} <=> k \in listening'
    BY <1>7 DEF Relays, RelayInTable
  <2> QED
    BY <1>4, <2>1, <2>2 DEF Relays, RelayInTable
<1>9. Served'
  <2> SUFFICES ASSUME NEW u \in Client, NEW d \in channels[u]
               PROVE  relays[d] # 0 /\ u \in slots'[relays[d]]
    BY <1>4 DEF Served
  <2>1. relays[d] \in 1..made /\ u \in slots[relays[d]]
    BY DEF Relays, Served, Typed, RelaysTyped, TablesTyped
  <2>2. u # w
    BY <1>2
  <2> QED
    BY <1>7, <2>1, <2>2
<1>10. SlotHasOwner'
  <2> SUFFICES ASSUME NEW k \in 1..made, NEW u \in slots'[k]
               PROVE  \/ u \in connections /\ channelOf[k] \in channels[u]
                      \/ IsRemoving(a, u, channelOf[k])'
    BY <1>4 DEF SlotHasOwner
  <2>1. u \in slots[k] /\ (k = s => u # w)
    BY <1>7
  <2>2. CASE u \in connections /\ channelOf[k] \in channels[u]
    BY <2>2
  <2>3. CASE ~(u \in connections /\ channelOf[k] \in channels[u])
    <3>1. PICK b \in Actor : IsRemoving(b, u, channelOf[k])
      BY <2>1, <2>3 DEF Relays, SlotHasOwner
    <3>2. b = a
      BY <1>3, <3>1 DEF IsRemoving, Removing
    <3>3. channelOf[k] # ch
      BY <2>1, <3>1, <3>2 DEF Relays, RelayInTable, IsRemoving, w, s
    <3> QED
      BY <1>4, <1>5, <3>1, <3>2, <3>3 DEF IsRemoving
  <2> QED
    BY <2>2, <2>3
<1>11. Leaving'
  <2>1. \A b \in Actor : Removing(b)' => b = a
    BY <1>3, <1>5 DEF Removing
  <2>2. at'[a] = "drop" => /\ dropping'[a] = ch /\ relays[ch] # 0
                           /\ slots'[relays[ch]] = {}
    BY <1>6 DEF s
  <2> QED
    BY <1>2, <1>4, <2>1, <2>2 DEF Leaving, Removing, w
<1>12. Fresh'
  <2> SUFFICES ASSUME NEW u \in Client, at'[u] \in {"new", "accept"}
               PROVE  channels[u] = {} /\ \A k \in 1..made : u \notin slots'[k]
    BY <1>4 DEF Fresh
  <2>1. at[u] \in {"new", "accept"}
    BY <1>5, ActorFacts
  <2> QED
    BY <1>7, <2>1 DEF Relays, Fresh
<1> QED
  BY <1>8, <1>9, <1>10, <1>11, <1>12 DEF Relays

LEMMA DropRelayKeepsRelays ==
    ASSUME Typed, Orderly, Relays, NEW a \in Actor, DropRelay(a)
    PROVE  Relays'
<1> DEFINE d == dropping[a]
<1>1. at[a] = "drop"
  BY LockIsTyped DEF DropRelay, Typed
<1>2. d \in Channel /\ relays[d] # 0 /\ slots[relays[d]] = {} /\ relays[d] \in 1..made
  BY <1>1 DEF Relays, Leaving, Typed, RelaysTyped
<1>3. \A b \in Actor : b # a => ~Removing(b)
  BY <1>1, BusyIsAlone DEF Removing, Busy
<1>4. /\ UNCHANGED <<target, todo, made, channelOf, slots, listening, channels, connections>>
      /\ relays' = [relays EXCEPT ![d] = 0]
      /\ at' = [at EXCEPT ![a] = "unsubscribe"]
  BY DEF DropRelay, tables, GoOn
<1>5. at'[a] = "unsubscribe" /\ \A b \in Actor : b # a => at'[b] = at[b]
  BY <1>4 DEF Typed, LoopTyped
<1>6. relays'[d] = 0 /\ \A c \in Channel : c # d => relays'[c] = relays[c]
  BY <1>2, <1>4 DEF Typed, RelaysTyped
<1> HIDE DEF d
<1>7. RelayInTable'
  <2>1. ASSUME NEW k \in 1..made, slots[k] # {} PROVE relays'[channelOf[k]] = k
    <3>1. relays[channelOf[k]] = k /\ channelOf[k] \in Channel
      BY <2>1 DEF Relays, RelayInTable, Typed, RelaysTyped
    <3> QED
      BY <1>2, <1>6, <2>1, <3>1
  <2>2. ASSUME NEW c \in Channel, relays'[c] # 0 PROVE channelOf[relays'[c]] = c
    BY <1>6, <2>2 DEF Relays, RelayInTable
  <2> QED
    BY <1>4, <2>1, <2>2 DEF Relays, RelayInTable
<1>8. Served'
  <2> SUFFICES ASSUME NEW u \in Client, NEW c \in channels[u]
               PROVE  relays'[c] # 0 /\ u \in slots[relays'[c]]
    BY <1>4 DEF Served
  <2>1. c \in Channel /\ relays[c] # 0 /\ u \in slots[relays[c]]
    BY DEF Relays, Served, Typed, TablesTyped
  <2> QED
    BY <1>2, <1>6, <2>1
<1>9. SlotHasOwner'
  <2> SUFFICES ASSUME NEW k \in 1..made, NEW u \in slots[k],
                      NEW b \in Actor, IsRemoving(b, u, channelOf[k])
               PROVE  IsRemoving(b, u, channelOf[k])'
    BY <1>4 DEF Relays, SlotHasOwner
  <2>1. b = a
    BY <1>3 DEF IsRemoving, Removing
  <2> QED
    BY <1>4, <1>5, <2>1 DEF IsRemoving
<1>10. Leaving'
  <2>1. \A b \in Actor : Removing(b)' => b = a
    BY <1>3, <1>5 DEF Removing
  <2>2. channels[target[a]] = {}
    BY <1>1 DEF Relays, Leaving
  <2> QED
    BY <1>4, <1>5, <2>1, <2>2 DEF Leaving, Removing
<1>11. Fresh'
  BY <1>4, <1>5, ActorFacts DEF Relays, Fresh
<1> QED
  BY <1>7, <1>8, <1>9, <1>10, <1>11 DEF Relays

LEMMA DisconnectKeepsRelays ==
    ASSUME Typed, Orderly, Relays, NEW a \in Actor, Disconnect(a)
    PROVE  Relays'
BY LeaveKeepsRelays, DropRelayKeepsRelays, RemoveClientKeepsRelays, UnsubscribedIsQuiet, CloseIsQuiet,
   QuietKeepsRelays DEF Disconnect

LEMMA StepRelays ==
    ASSUME Typed, Orderly, Relays, [Next]_vars
    PROVE  Relays'
<1>1. Typed'
  BY StepTyped
<1>2. ASSUME NEW w \in Client, Handler(w) PROVE Relays'
  BY <1>1, <1>2, AcceptKeepsRelays, SubscribeKeepsRelays, DisconnectKeepsRelays, HandlerIsQuiet,
     QuietKeepsRelays, ActorFacts DEF Handler
<1>3. ASSUME NEW w \in Client, Peer(w) PROVE Relays'
  BY <1>3, HandlerIsQuiet, QuietKeepsRelays DEF Peer
<1>4. CASE HeartbeatLoop
  BY <1>4, HeartbeatIsQuiet, QuietKeepsRelays, DisconnectKeepsRelays, ActorFacts DEF HeartbeatLoop
<1>5. ASSUME NEW a \in Actor, JoinWaiters(a) PROVE FALSE
  BY <1>5 DEF JoinWaiters, Orderly
<1>6. ASSUME UNCHANGED vars PROVE Quiet
  BY <1>6 DEF Quiet, Removing, vars, loop, leaving, tables
<1> QED
  BY <1>2, <1>3, <1>4, <1>5, <1>6, QuietKeepsRelays DEF Next

-----------------------------------------------------------------------------
(* The theorems.                                                           *)

\* Once the lock has been contended only the types are kept.
Inv == Typed /\ (~Contended => Orderly /\ Relays)

LEMMA InitInv == Init => Inv
<1> SUFFICES ASSUME Init PROVE Inv
  OBVIOUS
<1>1. Typed
  BY InitTyped
<1>2. Orderly
  BY DEF Init, Orderly, Busy
<1>3. Relays
  <2>1. RelayInTable
    BY DEF Init, RelayInTable
  <2>2. Served /\ SlotHasOwner /\ Fresh
    BY DEF Init, Served, SlotHasOwner, Fresh
  <2>3. Leaving
    BY DEF Init, Leaving
  <2> QED
    BY <2>1, <2>2, <2>3 DEF Relays
<1> QED
  BY <1>1, <1>2, <1>3 DEF Inv

LEMMA StepInv == Inv /\ [Next]_vars => Inv'
<1> SUFFICES ASSUME Inv, [Next]_vars PROVE Inv'
  OBVIOUS
<1>1. Typed'
  BY StepTyped DEF Inv
<1>2. CASE Contended
  BY <1>1, <1>2, ContendedStays DEF Inv
<1>3. CASE ~Contended /\ ~Contended'
  BY <1>1, <1>3, StepOrderly, StepRelays DEF Inv
<1> QED
  BY <1>1, <1>2, <1>3 DEF Inv

LEMMA SpecInv == Spec => []Inv
<1> QED
  BY InitInv, StepInv, PTL DEF Spec

\* A channel of Redis is subscribed to once: two relays that listen are relays of different
\* channels, however the last client out and the next one in interleave.
THEOREM OneSubscriptionPerChannel == Spec => []OneRelayPerChannel
<1>1. Inv => OneRelayPerChannel
  <2> SUFFICES ASSUME Inv, ~Contended, NEW r \in listening, NEW s \in listening,
                      channelOf[r] = channelOf[s]
               PROVE  r = s
    BY DEF OneRelayPerChannel
  <2>1. relays[channelOf[r]] = r /\ relays[channelOf[s]] = s
    BY DEF Inv, Relays, RelayInTable, Typed, RelaysTyped
  <2> QED
    BY <2>1
<1> QED
  BY <1>1, SpecInv, PTL

\* A registered socket is served on every channel it subscribed to.
THEOREM EverySubscriberIsServed == Spec => []SubscriberIsServed
<1>1. Inv => SubscriberIsServed
  <2> SUFFICES ASSUME Inv, ~Contended, NEW w \in connections, NEW ch \in channels[w]
               PROVE  relays[ch] # 0 /\ w \in slots[relays[ch]] /\ relays[ch] \in listening
    BY DEF SubscriberIsServed
  <2>1. w \in Client /\ ch \in Channel /\ relays[ch] \in 0..made
    BY DEF Inv, Typed, TablesTyped, RelaysTyped
  <2>2. relays[ch] # 0 /\ w \in slots[relays[ch]]
    BY <2>1 DEF Inv, Relays, Served
  <2> QED
    BY <2>1, <2>2 DEF Inv, Relays, RelayInTable
<1> QED
  BY <1>1, SpecInv, PTL

\* A slot on a relay belongs to a registered socket or is about to be removed.
THEOREM SlotsAreReleased == Spec => []NoSlotLeftBehind
<1>1. Inv => NoSlotLeftBehind
  BY DEF Inv, Relays, SlotHasOwner, NoSlotLeftBehind
<1> QED
  BY <1>1, SpecInv, PTL

\* Where no rejection suspends, as under uvicorn, the lock is never contended: the three
\* theorems above then hold without their premise.
THEOREM UvicornNeverContends ==
    ASSUME Suspending = {}
    PROVE  Spec => []~Contended
<1> DEFINE Free == \A w \in Client : at[w] \notin {"reject", "rejected"}
<1>1. Init => Free
  BY ActorFacts DEF Init
<1>2. ASSUME Typed, Free, [Next]_vars PROVE Free'
  <2> USE <1>2 DEF Typed, LoopTyped
  <2>1. ASSUME NEW a, NEW q, q \notin {"reject", "rejected"}, at' = [at EXCEPT ![a] = q]
        PROVE  Free'
    BY <2>1, ActorFacts
  <2>2. CASE at' = at
    BY <2>2
  <2> HIDE DEF Free
  <2>3. ASSUME NEW a \in Actor, Disconnect(a) PROVE Free'
    BY <2>1, <2>3 DEF Disconnect, Leave, DropRelay, Unsubscribed, Close, RemoveClient, GoOn, Yield, Left
  <2>4. ASSUME NEW w \in Client, Handler(w) PROVE Free'
    <3>1. CASE Rejected(w)
      BY <1>2, <3>1 DEF Rejected, Turn, Free
    <3>2. CASE Reject(w)
      BY <2>1, <3>2 DEF Reject, Yield
    <3>3. CASE Accept(w) \/ Subscribe(w) \/ HandlerEnds(w)
      BY <2>1, <3>3 DEF Accept, Subscribe, HandlerEnds, GoOn, Yield
    <3> QED
      BY <2>3, <2>4, <3>1, <3>2, <3>3, ActorFacts DEF Handler
  <2>5. ASSUME NEW w \in Client, Peer(w) PROVE Free'
    BY <2>1, <2>2, <2>5 DEF Peer, Connect, MarkPong, PeerCloses, PeerGoesSilent, GoOn, loop
  <2>6. CASE HeartbeatLoop
    BY <2>1, <2>3, <2>6, ActorFacts DEF HeartbeatLoop, HeartbeatWakes, Snapshot, Pinged, PingedAll,
       HeartbeatSleeps, Ping, Evict, GoOn, Yield
  <2>7. ASSUME NEW a \in Actor, JoinWaiters(a) PROVE Free'
    BY <2>2, <2>7 DEF JoinWaiters
  <2>8. CASE UNCHANGED vars
    BY <2>2, <2>8 DEF vars, loop
  <2> QED
    BY <1>2, <2>4, <2>5, <2>6, <2>7, <2>8 DEF Next
<1>3. Free => ~Contended
  BY DEF Contended
<1> QED
  BY <1>1, <1>2, <1>3, SpecTyped, PTL DEF Spec

==============================================================================
