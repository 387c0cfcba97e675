----------------------------- MODULE ChannelRelay -----------------------------
(***************************************************************************)
(* What a _ChannelRelay of ws-server does with the messages of its channel *)
(* (connection_manager.py): the listener with its Redis subscription, the  *)
(* bounded queue of every client, the senders.  Which relays exist, and    *)
(* that every client is in the ones it subscribed to, is the subject of    *)
(* ConnectionManager; here a relay exists while it has a client.           *)
(***************************************************************************)
EXTENDS Naturals, Sequences, FiniteSets, SequencesExt

CONSTANTS
    Locomotive,
    Kind,            \* the envelope types of /ws/live: telemetry, alert, health
    Socket,          \* WebSocket connections
    QueueMax,        \* _QUEUE_MAX
    WireMax,         \* frames the transport takes before send_bytes() blocks
    MaxMessages      \* bound: messages published

ASSUME RelayAssumption ==
    /\ Kind \subseteq {"telemetry", "alert", "health"}
    /\ "all" \notin Locomotive
    /\ {QueueMax, WireMax} \subseteq Nat \ {0}
    /\ MaxMessages \in Nat

\* Telemetry and health have a channel for each locomotive, alerts one for all.
Channel == [kind : Kind \ {"alert"}, of : Locomotive]
             \cup {[kind |-> "alert", of |-> "all"] : k \in Kind \cap {"alert"}}

\* A message, by the order of its publication.
Message == [kind : Kind, loco : Locomotive, n : 1..MaxMessages]

ChannelOf(kind, loco) ==
    [kind |-> kind, of |-> IF kind = "alert" THEN "all" ELSE loco]

VARIABLES
    published,   \* messages published on any channel
    relay,       \* relay[c]: "none", or its listener subscribing, listening, or backing off
    inbox,       \* inbox[c]: what the listener's subscription has received
    slots,       \* slots[s]: the _ClientSlot for every channel the handler subscribed to
    wire         \* wire[s]: frames on their way to the browser

relayVars == <<published, relay, inbox, slots, wire>>

\* A _ClientSlot: its queue, its filter_loco_id, and the last message put in its queue.
Slot == [queue : Seq(Message), filter : Locomotive \cup {"all"}, newest : 0..MaxMessages]

NoSlots == <<>>

RelayTypeOK ==
    /\ published \in 0..MaxMessages
    /\ relay \in [Channel -> {"none", "joining", "listening", "backoff"}]
    /\ inbox \in [Channel -> Seq(Message)]
    /\ DOMAIN slots = Socket
    /\ \A s \in Socket :
        /\ DOMAIN slots[s] \subseteq Channel
        /\ \A c \in DOMAIN slots[s] :
            slots[s][c] \in Slot /\ Len(slots[s][c].queue) <= QueueMax
    /\ wire \in [Socket -> Seq(Message)]
    /\ \A s \in Socket : Len(wire[s]) <= WireMax

RelayInit ==
    /\ published = 0
    /\ relay = [c \in Channel |-> "none"]
    /\ inbox = [c \in Channel |-> <<>>]
    /\ slots = [s \in Socket |-> NoSlots]
    /\ wire = [s \in Socket |-> <<>>]

\* The processor publishes on Redis; only a subscribed listener receives it.
Publish(kind, l) ==
    LET c == ChannelOf(kind, l) IN
    /\ published < MaxMessages
    /\ published' = published + 1
    /\ inbox' = IF relay[c] = "listening"
                THEN [inbox EXCEPT ![c] = Append(@, [kind |-> kind, loco |-> l,
                                                     n |-> published + 1])]
                ELSE inbox
    /\ UNCHANGED <<relay, slots, wire>>

-----------------------------------------------------------------------------
(* The listener.                                                           *)

Subscribed(c) ==
    /\ relay[c] = "joining"
    /\ relay' = [relay EXCEPT ![c] = "listening"]
    /\ UNCHANGED <<published, inbox, slots, wire>>

\* subscribe() or listen() raises: what was published and not yet read is lost.
RelayError(c) ==
    /\ relay[c] \in {"joining", "listening"}
    /\ relay' = [relay EXCEPT ![c] = "backoff"]
    /\ inbox' = [inbox EXCEPT ![c] = <<>>]
    /\ UNCHANGED <<published, slots, wire>>

BackoffOver(c) ==
    /\ relay[c] = "backoff"
    /\ relay' = [relay EXCEPT ![c] = "joining"]
    /\ UNCHANGED <<published, inbox, slots, wire>>

\* Mutant: a full queue refuses the new frame.
Queued_DropsNew(queue, message) ==
    IF Len(queue) >= QueueMax THEN queue ELSE Append(queue, message)

\* Backpressure: a full queue drops its oldest frame.
Queued(queue, message) ==
    Append(IF Len(queue) >= QueueMax THEN Tail(queue) ELSE queue, message)

\* filter_loco_id
Passes(slot, message) == slot.filter \in {"all", message.loco}

\* One message, to every client of the relay, under its lock.
FanOut(c) ==
    /\ inbox[c] # <<>>
    /\ inbox' = [inbox EXCEPT ![c] = Tail(@)]
    /\ LET message == Head(inbox[c])
           reaches(s) == c \in DOMAIN slots[s] /\ Passes(slots[s][c], message)
       IN  slots' = [s \in Socket |->
               IF reaches(s)
               THEN [slots[s] EXCEPT ![c].queue = Queued(@, message), ![c].newest = message.n]
               ELSE slots[s]]
    /\ UNCHANGED <<published, relay, wire>>

-----------------------------------------------------------------------------
(* The clients.                                                            *)

\* _sender_loop() of one slot.
SendFrame(s) ==
    /\ Len(wire[s]) < WireMax
    /\ \E c \in DOMAIN slots[s] :
        /\ slots[s][c].queue # <<>>
        /\ wire' = [wire EXCEPT ![s] = Append(@, Head(slots[s][c].queue))]
        /\ slots' = [slots EXCEPT ![s][c].queue = Tail(@)]
    /\ UNCHANGED <<published, relay, inbox>>

\* The handler of an accepted socket subscribes to the three channels of its path.
Subscribe(s, l) ==
    LET channels == {ChannelOf(k, l) : k \in Kind} IN
    /\ slots' = [slots EXCEPT ![s] = [c \in channels |->
                    [queue |-> <<>>, newest |-> 0,
                     filter |-> IF c.kind = "alert" THEN l ELSE "all"]]]
    /\ wire' = [wire EXCEPT ![s] = <<>>]
    /\ relay' = [c \in Channel |->
                    IF c \in channels /\ relay[c] = "none" THEN "joining" ELSE relay[c]]
    /\ UNCHANGED <<published, inbox>>

\* The handlers of the sockets in `gone` end in disconnect(): a relay without clients
\* stops listening.
Unsubscribe(gone) ==
    LET stays(c) == \E s \in Socket \ gone : c \in DOMAIN slots[s] IN
    /\ slots' = [s \in Socket |-> IF s \in gone THEN NoSlots ELSE slots[s]]
    /\ wire' = [s \in Socket |-> IF s \in gone THEN <<>> ELSE wire[s]]
    /\ relay' = [c \in Channel |-> IF stays(c) THEN relay[c] ELSE "none"]
    /\ inbox' = [c \in Channel |-> IF stays(c) THEN inbox[c] ELSE <<>>]
    /\ UNCHANGED published
=============================================================================
