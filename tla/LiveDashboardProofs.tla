------------------------- MODULE LiveDashboardProofs -------------------------
(***************************************************************************)
(* Theorems about the live page, for any locomotives and kinds of message, *)
(* any sizes of the queues and the wire, and any number of faults.         *)
(***************************************************************************)
EXTENDS LiveDashboard, SequenceTheorems, FiniteSetTheorems, TLAPS

-----------------------------------------------------------------------------
(* The inductive invariant: the relays.                                    *)

\* What a message is on: its channel, and its place in the order of publication.
Home(message) == ChannelOf(message.kind, message.loco)

\* Of the messages of one kind, the earlier one comes first.
Ascending(seq) ==
    \A i, j \in DOMAIN seq : i < j /\ seq[i].kind = seq[j].kind => seq[i].n < seq[j].n

\* A subscription holds messages of its channel, in order.
InboxInOrder ==
    \A c \in Channel :
        /\ \A i \in DOMAIN inbox[c] : Home(inbox[c][i]) = c /\ inbox[c][i].n <= published
        /\ Ascending(inbox[c])

\* A slot's queue holds messages of its channel that pass its filter, in order, none newer
\* than `newest`; what the listener has not read is newer still.
QueueInOrder ==
    \A s \in Socket : \A c \in DOMAIN slots[s] :
        LET slot == slots[s][c] IN
        /\ slot.newest <= published
        /\ \A i \in DOMAIN inbox[c] : slot.newest < inbox[c][i].n
        /\ \A i \in DOMAIN slot.queue :
            /\ Home(slot.queue[i]) = c /\ Passes(slot, slot.queue[i])
            /\ slot.queue[i].n <= slot.newest
        /\ Ascending(slot.queue)

\* The frames on the wire came from a slot of their channel and are older than its queue.
WireInOrder ==
    \A s \in Socket :
        /\ Ascending(wire[s])
        /\ \A i \in DOMAIN wire[s] :
            LET frame == wire[s][i] IN
            /\ Home(frame) \in DOMAIN slots[s]
            /\ LET slot == slots[s][Home(frame)] IN
                /\ Passes(slot, frame) /\ frame.n <= slot.newest
                /\ \A j \in DOMAIN slot.queue : frame.n < slot.queue[j].n

\* A client subscribes to one channel of each kind.
OneSlotPerKind ==
    \A s \in Socket : \A c, d \in DOMAIN slots[s] : c.kind = d.kind => c = d

RelayInv == RelayTypeOK /\ InboxInOrder /\ QueueInOrder /\ WireInOrder /\ OneSlotPerKind

\* WireInOrder, of the frames and the slots of one socket.
FramesInOrder(frames, mine) ==
    /\ Ascending(frames)
    /\ \A i \in DOMAIN frames :
        /\ Home(frames[i]) \in DOMAIN mine
        /\ LET slot == mine[Home(frames[i])] IN
            /\ Passes(slot, frames[i]) /\ frames[i].n <= slot.newest
            /\ \A j \in DOMAIN slot.queue : frames[i].n < slot.queue[j].n

LEMMA WireByFrames ==
    /\ WireInOrder <=> \A s \in Socket : FramesInOrder(wire[s], slots[s])
    /\ WireInOrder' <=> \A s \in Socket : FramesInOrder(wire'[s], slots'[s])
BY DEF WireInOrder, FramesInOrder, Home, Passes, Ascending

-----------------------------------------------------------------------------
(* The inductive invariant: the page.                                      *)

\* A mounted page has one manager that is not disposed: the last.
LastIsMounted ==
    /\ \A m \in DOMAIN managers :
        ~managers[m].disposed => m = Current /\ selected = managers[m].loco
    /\ selected # None => Current > 0 /\ ~managers[Current].disposed

\* Only an open socket has slots, those of its locomotive.
SlotsAreOpen ==
    \A s \in Socket : \A c \in DOMAIN slots[s] :
        /\ s \in DOMAIN managers /\ managers[s].at = "open"
        /\ c = ChannelOf(c.kind, managers[s].loco)
        /\ slots[s][c].filter = IF c.kind = "alert" THEN managers[s].loco ELSE "all"

\* A slice holds a message of its kind and of the locomotive; what has not reached the page
\* is newer.
ShownIsOldest ==
    selected # None =>
        \A k \in Kind : shown[k] # None =>
            /\ shown[k].kind = k /\ shown[k].loco = selected /\ shown[k].n <= published
            /\ \A i \in DOMAIN inbox[Home(shown[k])] : shown[k].n < inbox[Home(shown[k])][i].n
            /\ \A i \in DOMAIN wire[Current] :
                wire[Current][i].kind = k => shown[k].n < wire[Current][i].n
            /\ Home(shown[k]) \in DOMAIN slots[Current] =>
                \A i \in DOMAIN slots[Current][Home(shown[k])].queue :
                    shown[k].n < slots[Current][Home(shown[k])].queue[i].n

\* ShownIsOldest, of one message.
IsOldest(message, kind, loco, count, inboxes, frames, mine) ==
    LET h == Home(message) IN
    /\ message.kind = kind /\ message.loco = loco /\ message.n <= count
    /\ \A i \in DOMAIN inboxes[h] : message.n < inboxes[h][i].n
    /\ \A i \in DOMAIN frames : frames[i].kind = kind => message.n < frames[i].n
    /\ h \in DOMAIN mine => \A i \in DOMAIN mine[h].queue : message.n < mine[h].queue[i].n

LEMMA ShownByOldest ==
    ShownIsOldest' <=>
        (selected' # None => \A k \in Kind : shown'[k] # None =>
            IsOldest(shown'[k], k, selected', published', inbox', wire'[Current'], slots'[Current']))
BY DEF ShownIsOldest, IsOldest, Home

\* The newest message of a slot is in its queue, on the wire or on the page.
NewestIsSomewhere ==
    selected # None =>
        \A c \in DOMAIN slots[Current] :
            LET slot == slots[Current][c] IN
            slot.newest > 0 =>
                \/ \E i \in DOMAIN slot.queue : slot.queue[i].n = slot.newest
                \/ \E i \in DOMAIN wire[Current] :
                    wire[Current][i].kind = c.kind /\ wire[Current][i].n = slot.newest
                \/ shown[c.kind] # None /\ shown[c.kind].n = slot.newest

\* The ticket of an open socket is used, that of a handshake has been issued.
TicketsAreIssued ==
    \A m \in DOMAIN managers :
        /\ managers[m].at \in {"handshake", "open"} => managers[m].ticket \in 1..issued
        /\ managers[m].at = "open" => managers[m].ticket \notin stored

PageInv ==
    /\ LastIsMounted /\ SlotsAreOpen /\ ShownIsOldest /\ NewestIsSomewhere
    /\ TicketsAreIssued /\ TicketAdmitsOnce

Inv == TypeOK /\ RelayInv /\ PageInv

-----------------------------------------------------------------------------
(* Sequences, slots and channels.                                          *)

LEMMA TailFacts ==
    ASSUME NEW S, NEW seq \in Seq(S), seq # <<>>
    PROVE  /\ Head(seq) = seq[1] /\ Head(seq) \in S /\ 1 \in DOMAIN seq
           /\ Tail(seq) \in Seq(S) /\ Len(Tail(seq)) = Len(seq) - 1
           /\ \A i \in DOMAIN Tail(seq) : i + 1 \in DOMAIN seq /\ Tail(seq)[i] = seq[i + 1]
           /\ \A i \in DOMAIN seq : i # 1 => i - 1 \in DOMAIN Tail(seq) /\ Tail(seq)[i - 1] = seq[i]
           /\ DOMAIN seq \subseteq Nat /\ DOMAIN Tail(seq) \subseteq Nat
BY HeadTailProperties, LenProperties

LEMMA AppendFacts ==
    ASSUME NEW S, NEW seq \in Seq(S), NEW e \in S
    PROVE  /\ Append(seq, e) \in Seq(S) /\ Len(Append(seq, e)) = Len(seq) + 1
           /\ Append(seq, e) # <<>>
           /\ Len(seq) + 1 \in DOMAIN Append(seq, e) /\ Append(seq, e)[Len(seq) + 1] = e
           /\ \A i \in DOMAIN Append(seq, e) :
                i = Len(seq) + 1 \/ (i \in DOMAIN seq /\ Append(seq, e)[i] = seq[i])
           /\ \A i \in DOMAIN seq : i \in DOMAIN Append(seq, e) /\ Append(seq, e)[i] = seq[i]
           /\ DOMAIN seq = 1..Len(seq) /\ DOMAIN Append(seq, e) = 1..Len(seq) + 1
<1> DEFINE longer == Append(seq, e)
<1>1. Len(seq) \in Nat /\ DOMAIN seq = 1..Len(seq)
  BY LenProperties
<1>2. /\ longer \in Seq(S) /\ longer # <<>>
      /\ Len(longer) = Len(seq) + 1 /\ longer[Len(seq) + 1] = e
      /\ \A i \in 1..Len(seq) : longer[i] = seq[i]
  BY AppendProperties
<1>3. DOMAIN longer = 1..Len(seq) + 1
  BY <1>2, LenProperties
<1>4. /\ longer \in Seq(S) /\ Len(longer) = Len(seq) + 1 /\ longer # <<>>
      /\ Len(seq) + 1 \in DOMAIN longer /\ longer[Len(seq) + 1] = e
      /\ \A i \in DOMAIN longer : i = Len(seq) + 1 \/ (i \in DOMAIN seq /\ longer[i] = seq[i])
      /\ \A i \in DOMAIN seq : i \in DOMAIN longer /\ longer[i] = seq[i]
      /\ DOMAIN seq = 1..Len(seq) /\ DOMAIN longer = 1..Len(seq) + 1
  <2> HIDE DEF longer
  <2> QED
    BY <1>1, <1>2, <1>3
<1> QED
  BY <1>4

\* A sequence whose elements are rewritten in place.
LEMMA Rewritten ==
    ASSUME NEW S, NEW seq \in Seq(S), NEW f \in [DOMAIN seq -> S]
    PROVE  f \in Seq(S) /\ Len(f) = Len(seq) /\ DOMAIN f = DOMAIN seq
BY LenProperties, IsASeq

LEMMA MessageFacts ==
    ASSUME NEW message \in Message
    PROVE  message.kind \in Kind /\ message.loco \in Locomotive /\ message.n \in Nat
BY RelayAssumption DEF Message

LEMMA AscendingTail ==
    ASSUME NEW seq \in Seq(Message), seq # <<>>, Ascending(seq)
    PROVE  /\ Ascending(Tail(seq))
           /\ \A i \in DOMAIN Tail(seq) : Tail(seq)[i].kind = Head(seq).kind =>
                    Head(seq).n < Tail(seq)[i].n
<1>1. ASSUME NEW i \in DOMAIN Tail(seq)
      PROVE  i + 1 \in DOMAIN seq /\ Tail(seq)[i] = seq[i + 1] /\ i \in Nat /\ 1 < i + 1
  <2>1. DOMAIN Tail(seq) = 1..Len(Tail(seq)) /\ Len(Tail(seq)) \in Nat
    BY TailFacts, LenProperties
  <2> QED
    BY <2>1, TailFacts
<1>2. Head(seq) = seq[1] /\ 1 \in DOMAIN seq
  BY TailFacts
<1> QED
  BY <1>1, <1>2 DEF Ascending

LEMMA AscendingAppend ==
    ASSUME NEW seq \in Seq(Message), NEW e \in Message, Ascending(seq),
           \A i \in DOMAIN seq : seq[i].kind = e.kind => seq[i].n < e.n
    PROVE  Ascending(Append(seq, e))
<1> SUFFICES ASSUME NEW i \in DOMAIN Append(seq, e), NEW j \in DOMAIN Append(seq, e), i < j,
                    Append(seq, e)[i].kind = Append(seq, e)[j].kind
             PROVE  Append(seq, e)[i].n < Append(seq, e)[j].n
  BY DEF Ascending
<1>1. i \in DOMAIN seq /\ Append(seq, e)[i] = seq[i]
  BY AppendFacts, LenProperties
<1>2. CASE j = Len(seq) + 1
  BY <1>1, <1>2, AppendFacts
<1>3. CASE j # Len(seq) + 1
  BY <1>1, <1>3, AppendFacts DEF Ascending
<1> QED
  BY <1>2, <1>3

LEMMA SlotFacts ==
    ASSUME RelayTypeOK, NEW s \in Socket, NEW c \in DOMAIN slots[s]
    PROVE  /\ c \in Channel /\ slots[s][c] \in Slot
           /\ slots[s][c].queue \in Seq(Message) /\ slots[s][c].newest \in Nat
           /\ Len(slots[s][c].queue) <= QueueMax
BY RelayAssumption DEF RelayTypeOK, Slot

LEMMA HomeFacts ==
    ASSUME NEW k \in Kind, NEW l \in Locomotive
    PROVE  /\ ChannelOf(k, l) \in Channel /\ ChannelOf(k, l).kind = k
           /\ k # "alert" => ChannelOf(k, l).of = l
BY DEF ChannelOf, Channel

LEMMA HomeOfMessage ==
    ASSUME NEW message \in Message
    PROVE  /\ Home(message) \in Channel /\ Home(message).kind = message.kind
           /\ message.kind # "alert" => Home(message).of = message.loco
BY MessageFacts, HomeFacts DEF Home

LEMMA QueuedFacts ==
    ASSUME NEW queue \in Seq(Message), NEW message \in Message, Len(queue) <= QueueMax
    PROVE  /\ Queued(queue, message) \in Seq(Message) /\ Len(Queued(queue, message)) <= QueueMax
           /\ \E i \in DOMAIN Queued(queue, message) : Queued(queue, message)[i] = message
           /\ \A i \in DOMAIN Queued(queue, message) :
                \/ Queued(queue, message)[i] = message
                \/ \E j \in DOMAIN queue : queue[j] = Queued(queue, message)[i]
           /\ (Ascending(queue) /\ \A i \in DOMAIN queue : queue[i].n < message.n)
                    => Ascending(Queued(queue, message))
<1>1. CASE Len(queue) < QueueMax
  <2>1. Queued(queue, message) = Append(queue, message)
    BY <1>1, LenProperties, RelayAssumption DEF Queued
  <2> QED
    BY <1>1, <2>1, AppendFacts, AscendingAppend, LenProperties, RelayAssumption
<1>2. CASE Len(queue) = QueueMax
  <2>1. Queued(queue, message) = Append(Tail(queue), message) /\ queue # <<>>
    BY <1>2, LenProperties, EmptySeq, RelayAssumption DEF Queued
  <2>2. /\ Tail(queue) \in Seq(Message) /\ Len(Tail(queue)) = Len(queue) - 1
        /\ \A i \in DOMAIN Tail(queue) : i + 1 \in DOMAIN queue /\ Tail(queue)[i] = queue[i + 1]
    BY <2>1, TailFacts
  <2>3. Ascending(queue) => Ascending(Tail(queue))
    BY <2>1, AscendingTail
  <2>4. /\ Append(Tail(queue), message) \in Seq(Message)
        /\ Len(Append(Tail(queue), message)) <= QueueMax
    BY <1>2, <2>2, AppendFacts, LenProperties, RelayAssumption
  <2>5. \E i \in DOMAIN Append(Tail(queue), message) : Append(Tail(queue), message)[i] = message
    BY <2>2, AppendFacts
  <2>6. ASSUME NEW i \in DOMAIN Append(Tail(queue), message)
        PROVE  \/ Append(Tail(queue), message)[i] = message
               \/ \E j \in DOMAIN queue : queue[j] = Append(Tail(queue), message)[i]
    BY <2>2, AppendFacts
  <2>7. ASSUME Ascending(queue), \A i \in DOMAIN queue : queue[i].n < message.n
        PROVE  Ascending(Append(Tail(queue), message))
    BY <2>2, <2>3, <2>7, AscendingAppend
  <2> QED
    BY <2>1, <2>4, <2>5, <2>6, <2>7
<1> QED
  BY <1>1, <1>2, LenProperties, RelayAssumption

-----------------------------------------------------------------------------
(* Every operation of the relays keeps their invariant.                    *)

LEMMA PublishKeeps ==
    ASSUME RelayInv, NEW k \in Kind, NEW l \in Locomotive, Publish(k, l)
    PROVE  /\ RelayInv' /\ published' = published + 1 /\ published \in Nat
           /\ \A c \in Channel : \A i \in DOMAIN inbox'[c] :
                inbox'[c][i].n > published \/ (i \in DOMAIN inbox[c] /\ inbox'[c][i] = inbox[c][i])
<1> DEFINE c0 == ChannelOf(k, l)
           message == [kind |-> k, loco |-> l, n |-> published + 1]
<1>1. c0 \in Channel
  BY HomeFacts
<1>2. /\ published \in Nat /\ published' = published + 1 /\ published' \in 0..MaxMessages
      /\ message \in Message /\ Home(message) = c0
  BY RelayAssumption DEF RelayInv, RelayTypeOK, Publish, Message, Home
<1>3. \A c \in Channel :
        \/ inbox'[c] = inbox[c]
        \/ c = c0 /\ inbox'[c] = Append(inbox[c], message)
  BY <1>1 DEF RelayInv, RelayTypeOK, Publish
<1> HIDE DEF c0, message
<1>4. message.n = published + 1 /\ message.kind = k
  BY DEF message
<1>5. \A c \in Channel : inbox[c] \in Seq(Message)
  BY DEF RelayInv, RelayTypeOK
<1>6. inbox' \in [Channel -> Seq(Message)]
  <2>1. inbox' = inbox \/ inbox' = [inbox EXCEPT ![c0] = Append(@, message)]
    BY DEF Publish, c0, message
  <2>2. Append(inbox[c0], message) \in Seq(Message)
    BY <1>1, <1>2, <1>5, AppendFacts
  <2> QED
    BY <1>1, <2>1, <2>2 DEF RelayInv, RelayTypeOK
<1>7. RelayTypeOK'
  BY <1>2, <1>6 DEF RelayInv, RelayTypeOK, Publish
<1>8. ASSUME NEW c \in Channel, NEW i \in DOMAIN inbox'[c]
      PROVE  \/ inbox'[c][i] = message /\ c = c0
             \/ i \in DOMAIN inbox[c] /\ inbox'[c][i] = inbox[c][i]
  BY <1>2, <1>3, <1>5, <1>8, AppendFacts
<1>9. InboxInOrder'
  <2> SUFFICES ASSUME NEW c \in Channel
               PROVE  /\ \A i \in DOMAIN inbox'[c] :
                            Home(inbox'[c][i]) = c /\ inbox'[c][i].n <= published'
                      /\ Ascending(inbox'[c])
    BY DEF InboxInOrder, Home
  <2>1. \A i \in DOMAIN inbox[c] : inbox[c][i].n <= published /\ inbox[c][i].n \in Nat
    <3>1. \A i \in DOMAIN inbox[c] : inbox[c][i] \in Message
      BY <1>5, ElementOfSeq, LenProperties
    <3> QED
      BY <3>1, MessageFacts DEF RelayInv, InboxInOrder
  <2>2. \A i \in DOMAIN inbox'[c] : Home(inbox'[c][i]) = c /\ inbox'[c][i].n <= published'
    BY <1>2, <1>4, <1>8, <2>1 DEF RelayInv, InboxInOrder
  <2>3. Ascending(inbox'[c])
    <3>1. Ascending(inbox[c]) /\ \A i \in DOMAIN inbox[c] : inbox[c][i].n < message.n
      BY <1>2, <1>4, <2>1 DEF RelayInv, InboxInOrder
    <3> QED
      BY <1>2, <1>3, <1>5, <3>1, AscendingAppend
  <2> QED
    BY <2>2, <2>3
<1>10. QueueInOrder'
  <2> SUFFICES ASSUME NEW s \in Socket, NEW c \in DOMAIN slots[s]
               PROVE  /\ slots[s][c].newest <= published'
                      /\ \A i \in DOMAIN inbox'[c] : slots[s][c].newest < inbox'[c][i].n
    BY DEF QueueInOrder, RelayInv, Publish, Home, Passes
  <2>1. c \in Channel /\ slots[s][c].newest \in Nat /\ slots[s][c].newest <= published
    BY SlotFacts DEF RelayInv, QueueInOrder
  <2> QED
    BY <1>2, <1>4, <1>8, <2>1 DEF RelayInv, QueueInOrder
<1>11. WireInOrder'
  <2>1. slots' = slots /\ wire' = wire
    BY DEF Publish
  <2> QED
    BY <2>1, WireByFrames, Zenon DEF RelayInv
<1>12. OneSlotPerKind'
  BY DEF RelayInv, OneSlotPerKind, Publish
<1> QED
  BY <1>2, <1>4, <1>7, <1>8, <1>9, <1>10, <1>11, <1>12 DEF RelayInv

\* The state of a listener changes, and its subscription may be lost.
LEMMA ListenerKeeps ==
    ASSUME RelayInv, NEW c \in Channel, Subscribed(c) \/ BackoffOver(c) \/ RelayError(c)
    PROVE  /\ RelayInv' /\ UNCHANGED <<published, slots, wire>>
           /\ \A d \in Channel : inbox'[d] \in {inbox[d], <<>>}
<1>1. UNCHANGED <<published, slots, wire>>
  BY DEF Subscribed, BackoffOver, RelayError
<1>2. inbox' = inbox \/ inbox' = [inbox EXCEPT ![c] = <<>>]
  BY DEF Subscribed, BackoffOver, RelayError
<1>3. inbox' \in [Channel -> Seq(Message)] /\ \A d \in Channel : inbox'[d] \in {inbox[d], <<>>}
  BY <1>2, EmptySeq DEF RelayInv, RelayTypeOK
<1>4. relay' \in [Channel -> {"none", "joining", "listening", "backoff"}]
  BY DEF Subscribed, BackoffOver, RelayError, RelayInv, RelayTypeOK
<1>5. RelayTypeOK'
  BY <1>1, <1>3, <1>4 DEF RelayInv, RelayTypeOK
<1>6. DOMAIN <<>> = {}
  OBVIOUS
<1>7. InboxInOrder'
  BY <1>1, <1>3, <1>6 DEF RelayInv, InboxInOrder, Ascending, Home
<1>8. QueueInOrder'
  BY <1>1, <1>3, <1>6, SlotFacts DEF RelayInv, QueueInOrder, Ascending, Home, Passes
<1>9. WireInOrder'
  BY <1>1, WireByFrames, Zenon DEF RelayInv
<1>10. OneSlotPerKind'
  BY <1>1 DEF RelayInv, OneSlotPerKind
<1> QED
  BY <1>1, <1>3, <1>5, <1>7, <1>8, <1>9, <1>10 DEF RelayInv

\* What a message does to the slot `slot` becomes, if it is one of the channel's that it passes.
Takes(slot, new, message) ==
    new = [queue |-> Queued(slot.queue, message), filter |-> slot.filter, newest |-> message.n]

LEMMA TakesFacts ==
    ASSUME NEW slot, NEW new, NEW message, Takes(slot, new, message)
    PROVE  /\ new.queue = Queued(slot.queue, message) /\ new.filter = slot.filter
           /\ new.newest = message.n
BY DEF Takes

LEMMA FanOutTakes ==
    ASSUME RelayTypeOK, NEW c \in Channel, FanOut(c)
    PROVE  /\ DOMAIN slots' = Socket
           /\ \A s \in Socket : DOMAIN slots'[s] = DOMAIN slots[s]
           /\ \A s \in Socket : \A d \in DOMAIN slots[s] :
                IF d = c /\ Passes(slots[s][d], Head(inbox[c]))
                THEN Takes(slots[s][d], slots'[s][d], Head(inbox[c]))
                ELSE slots'[s][d] = slots[s][d]
<1> DEFINE message == Head(inbox[c])
           reaches(s) == c \in DOMAIN slots[s] /\ Passes(slots[s][c], message)
           reached(s) == [slots[s] EXCEPT ![c].queue = Queued(@, message), ![c].newest = message.n]
<1>1. slots' = [s \in Socket |-> IF reaches(s) THEN reached(s) ELSE slots[s]]
  BY DEF FanOut
<1>2. ASSUME NEW s \in Socket, reaches(s)
      PROVE  /\ DOMAIN reached(s) = DOMAIN slots[s]
             /\ Takes(slots[s][c], reached(s)[c], message)
             /\ \A d \in DOMAIN slots[s] : d # c => reached(s)[d] = slots[s][d]
  <2>1. slots[s][c] \in Slot
    BY <1>2, SlotFacts
  <2> QED
    BY <1>2, <2>1 DEF Takes, Slot
<1> HIDE DEF reached
<1> QED
  BY <1>1, <1>2

LEMMA FanOutKeeps ==
    ASSUME RelayInv, NEW c \in Channel, FanOut(c)
    PROVE  /\ RelayInv' /\ UNCHANGED <<published, wire>>
           /\ inbox[c] # <<>> /\ Head(inbox[c]) \in Message /\ Home(Head(inbox[c])) = c
           /\ \A d \in Channel : \A i \in DOMAIN inbox'[d] :
                \E j \in DOMAIN inbox[d] : inbox'[d][i] = inbox[d][j]
           /\ \E i \in DOMAIN inbox[c] : Head(inbox[c]) = inbox[c][i]
<1> DEFINE message == Head(inbox[c])
<1>1. UNCHANGED <<published, relay, wire>> /\ inbox[c] # <<>>
  BY DEF FanOut
<1>2. inbox' = [inbox EXCEPT ![c] = Tail(@)] /\ inbox[c] \in Seq(Message)
  BY DEF FanOut, RelayInv, RelayTypeOK
<1>3. /\ message \in Message /\ message = inbox[c][1] /\ 1 \in DOMAIN inbox[c]
      /\ Tail(inbox[c]) \in Seq(Message)
      /\ \A i \in DOMAIN Tail(inbox[c]) :
            i + 1 \in DOMAIN inbox[c] /\ Tail(inbox[c])[i] = inbox[c][i + 1]
  BY <1>1, <1>2, TailFacts
<1>4. Home(message) = c /\ message.n <= published /\ message.n \in 1..MaxMessages
  BY <1>3 DEF RelayInv, InboxInOrder, Message
<1>5. inbox' \in [Channel -> Seq(Message)]
  BY <1>2, <1>3 DEF RelayInv, RelayTypeOK
<1>6. /\ \A d \in Channel : d # c => inbox'[d] = inbox[d]
      /\ inbox'[c] = Tail(inbox[c])
  BY <1>2 DEF RelayInv, RelayTypeOK
<1>7. Ascending(inbox'[c]) /\ \A i \in DOMAIN inbox'[c] : message.n < inbox'[c][i].n
  <2>1. Ascending(inbox[c])
    BY DEF RelayInv, InboxInOrder
  <2>2. \A i \in DOMAIN Tail(inbox[c]) : Tail(inbox[c])[i] \in Message /\ Home(Tail(inbox[c])[i]) = c
    <3>1. \A i \in DOMAIN inbox[c] : inbox[c][i] \in Message /\ Home(inbox[c][i]) = c
      BY <1>2, ElementOfSeq, LenProperties DEF RelayInv, InboxInOrder
    <3> QED
      BY <1>3, <3>1
  <2>3. \A i \in DOMAIN Tail(inbox[c]) : Tail(inbox[c])[i].kind = message.kind
    BY <1>3, <1>4, <2>2, HomeOfMessage
  <2> QED
    BY <1>1, <1>2, <1>6, <2>1, <2>3, AscendingTail
<1>8. \A d \in Channel : \A i \in DOMAIN inbox'[d] :
            \E j \in DOMAIN inbox[d] : inbox'[d][i] = inbox[d][j]
  <2> SUFFICES ASSUME NEW d \in Channel, NEW i \in DOMAIN inbox'[d]
               PROVE  \E j \in DOMAIN inbox[d] : inbox'[d][i] = inbox[d][j]
    OBVIOUS
  <2>1. CASE d = c
    BY <1>3, <1>6, <2>1
  <2>2. CASE d # c
    BY <1>6, <2>2
  <2> QED
    BY <2>1, <2>2
<1>9. InboxInOrder'
  <2>1. \A d \in Channel : Ascending(inbox'[d])
    BY <1>6, <1>7 DEF RelayInv, InboxInOrder
  <2>2. ASSUME NEW d \in Channel, NEW i \in DOMAIN inbox'[d]
        PROVE  Home(inbox'[d][i]) = d /\ inbox'[d][i].n <= published'
    BY <1>1, <1>8 DEF RelayInv, InboxInOrder
  <2>3. \A seq : Ascending(seq)' <=> Ascending(seq)
    BY DEF Ascending
  <2> QED
    BY <2>1, <2>2 DEF InboxInOrder, Home, Ascending
<1>10. /\ DOMAIN slots' = Socket
       /\ \A s \in Socket : DOMAIN slots'[s] = DOMAIN slots[s]
       /\ \A s \in Socket : \A d \in DOMAIN slots[s] :
            \/ d = c /\ Takes(slots[s][d], slots'[s][d], message) /\ Passes(slots[s][d], message)
            \/ slots'[s][d] = slots[s][d] /\ (d = c => ~Passes(slots[s][d], message))
  BY FanOutTakes DEF RelayInv
<1> HIDE DEF message
<1>11. RelayTypeOK'
  <2>1. ASSUME NEW s \in Socket, NEW d \in DOMAIN slots'[s]
        PROVE  d \in Channel /\ slots'[s][d] \in Slot /\ Len(slots'[s][d].queue) <= QueueMax
    <3>1. /\ d \in DOMAIN slots[s] /\ d \in Channel /\ slots[s][d] \in Slot
          /\ slots[s][d].queue \in Seq(Message) /\ Len(slots[s][d].queue) <= QueueMax
      BY <1>10, <2>1, SlotFacts DEF RelayInv
    <3>2. CASE Takes(slots[s][d], slots'[s][d], message)
      <4>1. /\ Queued(slots[s][d].queue, message) \in Seq(Message)
            /\ Len(Queued(slots[s][d].queue, message)) <= QueueMax
        BY <1>3, <3>1, QueuedFacts
      <4> QED
        BY <1>4, <3>1, <3>2, <4>1 DEF Takes, Slot
    <3> QED
      BY <1>10, <3>1, <3>2
  <2> QED
    BY <1>1, <1>5, <1>10, <2>1 DEF RelayInv, RelayTypeOK
<1>12. QueueInOrder'
  <2> SUFFICES ASSUME NEW s \in Socket, NEW d \in DOMAIN slots[s]
               PROVE  LET new == slots'[s][d] IN
                      /\ new.newest <= published'
                      /\ \A i \in DOMAIN inbox'[d] : new.newest < inbox'[d][i].n
                      /\ \A i \in DOMAIN new.queue :
                            /\ Home(new.queue[i]) = d /\ Passes(new, new.queue[i])
                            /\ new.queue[i].n <= new.newest
                      /\ Ascending(new.queue)
    BY <1>10 DEF QueueInOrder, Home, Passes, Ascending
  <2>1. /\ d \in Channel /\ slots[s][d].newest \in Nat /\ slots[s][d].queue \in Seq(Message)
        /\ Len(slots[s][d].queue) <= QueueMax
    BY SlotFacts DEF RelayInv
  <2>2. /\ slots[s][d].newest <= published
        /\ \A i \in DOMAIN inbox[d] : slots[s][d].newest < inbox[d][i].n
        /\ \A i \in DOMAIN slots[s][d].queue :
            /\ Home(slots[s][d].queue[i]) = d /\ Passes(slots[s][d], slots[s][d].queue[i])
            /\ slots[s][d].queue[i].n <= slots[s][d].newest
        /\ Ascending(slots[s][d].queue)
    BY DEF RelayInv, QueueInOrder
  <2>3. CASE slots'[s][d] = slots[s][d]
    <3>1. \A i \in DOMAIN inbox'[d] : slots[s][d].newest < inbox'[d][i].n
      BY <1>8, <2>1, <2>2
    <3> QED
      BY <1>1, <2>2, <2>3, <3>1
  <2>4. CASE d = c /\ Takes(slots[s][d], slots'[s][d], message) /\ Passes(slots[s][d], message)
    <3> DEFINE queue == slots[s][d].queue
               new == slots'[s][d]
    <3>1. \A i \in DOMAIN queue : queue[i] \in Message /\ queue[i].n \in Nat
      BY <2>1, ElementOfSeq, LenProperties, MessageFacts
    <3>2. \A i \in DOMAIN queue : queue[i].n < message.n
      BY <1>3, <1>4, <2>1, <2>2, <2>4, <3>1
    <3>3. /\ new.queue = Queued(queue, message) /\ new.newest = message.n
          /\ new.filter = slots[s][d].filter
      BY <2>4 DEF Takes
    <3>4. Ascending(new.queue)
      BY <1>3, <2>1, <2>2, <3>2, <3>3, QueuedFacts
    <3>5. ASSUME NEW i \in DOMAIN new.queue
          PROVE  /\ Home(new.queue[i]) = d /\ Passes(new, new.queue[i])
                 /\ new.queue[i].n <= new.newest
      <4>1. new.queue[i] = message \/ \E j \in DOMAIN queue : queue[j] = new.queue[i]
        BY <1>3, <2>1, <3>3, <3>5, QueuedFacts
      <4> QED
        BY <1>4, <2>2, <2>4, <3>1, <3>2, <3>3, <4>1 DEF Passes
    <3> QED
      BY <1>1, <1>4, <1>7, <2>4, <3>3, <3>4, <3>5
  <2> QED
    BY <1>10, <2>3, <2>4
<1>13. WireInOrder'
  <2>1. wire' = wire
    BY <1>1
  <2> SUFFICES ASSUME NEW s \in Socket, NEW i \in DOMAIN wire[s]
               PROVE  /\ Home(wire[s][i]) \in DOMAIN slots'[s]
                      /\ LET new == slots'[s][Home(wire[s][i])] IN
                         /\ Passes(new, wire[s][i]) /\ wire[s][i].n <= new.newest
                         /\ \A j \in DOMAIN new.queue : wire[s][i].n < new.queue[j].n
    BY <2>1, WireByFrames, Zenon DEF RelayInv, FramesInOrder
  <2> DEFINE frame == wire[s][i]
             d == Home(frame)
  <2>2. /\ d \in DOMAIN slots[s] /\ Passes(slots[s][d], frame)
        /\ frame.n <= slots[s][d].newest
        /\ \A j \in DOMAIN slots[s][d].queue : frame.n < slots[s][d].queue[j].n
    BY DEF RelayInv, WireInOrder
  <2>3. /\ d \in Channel /\ slots[s][d].newest \in Nat /\ slots[s][d].queue \in Seq(Message)
        /\ Len(slots[s][d].queue) <= QueueMax
    BY <2>2, SlotFacts DEF RelayInv
  <2>4. CASE Takes(slots[s][d], slots'[s][d], message) /\ d = c
    <3>1. frame \in Message
      BY ElementOfSeq, LenProperties DEF RelayInv, RelayTypeOK
    <3>2. slots[s][d].newest < message.n
      BY <1>3, <2>2, <2>4 DEF RelayInv, QueueInOrder
    <3>3. frame.n \in Nat /\ frame.n < message.n
      BY <1>4, <2>2, <2>3, <3>1, <3>2, MessageFacts
    <3>4. \A j \in DOMAIN slots'[s][d].queue : frame.n < slots'[s][d].queue[j].n
      <4>1. \A j \in DOMAIN slots'[s][d].queue :
                \/ slots'[s][d].queue[j] = message
                \/ \E x \in DOMAIN slots[s][d].queue : slots[s][d].queue[x] = slots'[s][d].queue[j]
        BY <1>3, <2>3, <2>4, QueuedFacts DEF Takes
      <4> QED
        BY <2>2, <3>3, <4>1
    <3> HIDE DEF frame, d
    <3>5. slots'[s][d].newest = message.n /\ slots'[s][d].filter = slots[s][d].filter
      BY <2>4 DEF Takes
    <3>6. d \in DOMAIN slots'[s]
      BY <1>10, <2>2
    <3>7. Passes(slots'[s][d], frame)
      BY <2>2, <3>5 DEF Passes
    <3>8. frame.n <= slots'[s][d].newest
      BY <1>4, <3>3, <3>5
    <3> QED
      BY <3>4, <3>6, <3>7, <3>8, Zenon DEF frame, d
  <2>5. CASE slots'[s][d] = slots[s][d]
    BY <1>10, <2>2, <2>5
  <2> QED
    BY <1>10, <2>2, <2>4, <2>5
<1>14. OneSlotPerKind'
  BY <1>10 DEF RelayInv, OneSlotPerKind
<1> QED
  BY <1>1, <1>3, <1>4, <1>8, <1>9, <1>11, <1>12, <1>13, <1>14 DEF RelayInv, message

\* The sender of the slot for c takes the first frame of its queue.
Sends(s, c) ==
    /\ Len(wire[s]) < WireMax /\ slots[s][c].queue # <<>>
    /\ wire' = [wire EXCEPT ![s] = Append(@, Head(slots[s][c].queue))]
    /\ DOMAIN slots' = Socket
    /\ \A r \in Socket : DOMAIN slots'[r] = DOMAIN slots[r]
    /\ \A r \in Socket : \A d \in DOMAIN slots[r] :
        slots'[r][d] = IF r = s /\ d = c
                       THEN [queue |-> Tail(slots[s][c].queue), filter |-> slots[s][c].filter,
                             newest |-> slots[s][c].newest]
                       ELSE slots[r][d]
    /\ UNCHANGED <<published, relay, inbox>>

LEMMA SendFrameSends ==
    ASSUME RelayTypeOK, NEW s \in Socket, SendFrame(s)
    PROVE  \E c \in DOMAIN slots[s] : Sends(s, c)
<1> PICK c \in DOMAIN slots[s] :
        /\ slots[s][c].queue # <<>>
        /\ wire' = [wire EXCEPT ![s] = Append(@, Head(slots[s][c].queue))]
        /\ slots' = [slots EXCEPT ![s][c].queue = Tail(@)]
  BY DEF SendFrame
<1>1. slots[s][c] \in Slot
  BY SlotFacts
<1> DEFINE shorter == [slots[s][c] EXCEPT !.queue = Tail(@)]
           sent == [slots[s] EXCEPT ![c] = shorter]
<1>2. shorter = [queue |-> Tail(slots[s][c].queue), filter |-> slots[s][c].filter,
                 newest |-> slots[s][c].newest]
  <2>1. ASSUME NEW slot \in Slot, NEW q
        PROVE  [slot EXCEPT !.queue = q] =
                    [queue |-> q, filter |-> slot.filter, newest |-> slot.newest]
    BY DEF Slot
  <2> QED
    BY <1>1, <2>1
<1>3. slots' = [slots EXCEPT ![s] = sent]
  OBVIOUS
<1>4. DOMAIN sent = DOMAIN slots[s] /\ sent[c] = shorter
      /\ \A d \in DOMAIN slots[s] : d # c => sent[d] = slots[s][d]
  <2> HIDE DEF shorter
  <2> QED
    OBVIOUS
<1> HIDE DEF sent
<1>5. /\ DOMAIN slots' = Socket /\ slots'[s] = sent
      /\ \A r \in Socket : r # s => slots'[r] = slots[r]
  BY <1>3 DEF RelayTypeOK
<1> HIDE DEF shorter
<1>6. Sends(s, c)
  BY <1>2, <1>4, <1>5 DEF Sends, SendFrame
<1> QED
  BY <1>6

LEMMA SendsKeeps ==
    ASSUME RelayInv, NEW s \in Socket, NEW c \in DOMAIN slots[s], Sends(s, c)
    PROVE  RelayInv'
<1> DEFINE queue == slots[s][c].queue
           frame == Head(queue)
<1>1. UNCHANGED <<published, relay, inbox>>
  BY DEF Sends
<1>2. /\ c \in Channel /\ queue \in Seq(Message) /\ slots[s][c].newest \in Nat
      /\ queue # <<>> /\ Len(queue) <= QueueMax /\ slots[s][c] \in Slot
  BY SlotFacts DEF RelayInv, Sends
<1>3. /\ frame = queue[1] /\ frame \in Message /\ 1 \in DOMAIN queue
      /\ Tail(queue) \in Seq(Message) /\ Len(Tail(queue)) = Len(queue) - 1
      /\ \A i \in DOMAIN Tail(queue) : i + 1 \in DOMAIN queue /\ Tail(queue)[i] = queue[i + 1]
  BY <1>2, TailFacts
<1>4. /\ Home(frame) = c /\ Passes(slots[s][c], frame) /\ frame.n <= slots[s][c].newest
      /\ Ascending(queue)
      /\ \A i \in DOMAIN queue : Home(queue[i]) = c /\ queue[i] \in Message
  BY <1>2, <1>3, ElementOfSeq, LenProperties DEF RelayInv, QueueInOrder
<1>5. Ascending(Tail(queue)) /\ \A i \in DOMAIN Tail(queue) : frame.n < Tail(queue)[i].n
  BY <1>2, <1>3, <1>4, AscendingTail, HomeOfMessage, SMTT(30)
<1>6. /\ DOMAIN slots' = Socket
      /\ \A r \in Socket : DOMAIN slots'[r] = DOMAIN slots[r]
      /\ \A r \in Socket : \A d \in DOMAIN slots[r] :
            \/ r = s /\ d = c /\ slots'[r][d] = [queue |-> Tail(queue), filter |-> slots[s][c].filter,
                                                 newest |-> slots[s][c].newest]
            \/ (r # s \/ d # c) /\ slots'[r][d] = slots[r][d]
  BY DEF Sends
<1>7. wire[s] \in Seq(Message) /\ Append(wire[s], frame) \in Seq(Message)
  BY <1>3, AppendFacts DEF RelayInv, RelayTypeOK
<1>8. /\ wire'[s] = Append(wire[s], frame) /\ \A r \in Socket : r # s => wire'[r] = wire[r]
      /\ wire' \in [Socket -> Seq(Message)]
  BY <1>7 DEF RelayInv, RelayTypeOK, Sends
<1> HIDE DEF frame, queue
<1>9. RelayTypeOK'
  <2>1. ASSUME NEW r \in Socket, NEW d \in DOMAIN slots'[r]
        PROVE  d \in Channel /\ slots'[r][d] \in Slot /\ Len(slots'[r][d].queue) <= QueueMax
    <3>1. /\ d \in DOMAIN slots[r] /\ d \in Channel /\ slots[r][d] \in Slot
          /\ Len(slots[r][d].queue) <= QueueMax
      BY <1>6, <2>1, SlotFacts DEF RelayInv
    <3>2. Len(Tail(queue)) <= QueueMax
      BY <1>2, <1>3, LenProperties, RelayAssumption DEF queue
    <3> QED
      BY <1>2, <1>3, <1>6, <3>1, <3>2, SMTT(30) DEF Slot
  <2>2. \A r \in Socket : Len(wire'[r]) <= WireMax
    BY <1>3, <1>7, <1>8, AppendFacts, LenProperties, RelayAssumption DEF RelayInv, RelayTypeOK, Sends
  <2> QED
    BY <1>1, <1>6, <1>8, <2>1, <2>2 DEF RelayInv, RelayTypeOK
<1>10. InboxInOrder'
  BY <1>1 DEF RelayInv, InboxInOrder, Home, Ascending
<1>11. QueueInOrder'
  <2> SUFFICES ASSUME NEW r \in Socket, NEW d \in DOMAIN slots[r]
               PROVE  LET new == slots'[r][d] IN
                      /\ new.newest <= published
                      /\ \A i \in DOMAIN inbox[d] : new.newest < inbox[d][i].n
                      /\ \A i \in DOMAIN new.queue :
                            /\ Home(new.queue[i]) = d /\ Passes(new, new.queue[i])
                            /\ new.queue[i].n <= new.newest
                      /\ Ascending(new.queue)
    BY <1>1, <1>6 DEF QueueInOrder, Home, Passes, Ascending
  <2>1. /\ slots[r][d].newest <= published
        /\ \A i \in DOMAIN inbox[d] : slots[r][d].newest < inbox[d][i].n
        /\ \A i \in DOMAIN slots[r][d].queue :
            /\ Home(slots[r][d].queue[i]) = d /\ Passes(slots[r][d], slots[r][d].queue[i])
            /\ slots[r][d].queue[i].n <= slots[r][d].newest
        /\ Ascending(slots[r][d].queue)
    BY DEF RelayInv, QueueInOrder
  <2>2. CASE slots'[r][d] = slots[r][d]
    BY <2>1, <2>2
  <2>3. CASE r = s /\ d = c
    <3> DEFINE new == slots'[s][c]
    <3>1. /\ new.queue = Tail(queue) /\ new.filter = slots[s][c].filter
          /\ new.newest = slots[s][c].newest
      BY <1>6
    <3> HIDE DEF new
    <3>2. \A i \in DOMAIN Tail(queue) :
            /\ Home(Tail(queue)[i]) = c /\ Passes(new, Tail(queue)[i])
            /\ Tail(queue)[i].n <= new.newest
      BY <1>3, <2>1, <2>3, <3>1 DEF Passes, queue
    <3>3. /\ new.newest <= published /\ \A i \in DOMAIN inbox[c] : new.newest < inbox[c][i].n
      BY <2>1, <2>3, <3>1
    <3> QED
      BY <1>5, <2>3, <3>1, <3>2, <3>3 DEF new
  <2> QED
    BY <1>6, <2>2, <2>3
<1>12. WireInOrder'
  <2> SUFFICES ASSUME NEW r \in Socket
               PROVE  /\ Ascending(wire'[r])
                      /\ \A i \in DOMAIN wire'[r] :
                         /\ Home(wire'[r][i]) \in DOMAIN slots[r]
                         /\ LET new == slots'[r][Home(wire'[r][i])] IN
                            /\ Passes(new, wire'[r][i]) /\ wire'[r][i].n <= new.newest
                            /\ \A j \in DOMAIN new.queue : wire'[r][i].n < new.queue[j].n
    BY <1>6 DEF WireInOrder, Home, Passes, Ascending
  <2>1. /\ Ascending(wire[r])
        /\ \A i \in DOMAIN wire[r] :
             /\ Home(wire[r][i]) \in DOMAIN slots[r]
             /\ LET slot == slots[r][Home(wire[r][i])] IN
                /\ Passes(slot, wire[r][i]) /\ wire[r][i].n <= slot.newest
                /\ \A j \in DOMAIN slot.queue : wire[r][i].n < slot.queue[j].n
    BY DEF RelayInv, WireInOrder
  <2>2. \A i \in DOMAIN wire[r] : wire[r][i] \in Message
    BY ElementOfSeq, LenProperties DEF RelayInv, RelayTypeOK
  <2>3. ASSUME NEW i \in DOMAIN wire[r]
        PROVE  LET new == slots'[r][Home(wire[r][i])] IN
               /\ Home(wire[r][i]) \in DOMAIN slots[r]
               /\ Passes(new, wire[r][i]) /\ wire[r][i].n <= new.newest
               /\ \A j \in DOMAIN new.queue : wire[r][i].n < new.queue[j].n
    <3> DEFINE d == Home(wire[r][i])
    <3>1. d \in DOMAIN slots[r]
      BY <2>1
    <3>2. CASE slots'[r][d] = slots[r][d]
      BY <2>1, <3>2
    <3>3. CASE r = s /\ d = c
      <4>1. /\ slots'[r][d].queue = Tail(queue) /\ slots'[r][d].filter = slots[s][c].filter
            /\ slots'[r][d].newest = slots[s][c].newest
        BY <1>6, <3>3
      <4>2. \A j \in DOMAIN Tail(queue) : wire[r][i].n < Tail(queue)[j].n
        BY <1>3, <2>1, <3>3, ZenonT(30) DEF queue
      <4> QED
        BY <2>1, <3>1, <3>3, <4>1, <4>2 DEF Passes
    <3> QED
      BY <1>6, <3>1, <3>2, <3>3
  <2>4. CASE r # s
    BY <1>8, <2>1, <2>3, <2>4
  <2>5. CASE r = s
    <3>1. \A i \in DOMAIN wire'[s] :
            wire'[s][i] = frame \/ (i \in DOMAIN wire[s] /\ wire'[s][i] = wire[s][i])
      BY <1>3, <1>7, <1>8, AppendFacts
    <3>2. ASSUME NEW i \in DOMAIN wire[s], wire[s][i].kind = frame.kind
          PROVE  wire[s][i].n < frame.n
      <4>1. Home(wire[s][i]) = c
        BY <1>3, <1>4, <2>1, <2>2, <2>5, <3>2, HomeOfMessage DEF RelayInv, OneSlotPerKind
      <4> QED
        BY <1>3, <2>1, <2>5, <4>1 DEF queue
    <3>3. Ascending(wire'[s])
      BY <1>3, <1>7, <1>8, <2>1, <2>5, <3>2, AscendingAppend
    <3>4. /\ Home(frame) \in DOMAIN slots[s]
          /\ LET new == slots'[s][Home(frame)] IN
             /\ Passes(new, frame) /\ frame.n <= new.newest
             /\ \A j \in DOMAIN new.queue : frame.n < new.queue[j].n
      <4>1. /\ slots'[s][c].queue = Tail(queue) /\ slots'[s][c].filter = slots[s][c].filter
            /\ slots'[s][c].newest = slots[s][c].newest
        BY <1>6
      <4> QED
        BY <1>4, <1>5, <4>1 DEF Passes
    <3> QED
      BY <2>3, <2>5, <3>1, <3>3, <3>4, ZenonT(30)
  <2> QED
    BY <2>4, <2>5
<1>13. OneSlotPerKind'
  BY <1>6 DEF RelayInv, OneSlotPerKind
<1> QED
  BY <1>9, <1>10, <1>11, <1>12, <1>13 DEF RelayInv

\* The first frame of the wire arrives.
Arrives(s) ==
    /\ wire[s] # <<>>
    /\ wire' = [wire EXCEPT ![s] = Tail(@)]
    /\ UNCHANGED <<published, relay, inbox, slots>>

LEMMA ArrivesKeeps ==
    ASSUME RelayInv, NEW s \in Socket, Arrives(s)
    PROVE  RelayInv'
<1>1. UNCHANGED <<published, relay, inbox, slots>>
  BY DEF Arrives
<1>2. wire[s] \in Seq(Message) /\ wire[s] # <<>>
  BY DEF RelayInv, RelayTypeOK, Arrives
<1>3. /\ Tail(wire[s]) \in Seq(Message) /\ Len(Tail(wire[s])) = Len(wire[s]) - 1
      /\ \A i \in DOMAIN Tail(wire[s]) : i + 1 \in DOMAIN wire[s] /\ Tail(wire[s])[i] = wire[s][i + 1]
  BY <1>2, TailFacts
<1>4. /\ wire'[s] = Tail(wire[s]) /\ \A r \in Socket : r # s => wire'[r] = wire[r]
      /\ wire' \in [Socket -> Seq(Message)]
  BY <1>3 DEF RelayInv, RelayTypeOK, Arrives
<1>5. RelayTypeOK'
  <2>1. ASSUME NEW r \in Socket PROVE Len(wire'[r]) <= WireMax
    <3>1. wire[r] \in Seq(Message) /\ Len(wire[r]) \in Nat /\ Len(wire[r]) <= WireMax
      BY LenProperties DEF RelayInv, RelayTypeOK
    <3>2. WireMax \in Nat
      BY RelayAssumption
    <3>3. CASE r = s
      BY <1>3, <1>4, <3>1, <3>2, <3>3
    <3>4. CASE r # s
      BY <1>4, <3>1, <3>4
    <3> QED
      BY <3>3, <3>4
  <2> QED
    BY <1>1, <1>4, <2>1 DEF RelayInv, RelayTypeOK
<1>6. InboxInOrder' /\ QueueInOrder' /\ OneSlotPerKind'
  BY <1>1 DEF RelayInv, InboxInOrder, QueueInOrder, OneSlotPerKind, Home, Ascending, Passes
<1>7. WireInOrder'
  <2> SUFFICES ASSUME NEW r \in Socket
               PROVE  /\ Ascending(wire'[r])
                      /\ \A i \in DOMAIN wire'[r] :
                         /\ Home(wire'[r][i]) \in DOMAIN slots[r]
                         /\ LET slot == slots[r][Home(wire'[r][i])] IN
                            /\ Passes(slot, wire'[r][i]) /\ wire'[r][i].n <= slot.newest
                            /\ \A j \in DOMAIN slot.queue : wire'[r][i].n < slot.queue[j].n
    BY <1>1 DEF WireInOrder, Home, Passes, Ascending
  <2>1. /\ Ascending(wire[r])
        /\ \A i \in DOMAIN wire[r] :
             /\ Home(wire[r][i]) \in DOMAIN slots[r]
             /\ LET slot == slots[r][Home(wire[r][i])] IN
                /\ Passes(slot, wire[r][i]) /\ wire[r][i].n <= slot.newest
                /\ \A j \in DOMAIN slot.queue : wire[r][i].n < slot.queue[j].n
    BY DEF RelayInv, WireInOrder
  <2>2. Ascending(wire'[r])
    BY <1>2, <1>4, <2>1, AscendingTail
  <2>3. \A i \in DOMAIN wire'[r] : \E j \in DOMAIN wire[r] : wire'[r][i] = wire[r][j]
    <3>1. CASE r = s
      BY <1>3, <1>4, <3>1
    <3>2. CASE r # s
      <4>1. wire'[r] = wire[r]
        BY <1>4, <3>2
      <4> QED
        BY <4>1
    <3> QED
      BY <3>1, <3>2
  <2> QED
    BY <2>1, <2>2, <2>3
<1> QED
  BY <1>5, <1>6, <1>7 DEF RelayInv

LEMMA SubscribeKeeps ==
    ASSUME RelayInv, NEW s \in Socket, NEW l \in Locomotive, Subscribe(s, l)
    PROVE  /\ RelayInv' /\ UNCHANGED <<published, inbox>>
           /\ \A r \in Socket : r # s => slots'[r] = slots[r] /\ wire'[r] = wire[r]
           /\ wire'[s] = <<>>
           /\ DOMAIN slots'[s] \subseteq Channel
           /\ \A c \in DOMAIN slots'[s] :
                /\ c = ChannelOf(c.kind, l)
                /\ slots'[s][c] = [queue |-> <<>>, newest |-> 0,
                                   filter |-> IF c.kind = "alert" THEN l ELSE "all"]
<1> DEFINE channels == {ChannelOf(k, l) : k \in Kind}
           fresh == [c \in channels |-> [queue |-> <<>>, newest |-> 0,
                                         filter |-> IF c.kind = "alert" THEN l ELSE "all"]]
<1>1. /\ slots' = [slots EXCEPT ![s] = fresh] /\ wire' = [wire EXCEPT ![s] = <<>>]
      /\ UNCHANGED <<published, inbox>>
  BY DEF Subscribe
<1>2. \A c \in channels : c \in Channel /\ c = ChannelOf(c.kind, l)
  BY HomeFacts
<1>3. /\ DOMAIN fresh = channels
      /\ \A c \in channels : fresh[c] = [queue |-> <<>>, newest |-> 0,
                                         filter |-> IF c.kind = "alert" THEN l ELSE "all"]
  OBVIOUS
<1> HIDE DEF fresh
<1>4. /\ slots'[s] = fresh /\ DOMAIN slots' = Socket
      /\ \A r \in Socket : r # s => slots'[r] = slots[r]
  BY <1>1 DEF RelayInv, RelayTypeOK
<1>5. /\ wire'[s] = <<>> /\ \A r \in Socket : r # s => wire'[r] = wire[r]
      /\ wire' \in [Socket -> Seq(Message)]
  BY <1>1, EmptySeq DEF RelayInv, RelayTypeOK
<1>6. relay' \in [Channel -> {"none", "joining", "listening", "backoff"}]
  BY DEF Subscribe, RelayInv, RelayTypeOK
<1> HIDE DEF channels
<1>7. DOMAIN <<>> = {} /\ <<>> \in Seq(Message) /\ Len(<<>>) = 0
  BY EmptySeq
<1>8. RelayTypeOK'
  <2>1. ASSUME NEW r \in Socket, NEW d \in DOMAIN slots'[r]
        PROVE  d \in Channel /\ slots'[r][d] \in Slot /\ Len(slots'[r][d].queue) <= QueueMax
    <3>1. CASE r # s
      BY <1>4, <2>1, <3>1, SlotFacts DEF RelayInv
    <3>2. CASE r = s
      <4>1. /\ d \in channels /\ d \in Channel
            /\ slots'[r][d] = [queue |-> <<>>, newest |-> 0,
                               filter |-> IF d.kind = "alert" THEN l ELSE "all"]
        BY <1>2, <1>3, <1>4, <2>1, <3>2
      <4> QED
        BY <1>7, <4>1, RelayAssumption DEF Slot
    <3> QED
      BY <3>1, <3>2
  <2>2. \A r \in Socket : Len(wire'[r]) <= WireMax
    BY <1>5, <1>7, RelayAssumption DEF RelayInv, RelayTypeOK
  <2> QED
    BY <1>1, <1>4, <1>5, <1>6, <2>1, <2>2 DEF RelayInv, RelayTypeOK
<1>9. InboxInOrder'
  BY <1>1 DEF RelayInv, InboxInOrder, Home, Ascending
<1>10. QueueInOrder'
  <2> SUFFICES ASSUME NEW r \in Socket, NEW d \in DOMAIN slots'[r]
               PROVE  LET new == slots'[r][d] IN
                      /\ new.newest <= published
                      /\ \A i \in DOMAIN inbox[d] : new.newest < inbox[d][i].n
                      /\ \A i \in DOMAIN new.queue :
                            /\ Home(new.queue[i]) = d /\ Passes(new, new.queue[i])
                            /\ new.queue[i].n <= new.newest
                      /\ Ascending(new.queue)
    BY <1>1 DEF QueueInOrder, Home, Passes, Ascending
  <2>1. CASE r # s
    <3>1. slots'[r] = slots[r]
      BY <1>4, <2>1
    <3> QED
      BY <3>1 DEF RelayInv, QueueInOrder
  <2>2. CASE r = s
    <3>1. d \in Channel /\ slots'[r][d].queue = <<>> /\ slots'[r][d].newest = 0
      BY <1>2, <1>3, <1>4, <2>2
    <3>2. published >= 0 /\ inbox[d] \in Seq(Message)
      BY <3>1, RelayAssumption DEF RelayInv, RelayTypeOK
    <3>3. \A i \in DOMAIN inbox[d] : inbox[d][i].n > 0
      <4>1. \A i \in DOMAIN inbox[d] : inbox[d][i] \in Message
        BY <3>2, ElementOfSeq, LenProperties
      <4> QED
        BY <4>1, RelayAssumption DEF Message
    <3> QED
      BY <1>7, <3>1, <3>2, <3>3 DEF Ascending
  <2> QED
    BY <2>1, <2>2
<1>11. WireInOrder'
  <2> SUFFICES ASSUME NEW r \in Socket
               PROVE  /\ Ascending(wire'[r])
                      /\ \A i \in DOMAIN wire'[r] :
                         /\ Home(wire'[r][i]) \in DOMAIN slots'[r]
                         /\ LET slot == slots'[r][Home(wire'[r][i])] IN
                            /\ Passes(slot, wire'[r][i]) /\ wire'[r][i].n <= slot.newest
                            /\ \A j \in DOMAIN slot.queue : wire'[r][i].n < slot.queue[j].n
    BY DEF WireInOrder, Home, Passes, Ascending
  <2>1. CASE r # s
    <3>1. slots'[r] = slots[r] /\ wire'[r] = wire[r]
      BY <1>4, <1>5, <2>1
    <3> QED
      BY <3>1 DEF RelayInv, WireInOrder
  <2>2. CASE r = s
    BY <1>5, <1>7, <2>2 DEF Ascending
  <2> QED
    BY <2>1, <2>2
<1>12. OneSlotPerKind'
  <2> SUFFICES ASSUME NEW r \in Socket
               PROVE  \A c, d \in DOMAIN slots'[r] : c.kind = d.kind => c = d
    BY DEF OneSlotPerKind
  <2>1. CASE r # s
    BY <1>4, <2>1 DEF RelayInv, OneSlotPerKind
  <2>2. CASE r = s
    BY <1>2, <1>3, <1>4, <2>2
  <2> QED
    BY <2>1, <2>2
<1> QED
  BY <1>1, <1>2, <1>3, <1>4, <1>5, <1>8, <1>9, <1>10, <1>11, <1>12 DEF RelayInv, fresh, channels

LEMMA UnsubscribeKeeps ==
    ASSUME RelayInv, NEW gone, Unsubscribe(gone)
    PROVE  /\ RelayInv' /\ published' = published
           /\ \A d \in Channel : inbox'[d] \in {inbox[d], <<>>}
           /\ \A s \in Socket : s \notin gone => slots'[s] = slots[s] /\ wire'[s] = wire[s]
           /\ \A s \in Socket : s \in gone => DOMAIN slots'[s] = {} /\ wire'[s] = <<>>
<1>1. DOMAIN <<>> = {} /\ <<>> \in Seq(Message) /\ Len(<<>>) = 0
  BY EmptySeq
<1>2. published' = published /\ \A d \in Channel : inbox'[d] \in {inbox[d], <<>>}
  BY DEF Unsubscribe
<1>3. DOMAIN slots' = Socket /\ wire' \in [Socket -> Seq(Message)]
  BY <1>1 DEF Unsubscribe, RelayInv, RelayTypeOK
<1>4. \A s \in Socket :
        \/ s \notin gone /\ slots'[s] = slots[s] /\ wire'[s] = wire[s]
        \/ s \in gone /\ DOMAIN slots'[s] = {} /\ wire'[s] = <<>>
  BY <1>1 DEF Unsubscribe, NoSlots
<1>5. inbox' \in [Channel -> Seq(Message)]
  BY <1>1 DEF Unsubscribe, RelayInv, RelayTypeOK
<1>6. relay' \in [Channel -> {"none", "joining", "listening", "backoff"}]
  BY DEF Unsubscribe, RelayInv, RelayTypeOK
<1>7. RelayTypeOK'
  <2>1. \A s \in Socket : \A d \in DOMAIN slots'[s] :
            d \in Channel /\ slots'[s][d] \in Slot /\ Len(slots'[s][d].queue) <= QueueMax
    BY <1>4, SlotFacts DEF RelayInv
  <2>2. \A s \in Socket : Len(wire'[s]) <= WireMax
    BY <1>1, <1>4, RelayAssumption DEF RelayInv, RelayTypeOK
  <2> QED
    BY <1>2, <1>3, <1>5, <1>6, <2>1, <2>2 DEF RelayInv, RelayTypeOK
<1>8. InboxInOrder'
  BY <1>1, <1>2 DEF RelayInv, InboxInOrder, Home, Ascending
<1>9. QueueInOrder'
  <2> SUFFICES ASSUME NEW s \in Socket, NEW d \in DOMAIN slots'[s]
               PROVE  LET slot == slots'[s][d] IN
                      /\ slot.newest <= published'
                      /\ \A i \in DOMAIN inbox'[d] : slot.newest < inbox'[d][i].n
                      /\ \A i \in DOMAIN slot.queue :
                            /\ Home(slot.queue[i]) = d /\ Passes(slot, slot.queue[i])
                            /\ slot.queue[i].n <= slot.newest
                      /\ Ascending(slot.queue)
    BY DEF QueueInOrder, Home, Passes, Ascending
  <2>1. slots'[s] = slots[s] /\ d \in DOMAIN slots[s] /\ d \in Channel
    BY <1>4, SlotFacts DEF RelayInv
  <2> QED
    BY <1>1, <1>2, <2>1 DEF RelayInv, QueueInOrder
<1>10. WireInOrder'
  <2> SUFFICES ASSUME NEW s \in Socket
               PROVE  /\ Ascending(wire'[s])
                      /\ \A i \in DOMAIN wire'[s] :
                         /\ Home(wire'[s][i]) \in DOMAIN slots'[s]
                         /\ LET slot == slots'[s][Home(wire'[s][i])] IN
                            /\ Passes(slot, wire'[s][i]) /\ wire'[s][i].n <= slot.newest
                            /\ \A j \in DOMAIN slot.queue : wire'[s][i].n < slot.queue[j].n
    BY DEF WireInOrder, Home, Passes, Ascending
  <2>1. CASE slots'[s] = slots[s] /\ wire'[s] = wire[s]
    BY <2>1 DEF RelayInv, WireInOrder
  <2>2. CASE wire'[s] = <<>>
    BY <1>1, <2>2 DEF Ascending
  <2> QED
    BY <1>4, <2>1, <2>2
<1>11. OneSlotPerKind'
  BY <1>4 DEF RelayInv, OneSlotPerKind
<1> QED
  BY <1>2, <1>4, <1>7, <1>8, <1>9, <1>10, <1>11 DEF RelayInv

\* None of the relays' variables changes.
LEMMA RelaysStand ==
    ASSUME RelayInv, UNCHANGED relayVars
    PROVE  /\ RelayInv' /\ published' = published
           /\ \A d \in Channel : inbox'[d] \in {inbox[d], <<>>}
           /\ \A s \in Socket : slots'[s] = slots[s] /\ wire'[s] = wire[s]
<1>1. UNCHANGED <<published, relay, inbox, slots, wire>>
  BY DEF relayVars
<1>2. RelayTypeOK'
  BY <1>1 DEF RelayInv, RelayTypeOK
<1>3. InboxInOrder' /\ OneSlotPerKind'
  BY <1>1 DEF RelayInv, InboxInOrder, OneSlotPerKind, Home, Ascending
<1>4. QueueInOrder'
  BY <1>1 DEF RelayInv, QueueInOrder, Home, Ascending, Passes
<1>5. WireInOrder'
  BY <1>1, WireByFrames, Zenon DEF RelayInv
<1> QED
  BY <1>1, <1>2, <1>3, <1>4, <1>5 DEF RelayInv

-----------------------------------------------------------------------------
(* The managers.                                                           *)

LEMMA ManagerFacts ==
    ASSUME TypeOK
    PROVE  /\ Current \in Nat /\ DOMAIN managers = 1..Current
           /\ Cardinality(Socket) \in Nat /\ Current <= Cardinality(Socket)
           /\ \A m \in DOMAIN managers : m \in Socket /\ m \in Nat /\ managers[m] \in Manager
           /\ issued \in Nat
<1>1. Cardinality(Socket) \in Nat /\ Socket = 1..Cardinality(Socket)
  BY FS_CardinalityType, DashboardAssumption
<1>2. managers \in Seq(Manager) /\ Current <= Cardinality(Socket)
  BY DEF TypeOK, Current
<1>3. Current \in Nat /\ DOMAIN managers = 1..Current
  BY <1>2, LenProperties DEF Current
<1>4. \A m \in DOMAIN managers : managers[m] \in Manager
  BY <1>2, <1>3, ElementOfSeq DEF Current
<1> QED
  BY <1>1, <1>2, <1>3, <1>4 DEF TypeOK

\* Updates of the fields of a manager.
LEMMA NewAt ==
    ASSUME NEW manager \in Manager, NEW p \in {"ticket", "handshake", "open", "timer", "rest"}, NEW new,
           new = [manager EXCEPT !.at = p]
    PROVE  /\ new \in Manager /\ new.at = p
           /\ new.loco = manager.loco /\ new.disposed = manager.disposed /\ new.ticket = manager.ticket
           /\ new.attempts = manager.attempts
BY DEF Manager

LEMMA NewTicket ==
    ASSUME NEW manager \in Manager, NEW t \in Nat, NEW new,
           new = [manager EXCEPT !.ticket = t]
    PROVE  /\ new \in Manager /\ new.ticket = t
           /\ new.loco = manager.loco /\ new.disposed = manager.disposed /\ new.at = manager.at
           /\ new.attempts = manager.attempts
BY DEF Manager

LEMMA NewAttempts ==
    ASSUME NEW manager \in Manager, NEW n \in 0..MaxAttempts, NEW new,
           new = [manager EXCEPT !.attempts = n]
    PROVE  /\ new \in Manager /\ new.attempts = n
           /\ new.loco = manager.loco /\ new.disposed = manager.disposed /\ new.ticket = manager.ticket
           /\ new.at = manager.at
BY DEF Manager

LEMMA NewRefused ==
    ASSUME NEW manager \in Manager, NEW r \in Nat, NEW new,
           new = [manager EXCEPT !.refused = r]
    PROVE  /\ new \in Manager /\ new.refused = r
           /\ new.loco = manager.loco /\ new.disposed = manager.disposed /\ new.ticket = manager.ticket
           /\ new.at = manager.at /\ new.attempts = manager.attempts
BY DEF Manager

LEMMA DroppedFacts ==
    ASSUME NEW manager \in Manager
    PROVE  /\ Dropped(manager) \in Manager /\ Dropped(manager).loco = manager.loco
           /\ Dropped(manager).disposed = manager.disposed
           /\ Dropped(manager).at \in {"rest", "timer"}
<1> DEFINE rests == [manager EXCEPT !.at = "rest"]
           waits == [manager EXCEPT !.at = "timer"]
<1>1. /\ rests \in Manager /\ rests.loco = manager.loco /\ rests.at = "rest"
      /\ rests.disposed = manager.disposed
  BY NewAt
<1>2. /\ waits \in Manager /\ waits.loco = manager.loco /\ waits.at = "timer"
      /\ waits.disposed = manager.disposed /\ waits.attempts = manager.attempts
  BY NewAt
<1>3. Dropped(manager) = IF manager.disposed THEN rests
                         ELSE IF manager.attempts < MaxAttempts
                         THEN [waits EXCEPT !.attempts = waits.attempts + 1]
                         ELSE [rests EXCEPT !.why = "exhausted"]
  BY DEF Dropped
<1> HIDE DEF rests, waits
<1>4. manager.attempts \in 0..MaxAttempts /\ MaxAttempts \in Nat
  BY DashboardAssumption DEF Manager
<1>5. CASE manager.disposed
  BY <1>1, <1>3, <1>5
<1>6. CASE ~manager.disposed /\ manager.attempts < MaxAttempts
  <2>1. waits.attempts + 1 \in 0..MaxAttempts
    BY <1>2, <1>4, <1>6
  <2>2. Dropped(manager) = [waits EXCEPT !.attempts = waits.attempts + 1]
    BY <1>3, <1>6
  <2> QED
    BY <1>2, <2>1, <2>2, NewAttempts
<1>7. CASE ~manager.disposed /\ ~(manager.attempts < MaxAttempts)
  <2>1. Dropped(manager) = [rests EXCEPT !.why = "exhausted"]
    BY <1>3, <1>7
  <2>2. Dropped(manager) \in Manager /\ Dropped(manager).loco = rests.loco
        /\ Dropped(manager).disposed = rests.disposed /\ Dropped(manager).at = rests.at
    BY <1>1, <2>1 DEF Manager
  <2> QED
    BY <1>1, <2>2
<1> QED
  BY <1>5, <1>6, <1>7

LEMMA RefusedFacts ==
    ASSUME NEW manager \in Manager
    PROVE  LET refused == Dropped([manager EXCEPT !.refused = @ + 1]) IN
           /\ refused \in Manager /\ refused.loco = manager.loco
           /\ refused.disposed = manager.disposed /\ refused.at \in {"rest", "timer"}
<1> DEFINE again == [manager EXCEPT !.refused = @ + 1]
<1>1. manager.refused + 1 \in Nat
  <2>1. manager.refused \in Nat
    BY DEF Manager
  <2> QED
    BY <2>1
<1>2. again \in Manager /\ again.loco = manager.loco /\ again.disposed = manager.disposed
  BY <1>1, NewRefused
<1> HIDE DEF again
<1>3. LET refused == Dropped(again) IN
        /\ refused \in Manager /\ refused.loco = manager.loco
        /\ refused.disposed = manager.disposed /\ refused.at \in {"rest", "timer"}
  BY <1>2, DroppedFacts
<1> QED
  BY <1>3 DEF again

LEMMA OpenedFacts ==
    ASSUME NEW manager \in Manager
    PROVE  /\ Opened(manager) \in Manager /\ Opened(manager).loco = manager.loco
           /\ Opened(manager).disposed = manager.disposed
           /\ Opened(manager).ticket = manager.ticket /\ Opened(manager).at = "open"
<1> DEFINE one == [manager EXCEPT !.at = "open"]
           two == [one EXCEPT !.refused = 0]
<1>1. /\ one \in Manager /\ one.loco = manager.loco /\ one.at = "open"
      /\ one.disposed = manager.disposed /\ one.ticket = manager.ticket
  BY NewAt
<1>2. Opened(manager) = [two EXCEPT !.attempts = 0]
  BY DEF Opened
<1> HIDE DEF one
<1>3. /\ two \in Manager /\ two.loco = manager.loco /\ two.at = "open"
      /\ two.disposed = manager.disposed /\ two.ticket = manager.ticket
  BY <1>1, NewRefused
<1> HIDE DEF two
<1>4. 0 \in 0..MaxAttempts
  BY DashboardAssumption
<1> QED
  BY <1>2, <1>3, <1>4, NewAttempts

LEMMA DisposedFacts ==
    ASSUME NEW manager \in Manager
    PROVE  /\ Disposed(manager) \in Manager /\ Disposed(manager).loco = manager.loco
           /\ Disposed(manager).disposed = TRUE
           /\ Disposed(manager).at \in {"ticket", "rest"}
BY DEF Disposed, Manager

\* One manager is replaced.
LEMMA Replaced ==
    ASSUME TypeOK, NEW m \in DOMAIN managers, NEW new \in Manager,
           managers' = [managers EXCEPT ![m] = new]
    PROVE  /\ managers' \in Seq(Manager) /\ Len(managers') = Len(managers)
           /\ DOMAIN managers' = DOMAIN managers /\ managers'[m] = new
           /\ \A o \in DOMAIN managers : o # m => managers'[o] = managers[o]
<1>1. managers' \in [DOMAIN managers -> Manager]
  BY ManagerFacts
<1>2. managers \in Seq(Manager)
  BY DEF TypeOK
<1>3. managers' \in Seq(Manager) /\ Len(managers') = Len(managers)
      /\ DOMAIN managers' = DOMAIN managers
  BY ONLY <1>1, <1>2, Rewritten
<1> QED
  BY <1>3

-----------------------------------------------------------------------------
(* What the actions have in common: managers move on, sockets close, tickets are used.     *)

\* The sockets in `gone` lost their slots, the others and the listeners' positions stand.
Closes(gone) ==
    /\ published' = published
    /\ \A d \in Channel : inbox'[d] \in {inbox[d], <<>>}
    /\ \A s \in Socket : s \notin gone => slots'[s] = slots[s] /\ wire'[s] = wire[s]
    /\ \A s \in Socket : s \in gone => DOMAIN slots'[s] = {} /\ wire'[s] = <<>>

\* A socket that is still open is open as before.
LEMMA SlotsStayOpen ==
    ASSUME Inv, NEW gone, Closes(gone),
           \A m \in DOMAIN managers :
                m \notin gone /\ managers[m].at = "open" =>
                    /\ m \in DOMAIN managers' /\ managers'[m].at = "open"
                    /\ managers'[m].loco = managers[m].loco
    PROVE  SlotsAreOpen'
<1> SUFFICES ASSUME NEW s \in Socket, NEW c \in DOMAIN slots'[s]
             PROVE  /\ s \in DOMAIN managers' /\ managers'[s].at = "open"
                    /\ c = ChannelOf(c.kind, managers'[s].loco)
                    /\ slots'[s][c].filter = IF c.kind = "alert" THEN managers'[s].loco ELSE "all"
  BY DEF SlotsAreOpen
<1>1. s \notin gone /\ slots'[s] = slots[s]
  BY DEF Closes
<1>2. /\ s \in DOMAIN managers /\ managers[s].at = "open"
      /\ c = ChannelOf(c.kind, managers[s].loco)
      /\ slots[s][c].filter = IF c.kind = "alert" THEN managers[s].loco ELSE "all"
  BY <1>1 DEF Inv, PageInv, SlotsAreOpen
<1> QED
  BY <1>1, <1>2

\* The page stays, its managers wait for something else.
LEMMA ManagersMove ==
    ASSUME Inv, NEW gone, Closes(gone), UNCHANGED <<selected, shown>>,
           Len(managers') = Len(managers), DOMAIN managers' = DOMAIN managers,
           \A m \in DOMAIN managers :
                /\ managers'[m].loco = managers[m].loco
                /\ managers'[m].disposed = managers[m].disposed
                /\ m \notin gone /\ managers[m].at = "open" => managers'[m].at = "open"
    PROVE  LastIsMounted' /\ SlotsAreOpen' /\ ShownIsOldest' /\ NewestIsSomewhere'
<1>1. Current' = Current
  BY DEF Current
<1>2. Current \in Nat /\ DOMAIN managers = 1..Current /\ \A m \in DOMAIN managers : m \in Socket
  BY ManagerFacts DEF Inv
<1>3. LastIsMounted'
  BY <1>1, <1>2 DEF Inv, PageInv, LastIsMounted
<1>4. SlotsAreOpen'
  BY SlotsStayOpen
<1>5. selected # None => Current \in Socket
  BY <1>2 DEF Inv, PageInv, LastIsMounted
<1>6. DOMAIN <<>> = {}
  OBVIOUS
<1>7. shown \in [Kind -> Message \cup {None}]
  BY DEF Inv, TypeOK
<1>8. ShownIsOldest'
  <2> SUFFICES ASSUME selected # None, NEW k \in Kind, shown[k] # None
               PROVE  LET h == Home(shown[k]) IN
                      /\ shown[k].kind = k /\ shown[k].loco = selected /\ shown[k].n <= published'
                      /\ \A i \in DOMAIN inbox'[h] : shown[k].n < inbox'[h][i].n
                      /\ \A i \in DOMAIN wire'[Current] :
                            wire'[Current][i].kind = k => shown[k].n < wire'[Current][i].n
                      /\ h \in DOMAIN slots'[Current] =>
                            \A i \in DOMAIN slots'[Current][h].queue :
                                shown[k].n < slots'[Current][h].queue[i].n
    BY <1>1 DEF ShownIsOldest, Home
  <2> DEFINE h == Home(shown[k])
  <2>1. h \in Channel
    BY <1>7, HomeOfMessage
  <2>2. /\ shown[k].kind = k /\ shown[k].loco = selected /\ shown[k].n <= published
        /\ \A i \in DOMAIN inbox[h] : shown[k].n < inbox[h][i].n
        /\ \A i \in DOMAIN wire[Current] :
              wire[Current][i].kind = k => shown[k].n < wire[Current][i].n
        /\ h \in DOMAIN slots[Current] =>
              \A i \in DOMAIN slots[Current][h].queue :
                  shown[k].n < slots[Current][h].queue[i].n
    BY DEF Inv, PageInv, ShownIsOldest
  <2> HIDE DEF h
  <2>3. inbox'[h] \in {inbox[h], <<>>} /\ published' = published
    BY <2>1 DEF Closes
  <2>4. \/ slots'[Current] = slots[Current] /\ wire'[Current] = wire[Current]
        \/ DOMAIN slots'[Current] = {} /\ wire'[Current] = <<>>
    BY <1>5 DEF Closes
  <2>5. /\ shown[k].kind = k /\ shown[k].loco = selected /\ shown[k].n <= published'
        /\ \A i \in DOMAIN inbox'[h] : shown[k].n < inbox'[h][i].n
        /\ \A i \in DOMAIN wire'[Current] :
              wire'[Current][i].kind = k => shown[k].n < wire'[Current][i].n
        /\ h \in DOMAIN slots'[Current] =>
              \A i \in DOMAIN slots'[Current][h].queue :
                  shown[k].n < slots'[Current][h].queue[i].n
    BY <1>6, <2>2, <2>3, <2>4
  <2> QED
    BY <2>5 DEF h
<1>9. NewestIsSomewhere'
  <2>1. CASE selected = None
    BY <2>1 DEF NewestIsSomewhere
  <2>2. CASE selected # None
    <3>1. \/ slots'[Current] = slots[Current] /\ wire'[Current] = wire[Current]
          \/ DOMAIN slots'[Current] = {}
      BY <1>5, <2>2 DEF Closes
    <3>2. CASE DOMAIN slots'[Current] = {}
      BY <1>1, <3>2 DEF NewestIsSomewhere
    <3>3. CASE slots'[Current] = slots[Current] /\ wire'[Current] = wire[Current]
      BY <1>1, <2>2, <3>3 DEF Inv, PageInv, NewestIsSomewhere
    <3> QED
      BY <3>1, <3>2, <3>3
  <2> QED
    BY <2>1, <2>2
<1> QED
  BY <1>3, <1>4, <1>8, <1>9

LEMMA TicketsKeep ==
    ASSUME Inv, issued' \in {issued, issued + 1},
           \A t \in 1..issued : t \in stored' => t \in stored,
           \A m \in DOMAIN managers' :
                /\ managers'[m].at = "open" =>
                    /\ m \in DOMAIN managers /\ managers[m].at = "open"
                    /\ managers'[m].ticket = managers[m].ticket
                /\ managers'[m].at = "handshake" => managers'[m].ticket \in 1..issued'
    PROVE  TicketsAreIssued' /\ TicketAdmitsOnce'
<1>1. issued \in Nat
  BY DEF Inv, TypeOK
<1>2. TicketsAreIssued'
  <2> SUFFICES ASSUME NEW m \in DOMAIN managers'
               PROVE  /\ managers'[m].at \in {"handshake", "open"} =>
                            managers'[m].ticket \in 1..issued'
                      /\ managers'[m].at = "open" => managers'[m].ticket \notin stored'
    BY DEF TicketsAreIssued
  <2>1. CASE managers'[m].at = "open"
    <3>1. managers'[m].ticket \in 1..issued /\ managers'[m].ticket \notin stored
      BY <2>1 DEF Inv, PageInv, TicketsAreIssued
    <3> QED
      BY <1>1, <2>1, <3>1
  <2> QED
    BY <2>1
<1>3. TicketAdmitsOnce'
  BY DEF Inv, PageInv, TicketAdmitsOnce
<1> QED
  BY <1>2, <1>3

-----------------------------------------------------------------------------
(* Every action of the page keeps the invariant.                           *)

\* What an action says of the relays when it leaves them alone.
LEMMA NothingCloses ==
    ASSUME Inv, UNCHANGED relayVars
    PROVE  RelayInv' /\ Closes({})
BY RelaysStand DEF Inv, Closes

LEMMA TicketIssuedKeeps ==
    ASSUME Inv, TicketIssued
    PROVE  Inv'
<1>1. /\ UNCHANGED relayVars /\ UNCHANGED <<rendered, selected, shown>> /\ status' = status
      /\ faults' = faults /\ issued' = issued + 1 /\ stored' = stored \cup {issued + 1}
  BY DEF TicketIssued, pageVars
<1>2. RelayInv' /\ Closes({})
  BY <1>1, NothingCloses
<1>3. issued \in Nat /\ \A m \in DOMAIN managers : managers[m] \in Manager
  BY ManagerFacts DEF Inv
<1> DEFINE asks(m) == [managers[m] EXCEPT !.at = "handshake", !.ticket = issued + 1]
<1>4. ASSUME NEW m \in DOMAIN managers
      PROVE  /\ asks(m) \in Manager /\ asks(m).loco = managers[m].loco
             /\ asks(m).disposed = managers[m].disposed
             /\ asks(m).at = "handshake" /\ asks(m).ticket = issued + 1
  <2> DEFINE one == [managers[m] EXCEPT !.at = "handshake"]
  <2>1. /\ one \in Manager /\ one.at = "handshake" /\ one.loco = managers[m].loco
        /\ one.disposed = managers[m].disposed
    BY <1>3, NewAt
  <2>2. asks(m) = [one EXCEPT !.ticket = issued + 1]
    OBVIOUS
  <2>3. issued + 1 \in Nat
    BY <1>3
  <2> HIDE DEF one, asks
  <2> QED
    BY <2>1, <2>2, <2>3, NewTicket
<1>5. managers' = [m \in DOMAIN managers |-> IF m \in Waiting THEN asks(m) ELSE managers[m]]
  BY DEF TicketIssued
<1> HIDE DEF asks
<1>6. \A m \in DOMAIN managers :
        managers'[m] = IF managers[m].at = "ticket" THEN asks(m) ELSE managers[m]
  BY <1>5 DEF Waiting
<1>7. /\ managers' \in Seq(Manager) /\ Len(managers') = Len(managers)
      /\ DOMAIN managers' = DOMAIN managers
  <2>1. managers' \in [DOMAIN managers -> Manager]
    BY <1>3, <1>4, <1>5
  <2>2. managers \in Seq(Manager)
    BY DEF Inv, TypeOK
  <2> QED
    BY ONLY <2>1, <2>2, Rewritten
<1>8. LastIsMounted' /\ SlotsAreOpen' /\ ShownIsOldest' /\ NewestIsSomewhere'
  <2>1. \A m \in DOMAIN managers :
            /\ managers'[m].loco = managers[m].loco
            /\ managers'[m].disposed = managers[m].disposed
            /\ managers[m].at = "open" => managers'[m].at = "open"
    BY <1>4, <1>6
  <2> QED
    BY <1>1, <1>2, <1>7, <2>1, ManagersMove
<1>9. TicketsAreIssued' /\ TicketAdmitsOnce'
  <2>1. \A t \in 1..issued : t \in stored' => t \in stored
    BY <1>1, <1>3
  <2>2. ASSUME NEW m \in DOMAIN managers'
        PROVE  /\ managers'[m].at = "open" =>
                    /\ m \in DOMAIN managers /\ managers[m].at = "open"
                    /\ managers'[m].ticket = managers[m].ticket
               /\ managers'[m].at = "handshake" => managers'[m].ticket \in 1..issued'
    <3>1. CASE managers[m].at = "ticket"
      BY <1>1, <1>3, <1>4, <1>6, <1>7, <3>1
    <3>2. CASE managers[m].at # "ticket"
      BY <1>1, <1>3, <1>6, <1>7, <3>2 DEF Inv, PageInv, TicketsAreIssued
    <3> QED
      BY <3>1, <3>2
  <2> QED
    BY <1>1, <2>1, <2>2, TicketsKeep
<1>10. TypeOK'
  <2>1. stored' \subseteq 1..issued' /\ issued' \in Nat
    BY <1>1, <1>3 DEF Inv, TypeOK
  <2> QED
    BY <1>1, <1>2, <1>7, <2>1 DEF Inv, TypeOK, RelayInv
<1> QED
  BY <1>2, <1>8, <1>9, <1>10 DEF Inv, PageInv

LEMMA FaultTyped ==
    ASSUME TypeOK, Fault
    PROVE  faults' \in 0..MaxFaults
BY DashboardAssumption DEF TypeOK, Fault

LEMMA TicketDeniedKeeps ==
    ASSUME Inv, TicketDenied
    PROVE  Inv'
<1>1. /\ UNCHANGED relayVars /\ UNCHANGED <<rendered, selected, shown, stored, issued>>
      /\ status' = "disconnected" /\ faults' \in 0..MaxFaults
  BY FaultTyped DEF TicketDenied, Inv
<1>2. RelayInv' /\ Closes({})
  BY <1>1, NothingCloses
<1>3. \A m \in DOMAIN managers : managers[m] \in Manager
  BY ManagerFacts DEF Inv
<1> DEFINE denied(m) == [managers[m] EXCEPT !.at = "rest", !.why = "denied"]
<1>4. ASSUME NEW m \in DOMAIN managers
      PROVE  /\ denied(m) \in Manager /\ denied(m).loco = managers[m].loco
             /\ denied(m).disposed = managers[m].disposed /\ denied(m).at = "rest"
  BY <1>3 DEF Manager
<1>5. managers' = [m \in DOMAIN managers |-> IF m \in Waiting THEN denied(m) ELSE managers[m]]
  BY DEF TicketDenied
<1> HIDE DEF denied
<1>6. \A m \in DOMAIN managers :
        managers'[m] = IF managers[m].at = "ticket" THEN denied(m) ELSE managers[m]
  BY <1>5 DEF Waiting
<1>7. /\ managers' \in Seq(Manager) /\ Len(managers') = Len(managers)
      /\ DOMAIN managers' = DOMAIN managers
  <2>1. managers' \in [DOMAIN managers -> Manager]
    BY <1>3, <1>4, <1>5
  <2>2. managers \in Seq(Manager)
    BY DEF Inv, TypeOK
  <2> QED
    BY ONLY <2>1, <2>2, Rewritten
<1>8. LastIsMounted' /\ SlotsAreOpen' /\ ShownIsOldest' /\ NewestIsSomewhere'
  <2>1. \A m \in DOMAIN managers :
            /\ managers'[m].loco = managers[m].loco
            /\ managers'[m].disposed = managers[m].disposed
            /\ managers[m].at = "open" => managers'[m].at = "open"
    BY <1>4, <1>6
  <2> QED
    BY <1>1, <1>2, <1>7, <2>1, ManagersMove
<1>9. TicketsAreIssued' /\ TicketAdmitsOnce'
  <2>1. \A m \in DOMAIN managers' :
            /\ managers'[m].at = "open" =>
                    /\ m \in DOMAIN managers /\ managers[m].at = "open"
                    /\ managers'[m].ticket = managers[m].ticket
            /\ managers'[m].at = "handshake" => managers'[m].ticket \in 1..issued'
    BY <1>1, <1>4, <1>6, <1>7 DEF Inv, PageInv, TicketsAreIssued
  <2> QED
    BY <1>1, <2>1, TicketsKeep
<1>10. TypeOK'
  BY <1>1, <1>2, <1>7 DEF Inv, TypeOK, RelayInv, Status
<1> QED
  BY <1>2, <1>8, <1>9, <1>10 DEF Inv, PageInv

LEMMA TicketExpiresKeeps ==
    ASSUME Inv, NEW t, TicketExpires(t)
    PROVE  Inv'
<1>1. /\ UNCHANGED relayVars /\ UNCHANGED <<rendered, selected, status, shown, managers, issued>>
      /\ stored' = stored \ {t} /\ faults' \in 0..MaxFaults
  BY FaultTyped DEF TicketExpires, pageVars, Inv
<1>2. RelayInv' /\ Closes({})
  BY <1>1, NothingCloses
<1>3. LastIsMounted' /\ SlotsAreOpen' /\ ShownIsOldest' /\ NewestIsSomewhere'
  BY <1>1, <1>2, ManagersMove
<1>4. TicketsAreIssued' /\ TicketAdmitsOnce'
  BY <1>1, TicketsKeep DEF Inv, PageInv, TicketsAreIssued
<1>5. TypeOK'
  BY <1>1, <1>2 DEF Inv, TypeOK, RelayInv
<1> QED
  BY <1>2, <1>3, <1>4, <1>5 DEF Inv, PageInv

\* One manager goes on to a place that is neither a handshake nor an open socket.
LEMMA ManagerGoesOn ==
    ASSUME Inv, NEW m \in DOMAIN managers, NEW new \in Manager,
           new.loco = managers[m].loco, new.disposed = managers[m].disposed,
           new.at \notin {"handshake", "open"}, managers' = [managers EXCEPT ![m] = new],
           NEW gone, managers[m].at = "open" => m \in gone,
           Closes(gone), RelayInv', UNCHANGED <<rendered, selected, shown, issued>>,
           stored' \subseteq stored, status' \in Status, faults' \in 0..MaxFaults
    PROVE  Inv'
<1>1. /\ managers' \in Seq(Manager) /\ Len(managers') = Len(managers)
      /\ DOMAIN managers' = DOMAIN managers /\ managers'[m] = new
      /\ \A o \in DOMAIN managers : o # m => managers'[o] = managers[o]
  BY Replaced DEF Inv
<1>2. LastIsMounted' /\ SlotsAreOpen' /\ ShownIsOldest' /\ NewestIsSomewhere'
  <2>1. ASSUME NEW o \in DOMAIN managers
        PROVE  /\ managers'[o].loco = managers[o].loco
               /\ managers'[o].disposed = managers[o].disposed
               /\ o \notin gone /\ managers[o].at = "open" => managers'[o].at = "open"
    BY <1>1
  <2> QED
    BY <1>1, <2>1, ManagersMove
<1>3. TicketsAreIssued' /\ TicketAdmitsOnce'
  <2>1. ASSUME NEW o \in DOMAIN managers'
        PROVE  /\ managers'[o].at = "open" =>
                    /\ o \in DOMAIN managers /\ managers[o].at = "open"
                    /\ managers'[o].ticket = managers[o].ticket
               /\ managers'[o].at = "handshake" => managers'[o].ticket \in 1..issued'
    BY <1>1 DEF Inv, PageInv, TicketsAreIssued
  <2> QED
    BY <2>1, TicketsKeep
<1>4. TypeOK'
  BY <1>1 DEF Inv, TypeOK, RelayInv
<1> QED
  BY <1>2, <1>3, <1>4 DEF Inv, PageInv

LEMMA StatusTyped ==
    ASSUME TypeOK, NEW manager
    PROVE  StatusOfDropped(manager) \in Status
BY DEF StatusOfDropped, TypeOK, Status

LEMMA HandshakeRefusedKeeps ==
    ASSUME Inv, NEW m \in DOMAIN managers, HandshakeRefused(m)
    PROVE  Inv'
<1> DEFINE new == Dropped([managers[m] EXCEPT !.refused = @ + 1])
<1>1. managers[m] \in Manager
  BY ManagerFacts DEF Inv
<1>2. /\ new \in Manager /\ new.loco = managers[m].loco
      /\ new.disposed = managers[m].disposed /\ new.at \in {"rest", "timer"}
  BY <1>1, RefusedFacts
<1>3. managers' = [managers EXCEPT ![m] = new]
  BY DEF HandshakeRefused
<1>4. /\ UNCHANGED relayVars /\ UNCHANGED <<rendered, selected, shown, issued>>
      /\ managers[m].at = "handshake" /\ stored' \subseteq stored
  BY DEF HandshakeRefused, Consume
<1>5. status' \in Status
  BY StatusTyped DEF HandshakeRefused, Inv
<1>6. faults' \in 0..MaxFaults
  BY FaultTyped DEF HandshakeRefused, Inv, TypeOK
<1>7. RelayInv' /\ Closes({})
  BY <1>4, NothingCloses
<1> HIDE DEF new
<1> QED
  BY <1>2, <1>3, <1>4, <1>5, <1>6, <1>7, ManagerGoesOn

LEMMA TimerFiresKeeps ==
    ASSUME Inv, NEW m \in DOMAIN managers, TimerFires(m)
    PROVE  Inv'
<1> DEFINE new == [managers[m] EXCEPT !.at = "ticket"]
<1>1. managers[m] \in Manager
  BY ManagerFacts DEF Inv
<1>2. /\ new \in Manager /\ new.loco = managers[m].loco
      /\ new.disposed = managers[m].disposed /\ new.at = "ticket"
  BY <1>1, NewAt
<1>3. managers' = [managers EXCEPT ![m] = new]
  BY DEF TimerFires
<1>4. /\ UNCHANGED relayVars /\ UNCHANGED <<rendered, selected, shown, issued, stored, faults>>
      /\ managers[m].at = "timer" /\ status' \in Status /\ faults' \in 0..MaxFaults
  BY DEF TimerFires, Status, Inv, TypeOK
<1>5. RelayInv' /\ Closes({})
  BY <1>4, NothingCloses
<1> HIDE DEF new
<1> QED
  BY <1>2, <1>3, <1>4, <1>5, ManagerGoesOn

LEMMA LostKeeps ==
    ASSUME Inv, NEW m \in DOMAIN managers, Lost(m)
    PROVE  Inv'
<1> DEFINE new == Dropped(managers[m])
<1>1. managers[m] \in Manager
  BY ManagerFacts DEF Inv
<1>2. /\ new \in Manager /\ new.loco = managers[m].loco
      /\ new.disposed = managers[m].disposed /\ new.at \in {"rest", "timer"}
  BY <1>1, DroppedFacts
<1>3. managers' = [managers EXCEPT ![m] = new]
  BY DEF Lost
<1>4. UNCHANGED <<rendered, selected, shown, issued, stored>> /\ Unsubscribe({m})
  BY DEF Lost
<1>5. status' \in Status /\ faults' \in 0..MaxFaults
  BY StatusTyped, FaultTyped DEF Lost, Inv
<1>6. RelayInv' /\ Closes({m})
  BY <1>4, UnsubscribeKeeps DEF Inv, Closes
<1> HIDE DEF new
<1> QED
  BY <1>2, <1>3, <1>4, <1>5, <1>6, ManagerGoesOn

LEMMA ClosedByServerKeeps ==
    ASSUME Inv, NEW m \in DOMAIN managers, ClosedByServer(m)
    PROVE  Inv'
<1> DEFINE new == [managers[m] EXCEPT !.at = "rest", !.why = "clean"]
<1>1. managers[m] \in Manager
  BY ManagerFacts DEF Inv
<1>2. /\ new \in Manager /\ new.loco = managers[m].loco
      /\ new.disposed = managers[m].disposed /\ new.at = "rest"
  BY <1>1 DEF Manager
<1>3. managers' = [managers EXCEPT ![m] = new]
  BY DEF ClosedByServer
<1>4. UNCHANGED <<rendered, selected, shown, issued, stored>> /\ Unsubscribe({m})
  BY DEF ClosedByServer
<1>5. status' \in Status /\ faults' \in 0..MaxFaults
  BY FaultTyped DEF ClosedByServer, Inv, TypeOK, Status
<1>6. RelayInv' /\ Closes({m})
  BY <1>4, UnsubscribeKeeps DEF Inv, Closes
<1> HIDE DEF new
<1> QED
  BY <1>2, <1>3, <1>4, <1>5, <1>6, ManagerGoesOn

\* releaseManager(): the mounted page's manager, if there is one, is disposed.
LEMMA ReleasedFacts ==
    ASSUME Inv
    PROVE  /\ Released \in Seq(Manager) /\ Len(Released) = Current
           /\ DOMAIN Released = DOMAIN managers
           /\ \A m \in DOMAIN managers :
                /\ Released[m].disposed /\ Released[m].loco = managers[m].loco
                /\ Released[m].at \in {"ticket", "rest"} \/ Released[m] = managers[m]
                /\ m # Current \/ selected = None => Released[m] = managers[m]
<1>1. Current \in Nat /\ DOMAIN managers = 1..Current
      /\ \A m \in DOMAIN managers : managers[m] \in Manager
  BY ManagerFacts DEF Inv
<1>2. managers \in Seq(Manager) /\ \A m \in DOMAIN managers : managers[m].disposed \in BOOLEAN
  BY <1>1 DEF Inv, TypeOK, Manager
<1>3. CASE selected = None
  <2>1. Released = managers
    BY <1>3 DEF Released
  <2>2. None \notin Locomotive
    BY DashboardAssumption
  <2>3. \A m \in DOMAIN managers : managers[m].disposed
    BY <1>1, <1>3, <2>2 DEF Inv, PageInv, LastIsMounted, Manager
  <2> QED
    BY <1>2, <2>1, <2>3 DEF Current
<1>4. CASE selected # None
  <2>1. Current \in DOMAIN managers
    BY <1>1, <1>4 DEF Inv, PageInv, LastIsMounted
  <2> DEFINE new == Disposed(managers[Current])
  <2>2. /\ new \in Manager /\ new.loco = managers[Current].loco /\ new.disposed = TRUE
        /\ new.at \in {"ticket", "rest"}
    BY <1>1, <2>1, DisposedFacts
  <2>3. Released = [managers EXCEPT ![Current] = new]
    BY <1>4 DEF Released
  <2> HIDE DEF new
  <2>4. /\ Released[Current] = new
        /\ \A m \in DOMAIN managers : m # Current => Released[m] = managers[m]
        /\ Released \in [DOMAIN managers -> Manager]
    BY <1>1, <2>1, <2>2, <2>3
  <2>5. Released \in Seq(Manager) /\ Len(Released) = Len(managers)
        /\ DOMAIN Released = DOMAIN managers
    BY ONLY <1>2, <2>4, Rewritten
  <2>6. ASSUME NEW m \in DOMAIN managers, m # Current
        PROVE  managers[m].disposed
    BY <2>6 DEF Inv, PageInv, LastIsMounted
  <2> QED
    BY <1>4, <2>2, <2>4, <2>5, <2>6 DEF Current
<1> QED
  BY <1>3, <1>4

\* Its socket, if it is open, closes.
LEMMA ReleasesFacts ==
    ASSUME Inv, ReleasesSockets, NEW gone,
           gone = {m \in {Current} : selected # None /\ managers[m].at = "open"}
    PROVE  /\ RelayInv' /\ Closes(gone)
           /\ \A m \in DOMAIN managers :
                m \notin gone /\ managers[m].at = "open" => Released[m] = managers[m]
           /\ \A m \in DOMAIN managers :
                Released[m].at = "open" => Released[m] = managers[m]
<1>1. RelayInv' /\ Closes(gone)
  BY UnsubscribeKeeps DEF ReleasesSockets, Inv, Closes
<1>2. \A m \in DOMAIN managers :
        /\ m \notin gone /\ managers[m].at = "open" => Released[m] = managers[m]
        /\ Released[m].at = "open" => Released[m] = managers[m]
  BY ReleasedFacts
<1> QED
  BY <1>1, <1>2

LEMMA UnmountKeeps ==
    ASSUME Inv, Unmount
    PROVE  Inv'
<1> DEFINE gone == {m \in {Current} : selected # None /\ managers[m].at = "open"}
<1>1. /\ ReleasesSockets /\ managers' = Released /\ selected' = None
      /\ status' = "disconnected" /\ UNCHANGED <<rendered, shown, stored, issued, faults>>
  BY DEF Unmount
<1>2. /\ RelayInv' /\ Closes(gone)
      /\ \A m \in DOMAIN managers :
            m \notin gone /\ managers[m].at = "open" => Released[m] = managers[m]
      /\ \A m \in DOMAIN managers : Released[m].at = "open" => Released[m] = managers[m]
  BY <1>1, ReleasesFacts
<1> HIDE DEF gone
<1>3. /\ Released \in Seq(Manager) /\ Len(Released) = Current
      /\ DOMAIN Released = DOMAIN managers
      /\ \A m \in DOMAIN managers :
            /\ Released[m].disposed /\ Released[m].loco = managers[m].loco
            /\ Released[m].at \in {"ticket", "rest"} \/ Released[m] = managers[m]
  BY ReleasedFacts
<1>4. LastIsMounted'
  BY <1>1, <1>3 DEF LastIsMounted
<1>5. SlotsAreOpen'
  <2>1. \A m \in DOMAIN managers :
            m \notin gone /\ managers[m].at = "open" =>
                /\ m \in DOMAIN managers' /\ managers'[m].at = "open"
                /\ managers'[m].loco = managers[m].loco
    BY <1>1, <1>2, <1>3
  <2> QED
    BY <1>2, <2>1, SlotsStayOpen
<1>6. ShownIsOldest' /\ NewestIsSomewhere'
  BY <1>1 DEF ShownIsOldest, NewestIsSomewhere
<1>7. TicketsAreIssued' /\ TicketAdmitsOnce'
  <2>1. \A m \in DOMAIN managers' :
            /\ managers'[m].at = "open" =>
                    /\ m \in DOMAIN managers /\ managers[m].at = "open"
                    /\ managers'[m].ticket = managers[m].ticket
            /\ managers'[m].at = "handshake" => managers'[m].ticket \in 1..issued'
    BY <1>1, <1>3 DEF Inv, PageInv, TicketsAreIssued
  <2> QED
    BY <1>1, <2>1, TicketsKeep
<1>8. TypeOK'
  BY <1>1, <1>2, <1>3 DEF Inv, TypeOK, RelayInv, Status, Current
<1> QED
  BY <1>2, <1>4, <1>5, <1>6, <1>7, <1>8 DEF Inv, PageInv

LEMMA SelectKeeps ==
    ASSUME Inv, NEW l \in Locomotive, Select(l)
    PROVE  Inv'
<1> DEFINE gone == {m \in {Current} : selected # None /\ managers[m].at = "open"}
           new == NewManager(l)
<1>1. /\ ReleasesSockets /\ managers' = Append(Released, new) /\ selected' = l
      /\ status' = "connecting" /\ UNCHANGED <<rendered, stored, issued, faults>>
      /\ shown' = Blank /\ Current < Cardinality(Socket)
  BY DEF Select, Reset
<1>2. /\ RelayInv' /\ Closes(gone)
      /\ \A m \in DOMAIN managers :
            m \notin gone /\ managers[m].at = "open" => Released[m] = managers[m]
      /\ \A m \in DOMAIN managers : Released[m].at = "open" => Released[m] = managers[m]
  BY <1>1, ReleasesFacts
<1> HIDE DEF gone
<1>3. /\ Released \in Seq(Manager) /\ Len(Released) = Current
      /\ DOMAIN Released = DOMAIN managers
      /\ \A m \in DOMAIN managers :
            /\ Released[m].disposed /\ Released[m].loco = managers[m].loco
            /\ Released[m].at \in {"ticket", "rest"} \/ Released[m] = managers[m]
  BY ReleasedFacts
<1>4. /\ new \in Manager /\ new.loco = l /\ new.disposed = FALSE /\ new.at = "ticket"
  BY DashboardAssumption DEF NewManager, Manager
<1> HIDE DEF new
<1>5. /\ Current \in Nat /\ DOMAIN managers = 1..Current
      /\ Cardinality(Socket) \in Nat /\ Socket = 1..Cardinality(Socket)
  BY ManagerFacts, DashboardAssumption DEF Inv
<1>6. /\ managers' \in Seq(Manager) /\ Current' = Current + 1
      /\ DOMAIN managers' = 1..Current + 1
      /\ managers'[Current + 1] = new
      /\ \A m \in DOMAIN managers : m \in DOMAIN managers' /\ managers'[m] = Released[m]
      /\ \A m \in DOMAIN managers' : m \in DOMAIN managers \/ m = Current + 1
  BY <1>1, <1>3, <1>4, <1>5, AppendFacts DEF Current
<1>7. LastIsMounted'
  <2>1. \A m \in DOMAIN managers' :
            ~managers'[m].disposed => m = Current' /\ selected' = managers'[m].loco
    BY <1>1, <1>3, <1>4, <1>6
  <2>2. Current' > 0 /\ ~managers'[Current'].disposed
    BY <1>4, <1>5, <1>6
  <2> QED
    BY <2>1, <2>2 DEF LastIsMounted
<1>8. SlotsAreOpen'
  <2>1. \A m \in DOMAIN managers :
            m \notin gone /\ managers[m].at = "open" =>
                /\ m \in DOMAIN managers' /\ managers'[m].at = "open"
                /\ managers'[m].loco = managers[m].loco
    BY <1>2, <1>3, <1>6
  <2> QED
    BY <1>2, <2>1, SlotsStayOpen
<1>9. ShownIsOldest'
  BY <1>1 DEF ShownIsOldest, Blank
<1>10. NewestIsSomewhere'
  <2>1. Current + 1 \in Socket /\ Current + 1 \notin DOMAIN managers
    BY <1>1, <1>5
  <2>2. DOMAIN slots'[Current + 1] = {}
    <3>1. managers'[Current + 1].at # "open"
      BY <1>4, <1>6
    <3> QED
      BY <1>8, <2>1, <3>1 DEF SlotsAreOpen
  <2> QED
    BY <1>6, <2>2 DEF NewestIsSomewhere
<1>11. TicketsAreIssued' /\ TicketAdmitsOnce'
  <2>1. ASSUME NEW m \in DOMAIN managers'
        PROVE  /\ managers'[m].at = "open" =>
                    /\ m \in DOMAIN managers /\ managers[m].at = "open"
                    /\ managers'[m].ticket = managers[m].ticket
               /\ managers'[m].at = "handshake" => managers'[m].ticket \in 1..issued'
    <3>1. CASE m \in DOMAIN managers
      BY <1>1, <1>3, <1>6, <3>1 DEF Inv, PageInv, TicketsAreIssued
    <3>2. CASE m = Current + 1
      BY <1>4, <1>6, <3>2
    <3> QED
      BY <1>6, <3>1, <3>2
  <2> QED
    BY <1>1, <2>1, TicketsKeep
<1>12. TypeOK'
  <2>1. shown' \in [Kind -> Message \cup {None}]
    BY <1>1 DEF Blank
  <2>2. Len(managers') <= Cardinality(Socket)'
    BY <1>1, <1>5, <1>6 DEF Current
  <2>3. selected' \in Locomotive \cup {None} /\ status' \in Status
    BY <1>1 DEF Status
  <2> QED
    BY <1>1, <1>2, <1>6, <2>1, <2>2, <2>3 DEF Inv, TypeOK, RelayInv
<1> QED
  BY <1>2, <1>7, <1>8, <1>9, <1>10, <1>11, <1>12 DEF Inv, PageInv

LEMMA HandshakeAcceptedKeeps ==
    ASSUME Inv, NEW m \in DOMAIN managers, HandshakeAccepted(m)
    PROVE  Inv'
<1> DEFINE new == Opened(managers[m])
<1>1. /\ Current \in Nat /\ DOMAIN managers = 1..Current /\ m \in Socket
      /\ managers[m] \in Manager /\ managers[m].loco \in Locomotive /\ issued \in Nat
  BY ManagerFacts DEF Inv, Manager
<1>2. /\ new \in Manager /\ new.loco = managers[m].loco
      /\ new.disposed = managers[m].disposed
      /\ new.ticket = managers[m].ticket /\ new.at = "open"
  BY <1>1, OpenedFacts
<1>3. /\ managers' = [managers EXCEPT ![m] = new] /\ Subscribe(m, managers[m].loco)
      /\ managers[m].at = "handshake" /\ managers[m].ticket \in stored
      /\ stored' = stored \ {managers[m].ticket} /\ status' = "connected"
      /\ UNCHANGED <<rendered, selected, shown, issued, faults>>
  BY DEF HandshakeAccepted, Consume
<1> HIDE DEF new
<1>4. /\ managers' \in Seq(Manager) /\ Len(managers') = Len(managers)
      /\ DOMAIN managers' = DOMAIN managers /\ managers'[m] = new
      /\ \A o \in DOMAIN managers : o # m => managers'[o] = managers[o]
  BY <1>2, <1>3, Replaced DEF Inv
<1>5. /\ RelayInv' /\ UNCHANGED <<published, inbox>>
      /\ \A r \in Socket : r # m => slots'[r] = slots[r] /\ wire'[r] = wire[r]
      /\ wire'[m] = <<>>
      /\ \A c \in DOMAIN slots'[m] :
            /\ c = ChannelOf(c.kind, managers[m].loco)
            /\ slots'[m][c] = [queue |-> <<>>, newest |-> 0,
                               filter |-> IF c.kind = "alert" THEN managers[m].loco ELSE "all"]
  BY <1>1, <1>3, SubscribeKeeps DEF Inv
<1>6. \A c \in DOMAIN slots'[m] :
        /\ slots'[m][c].queue = <<>> /\ slots'[m][c].newest = 0
        /\ slots'[m][c].filter = IF c.kind = "alert" THEN managers[m].loco ELSE "all"
  <2> SUFFICES ASSUME NEW c \in DOMAIN slots'[m]
               PROVE  /\ slots'[m][c].queue = <<>> /\ slots'[m][c].newest = 0
                      /\ slots'[m][c].filter =
                            IF c.kind = "alert" THEN managers[m].loco ELSE "all"
    OBVIOUS
  <2> DEFINE filter == IF c.kind = "alert" THEN managers[m].loco ELSE "all"
  <2>1. slots'[m][c] = [queue |-> <<>>, newest |-> 0, filter |-> filter]
    BY <1>5
  <2> HIDE DEF filter
  <2>2. slots'[m][c].queue = <<>> /\ slots'[m][c].newest = 0 /\ slots'[m][c].filter = filter
    BY <2>1
  <2> QED
    BY <2>2 DEF filter
<1>7. DOMAIN <<>> = {} /\ Current' = Current
  BY <1>4 DEF Current
<1>8. LastIsMounted'
  BY <1>1, <1>2, <1>3, <1>4, <1>7 DEF Inv, PageInv, LastIsMounted
<1>9. SlotsAreOpen'
  <2> SUFFICES ASSUME NEW s \in Socket, NEW c \in DOMAIN slots'[s]
               PROVE  /\ s \in DOMAIN managers' /\ managers'[s].at = "open"
                      /\ c = ChannelOf(c.kind, managers'[s].loco)
                      /\ slots'[s][c].filter =
                            IF c.kind = "alert" THEN managers'[s].loco ELSE "all"
    BY DEF SlotsAreOpen
  <2>1. CASE s = m
    BY <1>2, <1>4, <1>5, <1>6, <2>1
  <2>2. CASE s # m
    BY <1>4, <1>5, <2>2 DEF Inv, PageInv, SlotsAreOpen
  <2> QED
    BY <2>1, <2>2
<1>10. selected # None => Current \in Socket
  BY <1>1, ManagerFacts DEF Inv, PageInv, LastIsMounted
<1>11. ShownIsOldest'
  <2> SUFFICES ASSUME selected # None, NEW k \in Kind, shown[k] # None
               PROVE  IsOldest(shown[k], k, selected, published, inbox, wire'[Current], slots'[Current])
    BY <1>3, <1>5, <1>7, ShownByOldest
  <2> SUFFICES LET h == Home(shown[k]) IN
                      /\ shown[k].kind = k /\ shown[k].loco = selected /\ shown[k].n <= published
                      /\ \A i \in DOMAIN inbox[h] : shown[k].n < inbox[h][i].n
                      /\ \A i \in DOMAIN wire'[Current] :
                            wire'[Current][i].kind = k => shown[k].n < wire'[Current][i].n
                      /\ h \in DOMAIN slots'[Current] =>
                            \A i \in DOMAIN slots'[Current][h].queue :
                                shown[k].n < slots'[Current][h].queue[i].n
    BY Zenon DEF IsOldest
  <2> DEFINE h == Home(shown[k])
  <2>1. /\ shown[k].kind = k /\ shown[k].loco = selected /\ shown[k].n <= published
        /\ \A i \in DOMAIN inbox[h] : shown[k].n < inbox[h][i].n
        /\ \A i \in DOMAIN wire[Current] :
              wire[Current][i].kind = k => shown[k].n < wire[Current][i].n
        /\ h \in DOMAIN slots[Current] =>
              \A i \in DOMAIN slots[Current][h].queue :
                  shown[k].n < slots[Current][h].queue[i].n
    BY DEF Inv, PageInv, ShownIsOldest
  <2> HIDE DEF h
  <2>2. CASE Current = m
    <3>1. \A i \in DOMAIN wire'[Current] : FALSE
      BY <1>5, <1>7, <2>2
    <3>2. h \in DOMAIN slots'[Current] => \A i \in DOMAIN slots'[Current][h].queue : FALSE
      BY <1>6, <1>7, <2>2
    <3> QED
      BY <2>1, <3>1, <3>2 DEF h
  <2>3. CASE Current # m
    <3>1. slots'[Current] = slots[Current] /\ wire'[Current] = wire[Current]
      BY <1>5, <1>10, <2>3
    <3> QED
      BY <2>1, <3>1 DEF h
  <2> QED
    BY <2>2, <2>3
<1>12. NewestIsSomewhere'
  <2>1. CASE selected # None /\ Current # m
    <3>1. slots'[Current] = slots[Current] /\ wire'[Current] = wire[Current]
      BY <1>5, <1>10, <2>1
    <3> QED
      BY <1>3, <1>7, <2>1, <3>1 DEF Inv, PageInv, NewestIsSomewhere
  <2>2. CASE Current = m
    BY <1>6, <1>7, <2>2 DEF NewestIsSomewhere
  <2>3. CASE selected = None
    BY <1>3, <2>3 DEF NewestIsSomewhere
  <2> QED
    BY <2>1, <2>2, <2>3
<1>13. TicketsAreIssued'
  BY <1>1, <1>2, <1>3, <1>4 DEF Inv, PageInv, TicketsAreIssued, TypeOK
<1>14. TicketAdmitsOnce'
  BY <1>1, <1>2, <1>3, <1>4 DEF Inv, PageInv, TicketsAreIssued, TicketAdmitsOnce
<1>15. TypeOK'
  BY <1>3, <1>4, <1>5 DEF Inv, TypeOK, RelayInv, Status
<1> QED
  BY <1>5, <1>8, <1>9, <1>11, <1>12, <1>13, <1>14, <1>15 DEF Inv, PageInv

-----------------------------------------------------------------------------
(* The relays' steps and the arrival of a frame keep the page's invariant.  *)

LEMMA MountedFacts ==
    ASSUME Inv, selected # None
    PROVE  /\ Current \in Socket /\ Current \in DOMAIN managers
           /\ ~managers[Current].disposed /\ managers[Current].loco = selected
           /\ selected \in Locomotive
<1>1. Current \in Nat /\ DOMAIN managers = 1..Current /\ \A m \in DOMAIN managers : m \in Socket
  BY ManagerFacts DEF Inv
<1> QED
  BY <1>1 DEF Inv, PageInv, LastIsMounted, TypeOK

\* A slot of the page's socket is for the channel of its kind and the page's locomotive.
LEMMA SlotIsSelected ==
    ASSUME Inv, selected # None, NEW c \in DOMAIN slots[Current]
    PROVE  /\ c \in Channel /\ c.kind \in Kind /\ c = ChannelOf(c.kind, selected)
           /\ slots[Current][c].filter = IF c.kind = "alert" THEN selected ELSE "all"
<1>1. c \in Channel
  BY MountedFacts, SlotFacts DEF Inv, RelayInv
<1>2. c.kind \in Kind
  BY <1>1 DEF Channel
<1> QED
  BY <1>1, <1>2, MountedFacts DEF Inv, PageInv, SlotsAreOpen

\* So a message in it or on the wire is about that locomotive.
LEMMA MessageIsSelected ==
    ASSUME Inv, selected # None, NEW message \in Message,
           Home(message) \in DOMAIN slots[Current],
           Passes(slots[Current][Home(message)], message)
    PROVE  message.loco = selected /\ Home(message) = ChannelOf(message.kind, selected)
<1> DEFINE c == Home(message)
<1>1. c.kind = message.kind /\ (message.kind # "alert" => c.of = message.loco)
  BY HomeOfMessage
<1>2. /\ c = ChannelOf(c.kind, selected) /\ c.kind \in Kind
      /\ slots[Current][c].filter = IF c.kind = "alert" THEN selected ELSE "all"
  BY SlotIsSelected
<1>3. selected \in Locomotive /\ selected # "all"
  BY MountedFacts, RelayAssumption
<1> HIDE DEF c
<1>4. slots[Current][c].filter \in {"all", message.loco}
  BY DEF Passes, c
<1>5. CASE c.kind = "alert"
  BY <1>1, <1>2, <1>3, <1>4, <1>5 DEF c
<1>6. CASE c.kind # "alert"
  BY <1>1, <1>2, <1>3, <1>6, HomeFacts DEF c
<1> QED
  BY <1>5, <1>6

LEMMA ShownFacts ==
    ASSUME Inv, selected # None, NEW k \in Kind, shown[k] # None
    PROVE  LET h == Home(shown[k]) IN
           /\ shown[k] \in Message /\ shown[k].n \in Nat /\ h \in Channel /\ h = ChannelOf(k, selected)
           /\ shown[k].kind = k /\ shown[k].loco = selected /\ shown[k].n <= published
           /\ \A i \in DOMAIN inbox[h] : shown[k].n < inbox[h][i].n
           /\ \A i \in DOMAIN wire[Current] :
                wire[Current][i].kind = k => shown[k].n < wire[Current][i].n
           /\ h \in DOMAIN slots[Current] =>
                \A i \in DOMAIN slots[Current][h].queue : shown[k].n < slots[Current][h].queue[i].n
<1> DEFINE h == Home(shown[k])
<1>1. shown[k] \in Message
  BY DEF Inv, TypeOK
<1>2. shown[k].n \in Nat /\ h \in Channel
  BY <1>1, MessageFacts, HomeOfMessage
<1>3. /\ shown[k].kind = k /\ shown[k].loco = selected /\ shown[k].n <= published
      /\ \A i \in DOMAIN inbox[h] : shown[k].n < inbox[h][i].n
      /\ \A i \in DOMAIN wire[Current] :
            wire[Current][i].kind = k => shown[k].n < wire[Current][i].n
      /\ h \in DOMAIN slots[Current] =>
            \A i \in DOMAIN slots[Current][h].queue : shown[k].n < slots[Current][h].queue[i].n
  BY DEF Inv, PageInv, ShownIsOldest
<1>4. h = ChannelOf(k, selected)
  BY <1>3 DEF Home
<1> QED
  BY <1>1, <1>2, <1>3, <1>4

\* What a step of the relays leaves as it is.
LEMMA RelayStep ==
    ASSUME Inv, UNCHANGED client, RelayInv', faults' \in 0..MaxFaults,
           \A s \in Socket : DOMAIN slots'[s] = DOMAIN slots[s],
           \A s \in Socket : \A c \in DOMAIN slots[s] : slots'[s][c].filter = slots[s][c].filter
    PROVE  /\ TypeOK' /\ LastIsMounted' /\ SlotsAreOpen' /\ TicketsAreIssued' /\ TicketAdmitsOnce'
           /\ UNCHANGED <<rendered, selected, shown>> /\ Current' = Current
<1>1. UNCHANGED <<rendered, selected, status, shown, managers, stored, issued>>
  BY DEF client, pageVars
<1>2. TypeOK'
  BY <1>1 DEF Inv, TypeOK, RelayInv
<1>3. LastIsMounted' /\ TicketsAreIssued' /\ TicketAdmitsOnce' /\ Current' = Current
  BY <1>1 DEF Inv, PageInv, LastIsMounted, TicketsAreIssued, TicketAdmitsOnce, Current
<1>4. SlotsAreOpen'
  BY <1>1 DEF Inv, PageInv, SlotsAreOpen
<1> QED
  BY <1>1, <1>2, <1>3, <1>4

LEMMA PublishStep ==
    ASSUME Inv, NEW k \in Kind, NEW l \in Locomotive, Publish(k, l), UNCHANGED <<client, faults>>
    PROVE  Inv'
<1>1. /\ RelayInv' /\ published' = published + 1 /\ published \in Nat
      /\ \A c \in Channel : \A i \in DOMAIN inbox'[c] :
            inbox'[c][i].n > published \/ (i \in DOMAIN inbox[c] /\ inbox'[c][i] = inbox[c][i])
  BY PublishKeeps DEF Inv
<1>2. UNCHANGED <<slots, wire>>
  BY DEF Publish
<1>3. /\ TypeOK' /\ LastIsMounted' /\ SlotsAreOpen' /\ TicketsAreIssued' /\ TicketAdmitsOnce'
      /\ UNCHANGED <<selected, shown>> /\ Current' = Current
  BY <1>1, <1>2, RelayStep DEF Inv, TypeOK
<1>4. ShownIsOldest'
  <2> SUFFICES ASSUME selected # None, NEW j \in Kind, shown[j] # None
               PROVE  LET h == Home(shown[j]) IN
                      /\ shown[j].kind = j /\ shown[j].loco = selected /\ shown[j].n <= published'
                      /\ \A i \in DOMAIN inbox'[h] : shown[j].n < inbox'[h][i].n
                      /\ \A i \in DOMAIN wire[Current] :
                            wire[Current][i].kind = j => shown[j].n < wire[Current][i].n
                      /\ h \in DOMAIN slots[Current] =>
                            \A i \in DOMAIN slots[Current][h].queue :
                                shown[j].n < slots[Current][h].queue[i].n
    BY <1>2, <1>3 DEF ShownIsOldest, Home
  <2> DEFINE h == Home(shown[j])
  <2>1. /\ shown[j].n \in Nat /\ h \in Channel
        /\ shown[j].kind = j /\ shown[j].loco = selected /\ shown[j].n <= published
        /\ \A i \in DOMAIN inbox[h] : shown[j].n < inbox[h][i].n
        /\ \A i \in DOMAIN wire[Current] :
              wire[Current][i].kind = j => shown[j].n < wire[Current][i].n
        /\ h \in DOMAIN slots[Current] =>
              \A i \in DOMAIN slots[Current][h].queue : shown[j].n < slots[Current][h].queue[i].n
    BY ShownFacts
  <2> HIDE DEF h
  <2>2. inbox'[h] \in Seq(Message)
    BY <1>1, <2>1 DEF RelayInv, RelayTypeOK
  <2>3. ASSUME NEW i \in DOMAIN inbox'[h] PROVE shown[j].n < inbox'[h][i].n
    <3>1. inbox'[h][i].n \in Nat
      BY <2>2, ElementOfSeq, LenProperties, MessageFacts
    <3> QED
      BY <1>1, <2>1, <3>1
  <2> QED
    BY <1>1, <2>1, <2>3 DEF h
<1>5. NewestIsSomewhere'
  BY <1>2, <1>3 DEF Inv, PageInv, NewestIsSomewhere
<1> QED
  BY <1>1, <1>3, <1>4, <1>5 DEF Inv, PageInv

LEMMA ListenerStep ==
    ASSUME Inv, NEW c \in Channel, Subscribed(c) \/ BackoffOver(c) \/ RelayError(c),
           UNCHANGED client, faults' \in 0..MaxFaults
    PROVE  Inv'
<1>1. /\ RelayInv' /\ UNCHANGED <<published, slots, wire>>
      /\ \A d \in Channel : inbox'[d] \in {inbox[d], <<>>}
  BY ListenerKeeps DEF Inv
<1>2. Closes({})
  BY <1>1 DEF Closes
<1>3. /\ TypeOK' /\ LastIsMounted' /\ SlotsAreOpen' /\ TicketsAreIssued' /\ TicketAdmitsOnce'
      /\ UNCHANGED <<selected, shown>>
  BY <1>1, RelayStep
<1>4. UNCHANGED managers
  BY DEF client
<1>5. ShownIsOldest' /\ NewestIsSomewhere'
  BY <1>2, <1>3, <1>4, ManagersMove
<1> QED
  BY <1>1, <1>3, <1>5 DEF Inv, PageInv

LEMMA FanOutStep ==
    ASSUME Inv, NEW c \in Channel, FanOut(c), UNCHANGED <<client, faults>>
    PROVE  Inv'
<1> DEFINE message == Head(inbox[c])
<1>1. /\ RelayInv' /\ UNCHANGED <<published, wire>>
      /\ inbox[c] # <<>> /\ message \in Message /\ Home(message) = c
      /\ \A d \in Channel : \A i \in DOMAIN inbox'[d] :
            \E j \in DOMAIN inbox[d] : inbox'[d][i] = inbox[d][j]
      /\ \E i \in DOMAIN inbox[c] : message = inbox[c][i]
  BY FanOutKeeps DEF Inv
<1>2. /\ \A s \in Socket : DOMAIN slots'[s] = DOMAIN slots[s]
      /\ \A s \in Socket : \A d \in DOMAIN slots[s] :
            \/ d = c /\ Takes(slots[s][d], slots'[s][d], message)
            \/ slots'[s][d] = slots[s][d]
  BY FanOutTakes DEF Inv, RelayInv
<1> HIDE DEF message
<1>3. \A s \in Socket : \A d \in DOMAIN slots[s] : slots'[s][d].filter = slots[s][d].filter
  BY <1>2, TakesFacts
<1>4. /\ TypeOK' /\ LastIsMounted' /\ SlotsAreOpen' /\ TicketsAreIssued' /\ TicketAdmitsOnce'
      /\ UNCHANGED <<selected, shown>> /\ Current' = Current
  BY <1>1, <1>2, <1>3, RelayStep DEF Inv, TypeOK
<1>5. ASSUME selected # None, NEW d \in DOMAIN slots[Current]
      PROVE  /\ d \in Channel /\ slots[Current][d].queue \in Seq(Message)
             /\ Len(slots[Current][d].queue) <= QueueMax
             /\ \/ /\ d = c /\ slots'[Current][d].queue = Queued(slots[Current][d].queue, message)
                   /\ slots'[Current][d].newest = message.n
                \/ slots'[Current][d] = slots[Current][d]
  <2>1. Current \in Socket /\ RelayTypeOK
    BY <1>5, MountedFacts DEF Inv, RelayInv
  <2>2. /\ d \in Channel /\ slots[Current][d].queue \in Seq(Message)
        /\ Len(slots[Current][d].queue) <= QueueMax
    BY <1>5, <2>1, SlotFacts
  <2>3. CASE d = c /\ Takes(slots[Current][d], slots'[Current][d], message)
    BY <2>2, <2>3, TakesFacts
  <2> QED
    BY <1>2, <1>5, <2>1, <2>2, <2>3
<1>6. ShownIsOldest'
  <2> SUFFICES ASSUME selected # None, NEW k \in Kind, shown[k] # None
               PROVE  LET h == Home(shown[k]) IN
                      /\ shown[k].kind = k /\ shown[k].loco = selected /\ shown[k].n <= published
                      /\ \A i \in DOMAIN inbox'[h] : shown[k].n < inbox'[h][i].n
                      /\ \A i \in DOMAIN wire[Current] :
                            wire[Current][i].kind = k => shown[k].n < wire[Current][i].n
                      /\ h \in DOMAIN slots'[Current] =>
                            \A i \in DOMAIN slots'[Current][h].queue :
                                shown[k].n < slots'[Current][h].queue[i].n
    BY <1>1, <1>4, ShownByOldest, Zenon DEF IsOldest
  <2> DEFINE h == Home(shown[k])
  <2>1. /\ h \in Channel
        /\ shown[k].kind = k /\ shown[k].loco = selected /\ shown[k].n <= published
        /\ \A i \in DOMAIN inbox[h] : shown[k].n < inbox[h][i].n
        /\ \A i \in DOMAIN wire[Current] :
              wire[Current][i].kind = k => shown[k].n < wire[Current][i].n
        /\ h \in DOMAIN slots[Current] =>
              \A i \in DOMAIN slots[Current][h].queue : shown[k].n < slots[Current][h].queue[i].n
    BY ShownFacts
  <2> HIDE DEF h
  <2>2. \A i \in DOMAIN inbox'[h] : shown[k].n < inbox'[h][i].n
    BY <1>1, <2>1
  <2>3. ASSUME h \in DOMAIN slots'[Current], NEW i \in DOMAIN slots'[Current][h].queue
        PROVE  shown[k].n < slots'[Current][h].queue[i].n
    <3>1. h \in DOMAIN slots[Current]
      BY <1>2, <2>3, MountedFacts
    <3>2. CASE slots'[Current][h] = slots[Current][h]
      BY <2>1, <2>3, <3>1, <3>2
    <3>3. CASE h = c /\ slots'[Current][h].queue = Queued(slots[Current][h].queue, message)
      <4>1. shown[k].n < message.n
        BY <1>1, <2>1, <3>3
      <4>2. \/ slots'[Current][h].queue[i] = message
            \/ \E j \in DOMAIN slots[Current][h].queue :
                    slots[Current][h].queue[j] = slots'[Current][h].queue[i]
        BY <1>1, <1>5, <2>3, <3>1, <3>3, QueuedFacts
      <4> QED
        BY <2>1, <3>1, <4>1, <4>2
    <3> QED
      BY <1>5, <3>1, <3>2, <3>3
  <2> QED
    BY <2>1, <2>2, <2>3 DEF h
<1>7. NewestIsSomewhere'
  <2> SUFFICES ASSUME selected # None, NEW d \in DOMAIN slots'[Current],
                      slots'[Current][d].newest > 0
               PROVE  \/ \E i \in DOMAIN slots'[Current][d].queue :
                            slots'[Current][d].queue[i].n = slots'[Current][d].newest
                      \/ \E i \in DOMAIN wire[Current] :
                            /\ wire[Current][i].kind = d.kind
                            /\ wire[Current][i].n = slots'[Current][d].newest
                      \/ shown[d.kind] # None /\ shown[d.kind].n = slots'[Current][d].newest
    BY <1>1, <1>4 DEF NewestIsSomewhere
  <2>1. d \in DOMAIN slots[Current]
    BY <1>2, MountedFacts
  <2>2. CASE slots'[Current][d] = slots[Current][d]
    BY <2>1, <2>2 DEF Inv, PageInv, NewestIsSomewhere
  <2>3. CASE /\ slots'[Current][d].queue = Queued(slots[Current][d].queue, message)
             /\ slots'[Current][d].newest = message.n
    <3>1. \E i \in DOMAIN Queued(slots[Current][d].queue, message) :
            Queued(slots[Current][d].queue, message)[i] = message
      BY <1>1, <1>5, <2>1, QueuedFacts
    <3> QED
      BY <2>3, <3>1
  <2> QED
    BY <1>5, <2>1, <2>2, <2>3
<1> QED
  BY <1>1, <1>4, <1>6, <1>7 DEF Inv, PageInv

LEMMA SendsStep ==
    ASSUME Inv, NEW s \in Socket, NEW c \in DOMAIN slots[s], Sends(s, c), UNCHANGED <<client, faults>>
    PROVE  Inv'
<1> DEFINE queue == slots[s][c].queue
           frame == Head(queue)
<1>1. RelayInv'
  BY SendsKeeps DEF Inv
<1>2. /\ UNCHANGED <<published, inbox>>
      /\ \A r \in Socket : DOMAIN slots'[r] = DOMAIN slots[r]
      /\ \A r \in Socket : \A d \in DOMAIN slots[r] :
            \/ (r # s \/ d # c) /\ slots'[r][d] = slots[r][d]
            \/ /\ r = s /\ d = c /\ slots'[r][d].queue = Tail(queue)
               /\ slots'[r][d].filter = slots[r][d].filter
               /\ slots'[r][d].newest = slots[r][d].newest
  <2>1. /\ UNCHANGED <<published, inbox>>
        /\ \A r \in Socket : DOMAIN slots'[r] = DOMAIN slots[r]
    BY DEF Sends
  <2>2. ASSUME NEW r \in Socket, NEW d \in DOMAIN slots[r]
        PROVE  \/ (r # s \/ d # c) /\ slots'[r][d] = slots[r][d]
               \/ /\ r = s /\ d = c /\ slots'[r][d].queue = Tail(queue)
                  /\ slots'[r][d].filter = slots[r][d].filter
                  /\ slots'[r][d].newest = slots[r][d].newest
    <3>1. CASE r = s /\ d = c
      <4>1. slots'[r][d] = [queue |-> Tail(queue), filter |-> slots[s][c].filter,
                            newest |-> slots[s][c].newest]
        BY <3>1 DEF Sends
      <4> HIDE DEF queue
      <4> QED
        BY <3>1, <4>1
    <3>2. CASE r # s \/ d # c
      BY <3>2 DEF Sends
    <3> QED
      BY <3>1, <3>2
  <2> QED
    BY <2>1, <2>2
<1>3. /\ queue \in Seq(Message) /\ queue # <<>> /\ frame \in Message
      /\ frame = queue[1] /\ 1 \in DOMAIN queue
      /\ \A i \in DOMAIN Tail(queue) : i + 1 \in DOMAIN queue /\ Tail(queue)[i] = queue[i + 1]
      /\ \A i \in DOMAIN queue : i # 1 => i - 1 \in DOMAIN Tail(queue) /\ Tail(queue)[i - 1] = queue[i]
  BY SlotFacts, TailFacts DEF Sends, Inv, RelayInv
<1>4. Home(frame) = c /\ frame.kind = c.kind
  BY <1>3, HomeOfMessage DEF Inv, RelayInv, QueueInOrder
<1>5. \A r \in Socket : r # s => wire'[r] = wire[r]
  BY DEF Sends, Inv, RelayInv, RelayTypeOK
<1>6. /\ \A i \in DOMAIN wire'[s] :
            wire'[s][i] = frame \/ (i \in DOMAIN wire[s] /\ wire'[s][i] = wire[s][i])
      /\ \A i \in DOMAIN wire[s] : i \in DOMAIN wire'[s] /\ wire'[s][i] = wire[s][i]
      /\ \E i \in DOMAIN wire'[s] : wire'[s][i] = frame
  <2>1. wire[s] \in Seq(Message) /\ wire'[s] = Append(wire[s], frame)
    BY DEF Sends, Inv, RelayInv, RelayTypeOK
  <2> QED
    BY <1>3, <2>1, AppendFacts
<1> HIDE DEF frame
<1>7. /\ TypeOK' /\ LastIsMounted' /\ SlotsAreOpen' /\ TicketsAreIssued' /\ TicketAdmitsOnce'
      /\ UNCHANGED <<selected, shown>> /\ Current' = Current
  <2>1. \A r \in Socket : \A d \in DOMAIN slots[r] : slots'[r][d].filter = slots[r][d].filter
    BY <1>2
  <2> QED
    BY <1>1, <1>2, <2>1, RelayStep DEF Inv, TypeOK
<1>8. selected # None => Current \in Socket
  BY MountedFacts
<1>9. ShownIsOldest'
  <2> SUFFICES ASSUME selected # None, NEW k \in Kind, shown[k] # None
               PROVE  LET h == Home(shown[k]) IN
                      /\ shown[k].kind = k /\ shown[k].loco = selected /\ shown[k].n <= published
                      /\ \A i \in DOMAIN inbox[h] : shown[k].n < inbox[h][i].n
                      /\ \A i \in DOMAIN wire'[Current] :
                            wire'[Current][i].kind = k => shown[k].n < wire'[Current][i].n
                      /\ h \in DOMAIN slots'[Current] =>
                            \A i \in DOMAIN slots'[Current][h].queue :
                                shown[k].n < slots'[Current][h].queue[i].n
    BY <1>2, <1>7 DEF ShownIsOldest, Home
  <2> DEFINE h == Home(shown[k])
  <2>1. /\ h = ChannelOf(k, selected)
        /\ shown[k].kind = k /\ shown[k].loco = selected /\ shown[k].n <= published
        /\ \A i \in DOMAIN inbox[h] : shown[k].n < inbox[h][i].n
        /\ \A i \in DOMAIN wire[Current] :
              wire[Current][i].kind = k => shown[k].n < wire[Current][i].n
        /\ h \in DOMAIN slots[Current] =>
              \A i \in DOMAIN slots[Current][h].queue : shown[k].n < slots[Current][h].queue[i].n
    BY ShownFacts
  <2> HIDE DEF h
  <2>2. ASSUME NEW i \in DOMAIN wire'[Current], wire'[Current][i].kind = k
        PROVE  shown[k].n < wire'[Current][i].n
    <3>1. CASE Current # s
      BY <1>5, <1>8, <2>1, <2>2, <3>1
    <3>2. CASE Current = s
      <4>1. CASE i \in DOMAIN wire[s] /\ wire'[s][i] = wire[s][i]
        BY <2>1, <2>2, <3>2, <4>1
      <4>2. CASE wire'[s][i] = frame
        <5>1. c = ChannelOf(c.kind, selected) /\ c.kind = k
          BY <1>4, <2>2, <3>2, <4>2, SlotIsSelected
        <5>2. h = c /\ h \in DOMAIN slots[Current]
          BY <2>1, <3>2, <5>1
        <5> QED
          BY <1>3, <2>1, <3>2, <4>2, <5>2
      <4> QED
        BY <1>6, <2>2, <3>2, <4>1, <4>2
    <3> QED
      BY <3>1, <3>2
  <2>3. ASSUME h \in DOMAIN slots'[Current], NEW i \in DOMAIN slots'[Current][h].queue
        PROVE  shown[k].n < slots'[Current][h].queue[i].n
    <3>1. h \in DOMAIN slots[Current]
      BY <1>2, <1>8, <2>3
    <3>2. CASE slots'[Current][h] = slots[Current][h]
      BY <2>1, <2>3, <3>1, <3>2
    <3>3. CASE Current = s /\ h = c /\ slots'[Current][h].queue = Tail(queue)
      BY <1>3, <2>1, <2>3, <3>1, <3>3
    <3> QED
      BY <1>2, <1>8, <3>1, <3>2, <3>3
  <2> QED
    BY <2>1, <2>2, <2>3 DEF h
<1>10. NewestIsSomewhere'
  <2> SUFFICES ASSUME selected # None, NEW d \in DOMAIN slots'[Current],
                      slots'[Current][d].newest > 0
               PROVE  \/ \E i \in DOMAIN slots'[Current][d].queue :
                            slots'[Current][d].queue[i].n = slots'[Current][d].newest
                      \/ \E i \in DOMAIN wire'[Current] :
                            /\ wire'[Current][i].kind = d.kind
                            /\ wire'[Current][i].n = slots'[Current][d].newest
                      \/ shown[d.kind] # None /\ shown[d.kind].n = slots'[Current][d].newest
    BY <1>7 DEF NewestIsSomewhere
  <2>1. d \in DOMAIN slots[Current] /\ slots'[Current][d].newest = slots[Current][d].newest
    BY <1>2, <1>8
  <2>2. \/ \E i \in DOMAIN slots[Current][d].queue :
              slots[Current][d].queue[i].n = slots[Current][d].newest
        \/ \E i \in DOMAIN wire[Current] :
              wire[Current][i].kind = d.kind /\ wire[Current][i].n = slots[Current][d].newest
        \/ shown[d.kind] # None /\ shown[d.kind].n = slots[Current][d].newest
    BY <2>1 DEF Inv, PageInv, NewestIsSomewhere
  <2>3. CASE \E i \in DOMAIN wire[Current] :
              wire[Current][i].kind = d.kind /\ wire[Current][i].n = slots[Current][d].newest
    <3>1. \A i \in DOMAIN wire[Current] : i \in DOMAIN wire'[Current] /\ wire'[Current][i] = wire[Current][i]
      BY <1>5, <1>6, <1>8
    <3> QED
      BY <2>1, <2>3, <3>1
  <2>4. CASE \E i \in DOMAIN slots[Current][d].queue :
              slots[Current][d].queue[i].n = slots[Current][d].newest
    <3>1. CASE slots'[Current][d] = slots[Current][d]
      BY <2>1, <2>4, <3>1
    <3>2. CASE Current = s /\ d = c /\ slots'[Current][d].queue = Tail(queue)
      <4>1. PICK i \in DOMAIN queue : queue[i].n = slots[Current][d].newest
        BY <2>4, <3>2
      <4>2. CASE i = 1
        BY <1>3, <1>4, <1>6, <2>1, <3>2, <4>1, <4>2
      <4>3. CASE i # 1
        <5>1. i - 1 \in DOMAIN Tail(queue) /\ Tail(queue)[i - 1] = queue[i]
          BY <1>3, <4>3
        <5> QED
          BY <2>1, <3>2, <4>1, <5>1
      <4> QED
        BY <4>2, <4>3
    <3> QED
      BY <1>2, <1>8, <2>1, <3>1, <3>2
  <2> QED
    BY <2>1, <2>2, <2>3, <2>4
<1> QED
  BY <1>1, <1>7, <1>9, <1>10 DEF Inv, PageInv

\* What the page shows after a frame: the frame, or what it showed.
LEMMA ReceiveFacts ==
    ASSUME Inv, NEW m \in DOMAIN managers, Receive(m)
    PROVE  /\ m \in Socket /\ wire[m] \in Seq(Message) /\ wire[m] # <<>>
           /\ \/ (selected = None \/ m # Current) /\ shown' = shown
              \/ /\ selected # None /\ m = Current
                 /\ shown' = [shown EXCEPT ![Head(wire[m]).kind] = Head(wire[m])]
<1> DEFINE frame == Head(wire[m])
<1>1. m \in Socket /\ managers[m] \in Manager
  BY ManagerFacts DEF Inv
<1>2. wire[m] \in Seq(Message) /\ wire[m] # <<>>
  BY <1>1 DEF Receive, Inv, RelayInv, RelayTypeOK
<1>3. shown' = IF managers[m].disposed THEN shown ELSE [shown EXCEPT ![frame.kind] = frame]
  BY DEF Receive, Handled
<1> HIDE DEF frame
<1>4. managers[m].loco # None
  BY <1>1, DashboardAssumption DEF Manager
<1>5. ~managers[m].disposed <=> (selected # None /\ m = Current)
  <2>1. ~managers[m].disposed => m = Current /\ selected = managers[m].loco
    BY DEF Inv, PageInv, LastIsMounted
  <2>2. selected # None => ~managers[Current].disposed
    BY DEF Inv, PageInv, LastIsMounted
  <2> QED
    BY <1>4, <2>1, <2>2
<1> QED
  BY <1>1, <1>2, <1>3, <1>5 DEF frame

\* The frame that arrives at the mounted page.
LEMMA ArrivingFrame ==
    ASSUME Inv, selected # None, wire[Current] # <<>>
    PROVE  LET frame == Head(wire[Current])
               h     == Home(frame) IN
           /\ frame \in Message /\ frame.kind \in Kind /\ frame.n \in Nat
           /\ frame.loco = selected /\ h = ChannelOf(frame.kind, selected)
           /\ h \in Channel /\ h.kind = frame.kind /\ h \in DOMAIN slots[Current]
           /\ frame.n <= slots[Current][h].newest /\ frame.n <= published
           /\ \A i \in DOMAIN inbox[h] : frame.n < inbox[h][i].n
           /\ \A i \in DOMAIN slots[Current][h].queue : frame.n < slots[Current][h].queue[i].n
           /\ \A i \in DOMAIN Tail(wire[Current]) :
                Tail(wire[Current])[i].kind = frame.kind => frame.n < Tail(wire[Current])[i].n
           /\ \A k \in Kind : frame.kind = k /\ shown[k] # None => shown[k].n < frame.n
<1> DEFINE frame == Head(wire[Current])
           h     == Home(frame)
<1>1. Current \in Socket
  BY MountedFacts
<1>2. wire[Current] \in Seq(Message)
  BY <1>1 DEF Inv, RelayInv, RelayTypeOK
<1>3. frame = wire[Current][1] /\ 1 \in DOMAIN wire[Current] /\ frame \in Message
  BY <1>2, TailFacts
<1>4. frame.kind \in Kind /\ frame.n \in Nat /\ h \in Channel /\ h.kind = frame.kind
  BY <1>3, MessageFacts, HomeOfMessage
<1>5. /\ h \in DOMAIN slots[Current] /\ Passes(slots[Current][h], frame)
      /\ frame.n <= slots[Current][h].newest
      /\ \A i \in DOMAIN slots[Current][h].queue : frame.n < slots[Current][h].queue[i].n
  BY <1>1, <1>3 DEF Inv, RelayInv, WireInOrder
<1>6. frame.loco = selected /\ h = ChannelOf(frame.kind, selected)
  BY <1>3, <1>5, MessageIsSelected
<1>7. slots[Current][h].newest \in Nat /\ slots[Current][h].newest <= published
      /\ \A i \in DOMAIN inbox[h] : slots[Current][h].newest < inbox[h][i].n
  BY <1>1, <1>5, SlotFacts DEF Inv, RelayInv, QueueInOrder
<1>8. ASSUME NEW i \in DOMAIN inbox[h] PROVE frame.n < inbox[h][i].n
  <2>1. inbox[h][i] \in Message
    BY <1>4, ElementOfSeq, LenProperties DEF Inv, RelayInv, RelayTypeOK
  <2> QED
    BY <1>4, <1>5, <1>7, <2>1, MessageFacts
<1>9. frame.n <= published
  BY <1>4, <1>5, <1>7 DEF Inv, RelayInv, RelayTypeOK
<1>10. \A i \in DOMAIN Tail(wire[Current]) :
            Tail(wire[Current])[i].kind = frame.kind => frame.n < Tail(wire[Current])[i].n
  BY <1>1, <1>2, AscendingTail DEF Inv, RelayInv, WireInOrder
<1>11. \A k \in Kind : frame.kind = k /\ shown[k] # None => shown[k].n < frame.n
  BY <1>3, ShownFacts
<1> QED
  BY <1>3, <1>4, <1>5, <1>6, <1>8, <1>9, <1>10, <1>11

LEMMA ReceiveKeeps ==
    ASSUME Inv, NEW m \in DOMAIN managers, Receive(m)
    PROVE  Inv'
<1> DEFINE frame == Head(wire[m])
<1>1. /\ m \in Socket /\ wire[m] \in Seq(Message) /\ wire[m] # <<>>
      /\ \/ (selected = None \/ m # Current) /\ shown' = shown
         \/ selected # None /\ m = Current /\ shown' = [shown EXCEPT ![frame.kind] = frame]
  BY ReceiveFacts
<1>2. /\ Arrives(m) /\ UNCHANGED <<published, inbox, slots>>
      /\ UNCHANGED <<rendered, selected, status, managers, stored, issued, faults>>
      /\ wire' = [wire EXCEPT ![m] = Tail(@)]
  BY DEF Arrives, Receive
<1>3. RelayInv'
  BY <1>1, <1>2, ArrivesKeeps DEF Inv
<1>4. wire'[m] = Tail(wire[m]) /\ \A r \in Socket : r # m => wire'[r] = wire[r]
  BY <1>1, <1>2 DEF Inv, RelayInv, RelayTypeOK
<1>5. shown \in [Kind -> Message \cup {None}] /\ frame \in Message /\ frame.kind \in Kind
  BY <1>1, TailFacts, MessageFacts DEF Inv, TypeOK
<1>6. TypeOK'
  BY <1>1, <1>2, <1>3, <1>5 DEF Inv, TypeOK, RelayInv
<1>7. LastIsMounted' /\ SlotsAreOpen' /\ TicketsAreIssued' /\ TicketAdmitsOnce' /\ Current' = Current
  BY <1>2 DEF Inv, PageInv, LastIsMounted, SlotsAreOpen, TicketsAreIssued, TicketAdmitsOnce, Current
<1>8. selected # None => Current \in Socket
  BY MountedFacts
<1> HIDE DEF frame
<1>9. CASE selected # None /\ m = Current
  <2> DEFINE h == Home(frame)
  <2>1. /\ frame \in Message /\ frame.kind \in Kind /\ frame.n \in Nat
        /\ frame.loco = selected /\ h = ChannelOf(frame.kind, selected)
        /\ h \in Channel /\ h.kind = frame.kind /\ h \in DOMAIN slots[Current]
        /\ frame.n <= slots[Current][h].newest /\ frame.n <= published
        /\ \A i \in DOMAIN inbox[h] : frame.n < inbox[h][i].n
        /\ \A i \in DOMAIN slots[Current][h].queue : frame.n < slots[Current][h].queue[i].n
        /\ \A i \in DOMAIN Tail(wire[Current]) :
              Tail(wire[Current])[i].kind = frame.kind => frame.n < Tail(wire[Current])[i].n
    BY <1>1, <1>9, ArrivingFrame DEF frame
  <2>2. /\ shown'[frame.kind] = frame
        /\ \A k \in Kind : k # frame.kind => shown'[k] = shown[k]
    BY <1>1, <1>5, <1>9
  <2>3. ASSUME NEW i \in DOMAIN Tail(wire[m])
        PROVE  i + 1 \in DOMAIN wire[m] /\ Tail(wire[m])[i] = wire[m][i + 1]
    BY <1>1, TailFacts
  <2>4. ShownIsOldest'
    <3> SUFFICES ASSUME NEW k \in Kind, shown'[k] # None
                 PROVE  IsOldest(shown'[k], k, selected, published, inbox, wire'[Current], slots[Current])
      BY <1>2, <1>7, ShownByOldest, Zenon
    <3> SUFFICES LET g == Home(shown'[k]) IN
                        /\ shown'[k].kind = k /\ shown'[k].loco = selected
                        /\ shown'[k].n <= published
                        /\ \A i \in DOMAIN inbox[g] : shown'[k].n < inbox[g][i].n
                        /\ \A i \in DOMAIN wire'[Current] :
                              wire'[Current][i].kind = k => shown'[k].n < wire'[Current][i].n
                        /\ g \in DOMAIN slots[Current] =>
                              \A i \in DOMAIN slots[Current][g].queue :
                                  shown'[k].n < slots[Current][g].queue[i].n
      BY Zenon DEF IsOldest
    <3>1. CASE k = frame.kind
      <4> HIDE DEF h
      <4>1. shown'[k] = frame /\ wire'[Current] = Tail(wire[Current])
        BY <1>4, <1>9, <2>2, <3>1
      <4> QED
        BY <2>1, <3>1, <4>1 DEF h
    <3>2. CASE k # frame.kind
      <4>1. shown'[k] = shown[k]
        BY <2>2, <3>2
      <4> DEFINE g == Home(shown[k])
      <4>2. /\ shown[k].kind = k /\ shown[k].loco = selected /\ shown[k].n <= published
            /\ \A i \in DOMAIN inbox[g] : shown[k].n < inbox[g][i].n
            /\ \A i \in DOMAIN wire[Current] :
                  wire[Current][i].kind = k => shown[k].n < wire[Current][i].n
            /\ g \in DOMAIN slots[Current] =>
                  \A i \in DOMAIN slots[Current][g].queue : shown[k].n < slots[Current][g].queue[i].n
        BY <1>9, <4>1, ShownFacts
      <4> HIDE DEF g
      <4>3. \A i \in DOMAIN wire'[Current] :
                wire'[Current][i].kind = k => shown[k].n < wire'[Current][i].n
        <5>1. wire'[Current] = Tail(wire[m])
          BY <1>4, <1>9
        <5> QED
          BY <1>9, <2>3, <4>2, <5>1
      <4> QED
        BY <4>1, <4>2, <4>3 DEF g
    <3> QED
      BY <3>1, <3>2
  <2>5. NewestIsSomewhere'
    <3> SUFFICES ASSUME NEW d \in DOMAIN slots[Current], slots[Current][d].newest > 0,
                        ~ \E i \in DOMAIN slots[Current][d].queue :
                              slots[Current][d].queue[i].n = slots[Current][d].newest
                 PROVE  \/ \E i \in DOMAIN wire'[Current] :
                              /\ wire'[Current][i].kind = d.kind
                              /\ wire'[Current][i].n = slots[Current][d].newest
                        \/ shown'[d.kind] # None /\ shown'[d.kind].n = slots[Current][d].newest
      BY <1>2, <1>7 DEF NewestIsSomewhere
    <3>1. d.kind \in Kind /\ d = ChannelOf(d.kind, selected) /\ d \in Channel
          /\ slots[Current][d].newest \in Nat
      BY <1>8, <1>9, SlotIsSelected, SlotFacts DEF Inv, RelayInv
    <3>2. \/ \E i \in DOMAIN wire[Current] :
                wire[Current][i].kind = d.kind /\ wire[Current][i].n = slots[Current][d].newest
          \/ shown[d.kind] # None /\ shown[d.kind].n = slots[Current][d].newest
      BY <1>9 DEF Inv, PageInv, NewestIsSomewhere
    <3>3. frame # None
      BY <2>1, DashboardAssumption
    <3>4. CASE shown[d.kind] # None /\ shown[d.kind].n = slots[Current][d].newest
      <4>1. frame.kind # d.kind
        <5> SUFFICES ASSUME frame.kind = d.kind PROVE FALSE
          OBVIOUS
        <5>1. shown[d.kind].n < frame.n
          BY <1>1, <1>9, <3>1, <3>4, ArrivingFrame DEF frame
        <5>2. d = h
          BY <2>1, <3>1
        <5> HIDE DEF h
        <5>3. frame.n <= slots[Current][d].newest
          BY <2>1, <5>2, Zenon
        <5>4. slots[Current][d].newest < frame.n
          BY <3>4, <5>1, Zenon
        <5>5. frame.n \in Nat /\ slots[Current][d].newest \in Nat
          BY <2>1, <3>1, Zenon
        <5> QED
          BY <5>3, <5>4, <5>5
      <4> QED
        BY <2>2, <3>1, <3>4, <4>1
    <3>5. CASE \E i \in DOMAIN wire[Current] :
                wire[Current][i].kind = d.kind /\ wire[Current][i].n = slots[Current][d].newest
      <4>1. PICK i \in DOMAIN wire[Current] :
                wire[Current][i].kind = d.kind /\ wire[Current][i].n = slots[Current][d].newest
        BY <3>5
      <4>2. CASE i = 1
        <5>1. frame = wire[Current][1]
          BY <1>1, <1>9, TailFacts DEF frame
        <5> QED
          BY <2>2, <3>3, <4>1, <4>2, <5>1
      <4>3. CASE i # 1
        <5>1. i - 1 \in DOMAIN wire'[Current] /\ wire'[Current][i - 1] = wire[Current][i]
          <6>1. i - 1 \in DOMAIN Tail(wire[m]) /\ Tail(wire[m])[i - 1] = wire[m][i]
            BY <1>1, <1>9, <4>3, TailFacts
          <6>2. wire'[Current] = Tail(wire[m])
            BY <1>4, <1>9
          <6> QED
            BY <1>9, <6>1, <6>2
        <5> QED
          BY <4>1, <5>1
      <4> QED
        BY <4>2, <4>3
    <3> QED
      BY <3>2, <3>4, <3>5
  <2> QED
    BY <1>3, <1>6, <1>7, <2>4, <2>5 DEF Inv, PageInv
<1>10. CASE selected = None
  <2>1. ShownIsOldest' /\ NewestIsSomewhere'
    BY <1>2, <1>10 DEF ShownIsOldest, NewestIsSomewhere
  <2> QED
    BY <1>3, <1>6, <1>7, <2>1 DEF Inv, PageInv
<1>11. CASE selected # None /\ m # Current
  <2>1. shown' = shown /\ wire'[Current] = wire[Current]
    BY <1>1, <1>4, <1>8, <1>11
  <2>2. ShownIsOldest'
    <3> SUFFICES ASSUME NEW k \in Kind, shown'[k] # None
                 PROVE  IsOldest(shown'[k], k, selected, published, inbox, wire'[Current], slots[Current])
      BY <1>2, <1>7, ShownByOldest, Zenon
    <3> SUFFICES LET h == Home(shown'[k]) IN
                        /\ shown'[k].kind = k /\ shown'[k].loco = selected
                        /\ shown'[k].n <= published
                        /\ \A i \in DOMAIN inbox[h] : shown'[k].n < inbox[h][i].n
                        /\ \A i \in DOMAIN wire'[Current] :
                              wire'[Current][i].kind = k => shown'[k].n < wire'[Current][i].n
                        /\ h \in DOMAIN slots[Current] =>
                              \A i \in DOMAIN slots[Current][h].queue :
                                  shown'[k].n < slots[Current][h].queue[i].n
      BY Zenon DEF IsOldest
    <3> QED
      BY <1>11, <2>1 DEF Inv, PageInv, ShownIsOldest
  <2>3. NewestIsSomewhere'
    <3> SUFFICES ASSUME NEW c \in DOMAIN slots[Current], slots[Current][c].newest > 0
                 PROVE  \/ \E i \in DOMAIN slots[Current][c].queue :
                              slots[Current][c].queue[i].n = slots[Current][c].newest
                        \/ \E i \in DOMAIN wire'[Current] :
                              /\ wire'[Current][i].kind = c.kind
                              /\ wire'[Current][i].n = slots[Current][c].newest
                        \/ shown[c.kind] # None /\ shown[c.kind].n = slots[Current][c].newest
      BY <1>2, <1>7, <2>1 DEF NewestIsSomewhere
    <3> QED
      BY <1>11, <2>1 DEF Inv, PageInv, NewestIsSomewhere
  <2> QED
    BY <1>3, <1>6, <1>7, <2>2, <2>3 DEF Inv, PageInv
<1> QED
  BY <1>9, <1>10, <1>11

-----------------------------------------------------------------------------
(* The invariant holds.                                                    *)

LEMMA InitInv == Init => Inv
<1> SUFFICES ASSUME Init PROVE Inv
  OBVIOUS
<1>1. DOMAIN <<>> = {} /\ Len(<<>>) = 0 /\ Current = 0
  BY EmptySeq DEF Init, Current
<1>2. RelayTypeOK
  BY EmptySeq, RelayAssumption DEF Init, RelayInit, RelayTypeOK, NoSlots
<1>3. \A s \in Socket : DOMAIN slots[s] = {} /\ wire[s] = <<>>
  BY <1>1 DEF Init, RelayInit, NoSlots
<1>4. \A c \in Channel : inbox[c] = <<>>
  BY DEF Init, RelayInit
<1>5. RelayInv
  BY <1>1, <1>2, <1>3, <1>4
     DEF RelayInv, InboxInOrder, QueueInOrder, WireInOrder, OneSlotPerKind, Ascending
<1>6. Cardinality(Socket) \in Nat
  BY FS_CardinalityType, DashboardAssumption
<1>7. TypeOK
  BY <1>1, <1>2, <1>6, EmptySeq, DashboardAssumption DEF Init, TypeOK, Status, Blank
<1>8. PageInv
  BY <1>1, <1>3 DEF Init, PageInv, LastIsMounted, SlotsAreOpen, ShownIsOldest, NewestIsSomewhere,
                    TicketsAreIssued, TicketAdmitsOnce
<1> QED
  BY <1>5, <1>7, <1>8 DEF Inv

LEMMA StutterInv ==
    ASSUME Inv, UNCHANGED vars
    PROVE  Inv'
<1>1. UNCHANGED relayVars /\ UNCHANGED <<rendered, selected, status, shown, managers,
                                         stored, issued, faults>>
  BY DEF vars, pageVars
<1>2. RelayInv' /\ Closes({})
  BY <1>1, NothingCloses
<1>3. LastIsMounted' /\ SlotsAreOpen' /\ ShownIsOldest' /\ NewestIsSomewhere'
  BY <1>1, <1>2, ManagersMove
<1>4. TicketsAreIssued' /\ TicketAdmitsOnce'
  BY <1>1 DEF Inv, PageInv, TicketsAreIssued, TicketAdmitsOnce
<1>5. TypeOK'
  BY <1>1, <1>2 DEF Inv, TypeOK, RelayInv
<1> QED
  BY <1>2, <1>3, <1>4, <1>5 DEF Inv, PageInv

\* A render that waits for its effects changes nothing the invariant is about.
LEMMA RenderKeeps ==
    ASSUME Inv, NEW l \in Locomotive \cup {None}, Render(l)
    PROVE  Inv'
<1>1. /\ UNCHANGED relayVars /\ rendered' = l
      /\ UNCHANGED <<selected, status, shown, managers, stored, issued, faults>>
  BY DEF Render
<1>2. RelayInv' /\ Closes({})
  BY <1>1, NothingCloses
<1>3. LastIsMounted' /\ SlotsAreOpen' /\ ShownIsOldest' /\ NewestIsSomewhere'
  BY <1>1, <1>2, ManagersMove
<1>4. TicketsAreIssued' /\ TicketAdmitsOnce'
  BY <1>1 DEF Inv, PageInv, TicketsAreIssued, TicketAdmitsOnce
<1>5. TypeOK'
  BY <1>1, <1>2 DEF Inv, TypeOK, RelayInv
<1> QED
  BY <1>2, <1>3, <1>4, <1>5 DEF Inv, PageInv

LEMMA NextInv ==
    ASSUME Inv, [Next]_vars
    PROVE  Inv'
<1>1. ASSUME NEW l \in Locomotive, Select(l) PROVE Inv'
  BY <1>1, SelectKeeps
<1>2. CASE Unmount
  BY <1>2, UnmountKeeps
<1>3. CASE TicketIssued \/ TicketDenied
  BY <1>3, TicketIssuedKeeps, TicketDeniedKeeps
<1>4. ASSUME NEW t \in 1..issued, TicketExpires(t) PROVE Inv'
  BY <1>4, TicketExpiresKeeps
<1>5. ASSUME NEW m \in DOMAIN managers, Connecting(m) PROVE Inv'
  BY <1>5, HandshakeAcceptedKeeps, HandshakeRefusedKeeps, TimerFiresKeeps DEF Connecting
<1>6. ASSUME NEW m \in DOMAIN managers, Lost(m) \/ ClosedByServer(m) \/ Receive(m) PROVE Inv'
  BY <1>6, LostKeeps, ClosedByServerKeeps, ReceiveKeeps
<1>7. ASSUME NEW k \in Kind, NEW l \in Locomotive, Publish(k, l), UNCHANGED <<client, faults>>
      PROVE  Inv'
  BY <1>7, PublishStep
<1>8. ASSUME NEW c \in Channel, Listener(c), UNCHANGED <<client, faults>>
      PROVE  Inv'
  <2>1. CASE FanOut(c)
    BY <1>8, <2>1, FanOutStep
  <2>2. CASE Subscribed(c) \/ BackoffOver(c)
    <3>1. UNCHANGED client /\ faults' \in 0..MaxFaults
      BY <1>8 DEF Inv, TypeOK
    <3> QED
      BY <2>2, <3>1, ListenerStep
  <2> QED
    BY <1>8, <2>1, <2>2 DEF Listener
<1>9. ASSUME NEW c \in Channel, RelayError(c), Fault, UNCHANGED client
      PROVE  Inv'
  BY <1>9, FaultTyped, ListenerStep DEF Inv
<1>10. ASSUME NEW s \in Socket, SendFrame(s), UNCHANGED <<client, faults>>
       PROVE  Inv'
  <2>1. PICK c \in DOMAIN slots[s] : Sends(s, c)
    BY <1>10, SendFrameSends DEF Inv, RelayInv
  <2> QED
    BY <1>10, <2>1, SendsStep
<1>11. CASE UNCHANGED vars
  BY <1>11, StutterInv
<1>12. ASSUME NEW l \in Locomotive \cup {None}, Render(l) PROVE Inv'
  BY <1>12, RenderKeeps
<1> QED
  BY <1>1, <1>2, <1>3, <1>4, <1>5, <1>6, <1>7, <1>8, <1>9, <1>10, <1>11, <1>12 DEF Next

LEMMA InvHolds == Spec => []Inv
<1>1. Inv /\ [Next]_vars => Inv'
  BY NextInv
<1> QED
  BY <1>1, InitInv, PTL DEF Spec

-----------------------------------------------------------------------------
(* The theorems.                                                           *)

\* Types, the capacity of the queues and of the wire, one slot at most for each channel.
THEOREM PageIsTyped == Spec => []TypeOK
<1>1. Inv => TypeOK
  BY DEF Inv
<1> QED
  BY <1>1, InvHolds, PTL

\* useWsDispatch.ts:24-29, filter_loco_id: the slices hold only messages of the selected
\* locomotive, whatever sockets and frames of earlier pages are still under way.
THEOREM OnlyTheSelected == Spec => []ShownIsSelected
<1>1. Inv => ShownIsSelected
  BY DEF Inv, PageInv, ShownIsOldest, ShownIsSelected
<1> QED
  BY <1>1, InvHolds, PTL

\* ws_ticket.py:35-37: a ticket admits one socket.
THEOREM OneSocketPerTicket == Spec => []TicketAdmitsOnce
<1>1. Inv => TicketAdmitsOnce
  BY DEF Inv, PageInv
<1> QED
  BY <1>1, InvHolds, PTL

\* connection_manager.py:141-149: whatever the sizes of queue and wire, drop-oldest loses no
\* newest message of a mounted page.
THEOREM NewestIsNotDropped == Spec => []NewestSurvives
<1>1. ASSUME Inv PROVE NewestSurvives
  <2> SUFFICES ASSUME NEW m \in DOMAIN managers, ~managers[m].disposed,
                      NEW c \in DOMAIN slots[m], slots[m][c].newest > 0
               PROVE  \/ \E message \in Range(slots[m][c].queue) \cup Range(wire[m]) :
                            message.n = slots[m][c].newest
                      \/ shown[c.kind] # None /\ shown[c.kind].n = slots[m][c].newest
    BY DEF NewestSurvives
  <2>1. m = Current /\ selected # None
    <3>1. managers[m] \in Manager
      BY <1>1, ManagerFacts DEF Inv
    <3> QED
      BY <1>1, <3>1, DashboardAssumption DEF Inv, PageInv, LastIsMounted, Manager
  <2>2. \/ \E i \in DOMAIN slots[m][c].queue : slots[m][c].queue[i].n = slots[m][c].newest
        \/ \E i \in DOMAIN wire[m] :
              wire[m][i].kind = c.kind /\ wire[m][i].n = slots[m][c].newest
        \/ shown[c.kind] # None /\ shown[c.kind].n = slots[m][c].newest
    BY <1>1, <2>1 DEF Inv, PageInv, NewestIsSomewhere
  <2>3. /\ \A i \in DOMAIN slots[m][c].queue : slots[m][c].queue[i] \in Range(slots[m][c].queue)
        /\ \A i \in DOMAIN wire[m] : wire[m][i] \in Range(wire[m])
    BY DEF Range
  <2> QED
    BY <2>2, <2>3
<1> QED
  BY <1>1, InvHolds, PTL

\* A frame the page shows is newer than the one of its kind it replaces, across lost
\* connections, full queues and relays that subscribe anew.
THEOREM FramesOvertakeNone == Spec => ShownInOrder
<1> DEFINE InOrder == \A k \in Kind :
                shown[k] # None /\ shown'[k] \notin {None, shown[k]} => shown'[k].n > shown[k].n
<1>1. ASSUME Inv, [Next]_vars PROVE [InOrder]_vars
  <2> SUFFICES ASSUME NEW k \in Kind, shown[k] # None, shown'[k] \notin {None, shown[k]}
               PROVE  shown'[k].n > shown[k].n
    OBVIOUS
  <2>1. ASSUME NEW m \in DOMAIN managers, Receive(m) PROVE shown'[k].n > shown[k].n
    <3> DEFINE frame == Head(wire[m])
    <3>1. /\ wire[m] # <<>> /\ selected # None /\ m = Current
          /\ shown' = [shown EXCEPT ![frame.kind] = frame]
      BY <1>1, <2>1, ReceiveFacts
    <3>2. frame.kind = k /\ shown'[k] = frame
      BY <1>1, <3>1 DEF Inv, TypeOK
    <3>3. frame.n \in Nat /\ shown[k].n < frame.n
      BY <1>1, <3>1, <3>2, ArrivingFrame
    <3>4. shown[k].n \in Nat
      BY <1>1, <3>1, ShownFacts
    <3> QED
      BY <3>2, <3>3, <3>4
  <2>2. ASSUME NEW l \in Locomotive, Select(l) PROVE FALSE
    BY <2>2 DEF Select, Reset, Blank
  <2>3. CASE UNCHANGED shown
    BY <2>3
  <2>4. Next => \/ \E m \in DOMAIN managers : Receive(m)
                \/ \E l \in Locomotive : Select(l)
                \/ UNCHANGED shown
    BY DEF Next, Render, Unmount, TicketIssued, TicketDenied, TicketExpires, Connecting, HandshakeAccepted,
           HandshakeRefused, TimerFires, Lost, ClosedByServer, client, pageVars
  <2>5. UNCHANGED vars => UNCHANGED shown
    BY DEF vars, pageVars
  <2> QED
    BY <1>1, <2>1, <2>2, <2>3, <2>4, <2>5
<1>2. Inv /\ [Next]_vars => [InOrder]_vars
  BY <1>1
<1> QED
  BY <1>2, InvHolds, PTL DEF Spec, ShownInOrder
=============================================================================
