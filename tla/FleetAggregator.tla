-------------------------- MODULE FleetAggregator --------------------------
(***************************************************************************)
(* The analytics process's two listeners of health:live:*: the fleet       *)
(* aggregator (aggregator.py), which publishes a summary and the category  *)
(* changes of the fleet every interval, and the health cache               *)
(* (health_cache.py) that GetCurrentHealth answers from.  Each has a Redis *)
(* connection of its own; a connection that fails loses what it holds and  *)
(* what is published until it subscribes again.                            *)
(*                                                                         *)
(* A message is the category of a locomotive; scores, the worst ten and    *)
(* the encoding are left out.  The publisher's pipeline is not a           *)
(* transaction: the summary may go out and the changes be lost.            *)
(***************************************************************************)
EXTENDS Integers, Sequences, FiniteSets

CONSTANTS
    Locomotive,
    Category,
    Unknown,          \* the category of a locomotive nothing is known of
    MaxMessages,      \* health messages the processor publishes
    MaxFaults         \* failing connections and pipelines, and restarts

ASSUME FleetAssumption ==
    /\ Unknown \notin Category
    /\ IsFiniteSet(Locomotive)

Listener == {"aggregator", "cache"}
Channel == "health:live"

VARIABLES
    published,    \* messages published so far
    faults,       \* faults so far
    subscribed,   \* the listeners that are subscribed; the others back off
    inbox,        \* what each listener's connection holds
    fleet,        \* _fleet: the category last heard of each locomotive
    changes,      \* _changes: the changes to publish
    sending,      \* what the pipeline of the publisher holds, or Nothing
    cache,        \* health:cache:<id> in Redis
    told,         \* a subscriber's locomotiveStates: where the changes it received left it
    counted,      \* its categories: the last summary it received
    lost,         \* history: locomotives a change of which may be lost since one was received
    missed        \* history: for each listener, the locomotives whose last message it missed

subscriberVars == <<told, counted, lost>>
vars == <<published, faults, subscribed, inbox, fleet, changes, sending, cache, subscriberVars,
          missed>>

Message == [loco : Locomotive, category : Category]
Change == [loco : Locomotive, old : Category, new : Category]
Fleet == [Locomotive -> Category \cup {Unknown}]
Nothing == [summary |-> <<>>, changes |-> <<>>]

NoFleet == [l \in Locomotive |-> Unknown]

\* Mutant: the publisher computes the summary before it sleeps, the changes are newer.
Summary_BeforeSleep(f) ==
    [c \in Category |->
        Cardinality({l \in Locomotive : (IF told[l] = Unknown THEN f[l] ELSE told[l]) = c})]

\* A summary counts the locomotives of each category.
Summary(f) == [c \in Category |-> Cardinality({l \in Locomotive : f[l] = c})]

Init ==
    /\ published = 0
    /\ faults = 0
    /\ subscribed = {}
    /\ inbox = [a \in Listener |-> <<>>]
    /\ fleet = NoFleet
    /\ changes = <<>>
    /\ sending = Nothing
    /\ cache = NoFleet
    /\ told = NoFleet /\ counted = <<>> /\ lost = {}
    /\ missed = [a \in Listener |-> {}]

\* The processor publishes the health of a locomotive.
PublishHealth ==
    /\ published < MaxMessages
    /\ published' = published + 1
    /\ \E m \in Message :
        /\ inbox' = [a \in Listener |->
                        IF a \in subscribed THEN Append(inbox[a], m) ELSE inbox[a]]
        /\ missed' = [a \in Listener |->
                        IF a \in subscribed THEN missed[a] \ {m.loco} ELSE missed[a] \cup {m.loco}]
    /\ UNCHANGED <<faults, subscribed, fleet, changes, sending, cache, subscriberVars>>

\* psubscribe(), at the start and after the backoff.
Subscribe(a) ==
    /\ a \notin subscribed
    /\ subscribed' = subscribed \cup {a}
    /\ UNCHANGED <<published, faults, inbox, fleet, changes, sending, cache, subscriberVars,
                   missed>>

\* The connection of a listener fails: it closes the pubsub and backs off.
ListenerError(a) ==
    /\ faults < MaxFaults /\ faults' = faults + 1
    /\ a \in subscribed
    /\ subscribed' = subscribed \ {a}
    /\ inbox' = [inbox EXCEPT ![a] = <<>>]
    /\ missed' = [missed EXCEPT ![a] = @ \cup {inbox[a][i].loco : i \in DOMAIN inbox[a]}]
    /\ UNCHANGED <<published, fleet, changes, sending, cache, subscriberVars>>

\* Mutant: the first category of a locomotive counts as a change too.
ChangesOf_Always(m) == <<[loco |-> m.loco, old |-> fleet[m.loco], new |-> m.category]>>

\* The change a message makes to the fleet, if it makes one.
ChangesOf(m) ==
    IF fleet[m.loco] \in {Unknown, m.category}
      THEN <<>>
      ELSE <<[loco |-> m.loco, old |-> fleet[m.loco], new |-> m.category]>>

\* _update_state().
UpdateState ==
    /\ inbox["aggregator"] # <<>>
    /\ LET m == Head(inbox["aggregator"]) IN
        /\ fleet' = [fleet EXCEPT ![m.loco] = m.category]
        /\ changes' = changes \o ChangesOf(m)
    /\ inbox' = [inbox EXCEPT !["aggregator"] = Tail(@)]
    /\ UNCHANGED <<published, faults, subscribed, sending, cache, subscriberVars, missed>>

\* Mutant: the changes are left in the buffer.
Drained_Kept == changes

\* _drain_changes().
Drained == <<>>

\* Mutant: it publishes only when something has changed.
StartPublish_OnChange ==
    /\ sending = Nothing
    /\ changes # <<>>
    /\ sending' = [summary |-> Summary(fleet), changes |-> changes]
    /\ changes' = Drained
    /\ UNCHANGED <<published, faults, subscribed, inbox, fleet, cache, subscriberVars, missed>>

\* The publisher wakes up: it computes the summary, takes the changes and awaits its pipeline.
StartPublish ==
    /\ sending = Nothing
    /\ fleet # NoFleet
    /\ sending' = [summary |-> Summary(fleet), changes |-> changes]
    /\ changes' = Drained
    /\ UNCHANGED <<published, faults, subscribed, inbox, fleet, cache, subscriberVars, missed>>

\* A subscriber of fleet:changes applies the changes it is sent.
After(f, cs) ==
    [l \in Locomotive |->
        LET mine == {i \in DOMAIN cs : cs[i].loco = l} IN
        IF mine = {} THEN f[l] ELSE cs[CHOOSE i \in mine : \A j \in mine : j <= i].new]

Changed(cs) == {l \in Locomotive : \E i \in DOMAIN cs : cs[i].loco = l}

\* Mutant: the last change is left to the next pipeline, which does not have it.
Delivered_AllButLast == SubSeq(sending.changes, 1, Len(sending.changes) - 1)

\* What the pipeline publishes.
Delivered == sending.changes

\* The pipeline is executed, whether its answer arrives or not.
FinishPublish ==
    /\ sending # Nothing
    /\ told' = After(told, Delivered)
    /\ counted' = sending.summary
    /\ lost' = lost \ Changed(Delivered)
    /\ sending' = Nothing
    /\ UNCHANGED <<published, faults, subscribed, inbox, fleet, changes, cache, missed>>

\* The pipeline fails before the changes are out, with the summary or without: the loop logs
\* it, and the changes are gone.
FailPublish ==
    /\ faults < MaxFaults /\ faults' = faults + 1
    /\ sending # Nothing
    /\ counted' \in {counted, sending.summary}
    /\ lost' = lost \cup Changed(sending.changes)
    /\ sending' = Nothing
    /\ UNCHANGED <<published, subscribed, inbox, fleet, changes, cache, told, missed>>

\* Mutant: an entry that has not expired is left as it is.
CacheHealth_IfAbsent ==
    /\ inbox["cache"] # <<>>
    /\ LET m == Head(inbox["cache"]) IN
        cache' = [cache EXCEPT ![m.loco] = IF @ = Unknown THEN m.category ELSE @]
    /\ inbox' = [inbox EXCEPT !["cache"] = Tail(@)]
    /\ UNCHANGED <<published, faults, subscribed, fleet, changes, sending, subscriberVars,
                   missed>>

\* The cache listener stores the message it reads.
CacheHealth ==
    /\ inbox["cache"] # <<>>
    /\ LET m == Head(inbox["cache"]) IN cache' = [cache EXCEPT ![m.loco] = m.category]
    /\ inbox' = [inbox EXCEPT !["cache"] = Tail(@)]
    /\ UNCHANGED <<published, faults, subscribed, fleet, changes, sending, subscriberVars,
                   missed>>

\* The SET fails: the listener logs it and reads on.
CacheFails ==
    /\ faults < MaxFaults /\ faults' = faults + 1
    /\ inbox["cache"] # <<>>
    /\ inbox' = [inbox EXCEPT !["cache"] = Tail(@)]
    /\ missed' = [missed EXCEPT !["cache"] = @ \cup {Head(inbox["cache"]).loco}]
    /\ UNCHANGED <<published, subscribed, fleet, changes, sending, cache, subscriberVars>>

\* An entry of the cache expires after 60 seconds.
Expire ==
    /\ \E l \in Locomotive : cache[l] # Unknown /\ cache' = [cache EXCEPT ![l] = Unknown]
    /\ UNCHANGED <<published, faults, subscribed, inbox, fleet, changes, sending, subscriberVars,
                   missed>>

\* The process restarts: its memory and connections are gone, the cache and what subscribers
\* hold are not.  The new process takes the first category it hears of a locomotive for no
\* change, so that one across the restart is lost, beside those not published yet.
Restart ==
    /\ faults < MaxFaults /\ faults' = faults + 1
    /\ subscribed' = {}
    /\ inbox' = [a \in Listener |-> <<>>]
    /\ missed' = [a \in Listener |-> Locomotive]
    /\ fleet' = NoFleet
    /\ changes' = <<>>
    /\ sending' = Nothing
    /\ lost' = Locomotive
    /\ UNCHANGED <<published, cache, told, counted>>

Next ==
    \/ PublishHealth \/ UpdateState \/ StartPublish \/ FinishPublish \/ FailPublish
    \/ CacheHealth \/ CacheFails \/ Expire \/ Restart
    \/ \E a \in Listener : Subscribe(a) \/ ListenerError(a)

Spec == Init /\ [][Next]_vars

\* Every backoff ends, and the listener and publisher loops go on.
FairSpec ==
    /\ Spec
    /\ \A a \in Listener : WF_vars(Subscribe(a))
    /\ WF_vars(UpdateState) /\ WF_vars(StartPublish) /\ WF_vars(FinishPublish)

-----------------------------------------------------------------------------
(* Properties.                                                             *)

TypeOK ==
    /\ published \in Nat
    /\ faults \in Nat
    /\ subscribed \in SUBSET Listener
    /\ inbox \in [Listener -> Seq(Message)]
    /\ fleet \in Fleet
    /\ changes \in Seq(Change)
    /\ sending \in [summary : {<<>>} \cup [Category -> Nat], changes : Seq(Change)]
    /\ cache \in Fleet
    /\ told \in Fleet
    /\ counted \in {<<>>} \cup [Category -> Nat]
    /\ lost \in SUBSET Locomotive
    /\ missed \in [Listener -> SUBSET Locomotive]

\* The changes a subscriber has not received yet, in the order it will.
Outstanding == sending.changes \o changes

\* What a subscriber knows of the locomotives none of whose changes is lost.
Believed == [l \in Locomotive |-> IF l \in lost THEN Unknown ELSE told[l]]

\* _changes is an append-only delta of _fleet: each change of a locomotive starts where the
\* one before it ended, the first where a subscriber is, and the last ends where the
\* locomotive is, whatever arrives while a pipeline is awaited.  A pipeline that failed or a
\* restart breaks the chain of a locomotive; its next change that is received mends it.
ChangesChain ==
    \A l \in Locomotive :
        LET mine == {i \in DOMAIN Outstanding : Outstanding[i].loco = l} IN
        /\ mine = {} => Believed[l] \in {Unknown, fleet[l]}
        /\ \A i \in mine :
            /\ Outstanding[i].old # Outstanding[i].new
            /\ (\A j \in mine : i <= j) => Believed[l] \in {Unknown, Outstanding[i].old}
            /\ (\A j \in mine : j <= i) => Outstanding[i].new = fleet[l]
            /\ \A j \in mine :
                i < j /\ (\A k \in mine : k <= i \/ j <= k) =>
                    Outstanding[j].old = Outstanding[i].new

\* The summary and the changes of one pipeline describe one moment: what the changes leave a
\* subscriber with never exceeds what the summary counts.
SummaryAgrees ==
    sending # Nothing =>
        \A c \in Category :
            Cardinality({l \in Locomotive : After(Believed, sending.changes)[l] = c})
                <= sending.summary[c]

\* A locomotive's marker on the fleet's map and the health its page is answered from the
\* cache agree, once both listeners have read the last message of it and neither missed it.
CacheAgrees ==
    \A l \in Locomotive :
        (\A a \in Listener :
            l \notin missed[a] /\ \A i \in DOMAIN inbox[a] : inbox[a][i].loco # l) =>
                cache[l] \in {Unknown, fleet[l]}

\* When health stops changing, the counts a subscriber shows become those of the fleet,
\* whatever pipelines were lost and however often the process restarted; and so does every
\* marker on its map, but for those of locomotives whose last change was lost.
SubscribersConverge ==
    <>[](/\ fleet # NoFleet => counted = Summary(fleet)
         /\ \A l \in Locomotive \ lost : told[l] \in {Unknown, fleet[l]})
=============================================================================
