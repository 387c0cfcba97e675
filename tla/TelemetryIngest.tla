--------------------------- MODULE TelemetryIngest ---------------------------
(***************************************************************************)
(* From the simulator's tick to the Redis streams: the tick loop with its  *)
(* resend buffer (simulator/runner.py), the retrying HTTP client           *)
(* (simulator/core/client.py), and the processor's batch endpoint          *)
(* (router_ingest.py) with the state its worker processes keep in memory:  *)
(* the EMA filter and the accumulated damage.                              *)
(*                                                                         *)
(* A reading is a locomotive and a tick, and carries one aging sensor.  An *)
(* HTTP attempt that fails says nothing of its request: the handler may    *)
(* never run, or run on while the client sends the batch again.            *)
(***************************************************************************)
EXTENDS Naturals, Sequences, FiniteSets, Functions, SequencesExt

CONSTANTS
    Locomotive,
    Process,         \* the processor's worker processes (uvicorn --workers)
    BatchSize,       \* batch_size
    BufferMax,       \* BUFFER_MAX
    MaxRetries,      \* MAX_RETRIES: attempts to post a batch
    Nobody,          \* the process of a request that has not arrived
    MaxTicks,        \* bound: later ticks make no readings and only resend
    MaxFaults,       \* bound: calls to Redis, or readings, that raise
    MaxTimeouts,     \* bound: attempts whose answer is lost or late
    MaxRestarts      \* bound: processes restarted

ASSUME IngestAssumption ==
    /\ IsFiniteSet(Locomotive)
    /\ Nobody \notin Process
    /\ {BatchSize, BufferMax, MaxRetries} \subseteq Nat \ {0}
    /\ {MaxTicks, MaxFaults, MaxTimeouts, MaxRestarts} \subseteq Nat

Reading == [loco : Locomotive, tick : 1..MaxTicks]

VARIABLES
    fleet,       \* locomotives the operator has in the simulator
    clock,       \* ticks that made readings
    place,       \* _do_tick(): between ticks, in its gather, or in _flush_buffer()
    posts,       \* post_batch() calls running: batch, attempt, its request, outcome
    buffer,      \* readings to send again
    retries,     \* rounds _flush_buffer() has left
    produced,    \* readings made
    dropped,     \* readings the full buffer pushed out
    eventsSent,  \* events_sent
    requests,    \* handlers of the processor, one per attempt
    ema,         \* ema[p][l]: tick of the last reading in the filter's state, 0 if none
    damage,      \* damage[p][l]: increments in _damage_state
    telemetry,   \* readings whose rows are in the telemetry stream
    shown,       \* damage last published on a locomotive's health channel
    faults, timeouts, restarts

simulator == <<fleet, clock, place, posts, buffer, retries, produced, dropped, eventsSent>>
processor == <<requests, ema, damage, telemetry, shown>>
budgets == <<faults, timeouts, restarts>>
vars == <<simulator, processor, budgets>>

\* Requests ever sent: one for each new batch, and one more after each failure.
MaxRequests ==
    (MaxTicks + MaxRestarts) * Cardinality(Locomotive) + MaxFaults + MaxTimeouts

Post == [batch : Seq(Reading), attempt : 1..MaxRetries, request : Nat \ {0},
         outcome : {"out", "ok", "failed"}]

Request == [batch : Seq(Reading), process : Process \cup {Nobody},
            at : {"arriving", "filter", "read", "write", "return", "xadd", "publish",
                  "accepted", "error", "gone"},
            n : Nat,                   \* the reading it works on
            old : Nat,                 \* the damage it read
            health : Seq(Nat \X Nat)]  \* indices of the readings it computed, their damage

TypeOK ==
    /\ fleet \subseteq Locomotive
    /\ clock \in 0..MaxTicks
    /\ place \in {"sleep", "gather", "flush"}
    /\ posts \in Seq(Post)
    /\ buffer \in Seq(Reading) /\ Len(buffer) <= BufferMax
    /\ retries \in 0..3
    /\ produced \subseteq Reading /\ dropped \subseteq produced
    /\ eventsSent \in Nat
    /\ requests \in Seq(Request)
    /\ ema \in [Process -> [Locomotive -> 0..MaxTicks]]
    /\ damage \in [Process -> [Locomotive -> Nat]]
    /\ telemetry \subseteq produced
    /\ shown \in [Locomotive -> Nat]
    /\ faults \in 0..MaxFaults /\ timeouts \in 0..MaxTimeouts
    /\ restarts \in 0..MaxRestarts

Init ==
    /\ fleet = {} /\ clock = 0 /\ place = "sleep"
    /\ posts = <<>> /\ buffer = <<>> /\ retries = 0
    /\ produced = {} /\ dropped = {} /\ eventsSent = 0
    /\ requests = <<>>
    /\ ema = [p \in Process |-> [l \in Locomotive |-> 0]]
    /\ damage = [p \in Process |-> [l \in Locomotive |-> 0]]
    /\ telemetry = {} /\ shown = [l \in Locomotive |-> 0]
    /\ faults = 0 /\ timeouts = 0 /\ restarts = 0

-----------------------------------------------------------------------------
(* The simulator: the operator's changes, and the tick.                    *)

AddLocomotive(l) ==
    /\ l \notin fleet
    /\ fleet' = fleet \cup {l}
    /\ UNCHANGED <<clock, place, posts, buffer, retries, produced, dropped, eventsSent,
                   processor, budgets>>

RemoveLocomotive(l) ==
    /\ l \in fleet
    /\ fleet' = fleet \ {l}
    /\ UNCHANGED <<clock, place, posts, buffer, retries, produced, dropped, eventsSent,
                   processor, budgets>>

Smaller(a, b) == IF a < b THEN a ELSE b

\* readings[i : i + batch_size] for each multiple i of batch_size.
Batches(readings) ==
    LET count == (Len(readings) + BatchSize - 1) \div BatchSize IN
    [b \in 1..count |-> SubSeq(readings, (b - 1) * BatchSize + 1,
                               Smaller(b * BatchSize, Len(readings)))]

NewRequest(batch) == [batch |-> batch, process |-> Nobody, at |-> "arriving", n |-> 1,
                      old |-> 0, health |-> <<>>]

\* post_batch() of each batch sends its first request.
Send(batches) ==
    /\ posts' = [b \in DOMAIN batches |->
                    [batch |-> batches[b], attempt |-> 1, outcome |-> "out",
                     request |-> Len(requests) + b]]
    /\ requests' = requests \o [b \in DOMAIN batches |-> NewRequest(batches[b])]

\* One reading per locomotive; the ones that arrived for good leave the fleet.
Tick ==
    /\ place = "sleep"
    /\ fleet # {}
    /\ LET made == IF clock = MaxTicks THEN {}
                   ELSE {[loco |-> l, tick |-> clock + 1] : l \in fleet}
       IN  /\ produced' = produced \cup made
           /\ Send(Batches(SetToSeq(made)))
    /\ clock' = IF clock = MaxTicks THEN clock ELSE clock + 1
    /\ \E arrived \in SUBSET fleet : fleet' = fleet \ arrived
    /\ place' = "gather"
    /\ UNCHANGED <<buffer, retries, dropped, eventsSent, ema, damage, telemetry, shown,
                   budgets>>

\* The readings of the posts with an outcome, in the order of the batches.
ReadingsOf(outcome) ==
    FlattenSeq([b \in DOMAIN posts |->
                   IF posts[b].outcome = outcome THEN posts[b].batch ELSE <<>>])

Answered == \A b \in DOMAIN posts : posts[b].outcome # "out"

\* A deque of BUFFER_MAX drops its oldest entries.
Buffered(readings) ==
    LET all == buffer \o readings
        over == IF Len(all) > BufferMax THEN Len(all) - BufferMax ELSE 0
    IN  /\ buffer' = SubSeq(all, over + 1, Len(all))
        /\ dropped' = dropped \cup {all[k] : k \in 1..over}

\* Mutant: the buffer is flushed only by a tick whose own batches went through.
MustFlush_IfAllOk == buffer' # <<>> /\ ReadingsOf("failed") = <<>>

\* Mutant: the buffer is flushed only by a tick that has just buffered something.
MustFlush_IfFailed == ReadingsOf("failed") # <<>>

\* if self.buffer: the rest of the tick flushes it.
MustFlush == buffer' # <<>>

\* The gather is over: what failed is buffered, and the buffer flushed.
Gathered ==
    /\ place = "gather" /\ Answered
    /\ eventsSent' = eventsSent + Len(ReadingsOf("ok"))
    /\ Buffered(ReadingsOf("failed"))
    /\ posts' = <<>>
    /\ \/ ~MustFlush /\ place' = "sleep" /\ UNCHANGED retries
       \/ /\ MustFlush
          /\ place' = "flush"
          /\ retries' = Smaller(3, (Len(buffer') \div BatchSize) + 1)
    /\ UNCHANGED <<fleet, clock, produced, processor, budgets>>

\* Mutant: the batch is copied, not taken out of the buffer.
TakeOldest_Peeks(size) == UNCHANGED buffer

TakeOldest(size) == buffer' = SubSeq(buffer, size + 1, Len(buffer))

\* _flush_buffer(): a round posts the oldest readings.
FlushRound ==
    /\ place = "flush" /\ posts = <<>>
    /\ retries > 0 /\ buffer # <<>>
    /\ LET size == Smaller(BatchSize, Len(buffer)) IN
       /\ Send(<<SubSeq(buffer, 1, size)>>)
       /\ TakeOldest(size)
    /\ retries' = retries - 1
    /\ UNCHANGED <<fleet, clock, place, produced, dropped, eventsSent, ema, damage,
                   telemetry, shown, budgets>>

\* A round that fails puts its batch back in front and ends the flush.
FlushRoundEnds ==
    /\ place = "flush" /\ posts # <<>> /\ Answered
    /\ posts' = <<>>
    /\ \/ /\ posts[1].outcome = "ok"
          /\ eventsSent' = eventsSent + Len(posts[1].batch)
          /\ UNCHANGED <<buffer, place>>
       \/ /\ posts[1].outcome = "failed"
          /\ buffer' = posts[1].batch \o buffer
          /\ place' = "sleep"
          /\ UNCHANGED eventsSent
    /\ UNCHANGED <<fleet, clock, retries, produced, dropped, processor, budgets>>

Flushed ==
    /\ place = "flush" /\ posts = <<>>
    /\ retries = 0 \/ buffer = <<>>
    /\ place' = "sleep"
    /\ UNCHANGED <<fleet, clock, posts, buffer, retries, produced, dropped, eventsSent,
                   processor, budgets>>

\* Mutant: after its last attempt the client returns {} instead of None.
GiveUp_ReturnsEmpty(b) == posts' = [posts EXCEPT ![b].outcome = "ok"]

GiveUp(b) == posts' = [posts EXCEPT ![b].outcome = "failed"]

\* An attempt raises httpx.HTTPError: its process died, or the request or the answer is
\* lost or late.  The batch is sent again, or given up.
AttemptFails(b) ==
    /\ posts[b].outcome = "out"
    /\ \/ requests[posts[b].request].at = "gone" /\ UNCHANGED timeouts
       \/ timeouts < MaxTimeouts /\ timeouts' = timeouts + 1
    /\ \/ /\ posts[b].attempt < MaxRetries
          /\ requests' = Append(requests, NewRequest(posts[b].batch))
          /\ posts' = [posts EXCEPT ![b].attempt = @ + 1, ![b].request = Len(requests) + 1]
       \/ /\ posts[b].attempt = MaxRetries
          /\ GiveUp(b)
          /\ UNCHANGED requests
    /\ UNCHANGED <<fleet, clock, place, buffer, retries, produced, dropped, eventsSent, ema,
                   damage, telemetry, shown, faults, restarts>>

-----------------------------------------------------------------------------
(* The processor: ingest_batch().  _process_readings_sync() runs on a pool *)
(* thread, so batches of one process interleave between any two of its     *)
(* reads and writes.                                                       *)

Fault ==
    /\ faults < MaxFaults
    /\ faults' = faults + 1

Current(q) == requests[q].batch[requests[q].n]

Arrive(q) ==
    /\ requests[q].at = "arriving"
    /\ \E p \in Process :
        requests' = [requests EXCEPT ![q].process = p, ![q].at = "filter"]
    /\ UNCHANGED <<simulator, ema, damage, telemetry, shown, budgets>>

\* flatten_reading(): the filter's state takes the reading in.
Filter(q) ==
    /\ requests[q].at = "filter"
    /\ ema' = [ema EXCEPT ![requests[q].process][Current(q).loco] = Current(q).tick]
    /\ requests' = [requests EXCEPT ![q].at = "read"]
    /\ UNCHANGED <<simulator, damage, telemetry, shown, budgets>>

\* Where the thread goes after a reading.
AfterReading(q) == IF requests[q].n < Len(requests[q].batch) THEN "filter" ELSE "xadd"

\* The reading's health is `total`.
Computed(q, total) ==
    requests' = [requests EXCEPT ![q].health = Append(@, <<requests[q].n, total>>),
                                 ![q].at = AfterReading(q), ![q].n = @ + 1]

\* Mutant: a value at or below the reference has no damage.
Cold_Zero(q) ==
    /\ requests[q].at = "read"
    /\ Computed(q, 0)
    /\ UNCHANGED <<simulator, ema, damage, telemetry, shown, budgets>>

\* _update_damage() of a value at or below the reference: the damage so far.
Cold(q) ==
    /\ requests[q].at = "read"
    /\ Computed(q, damage[requests[q].process][Current(q).loco])
    /\ UNCHANGED <<simulator, ema, damage, telemetry, shown, budgets>>

\* Above it the damage is read, increased and written, then read again to return it.
HotRead(q) ==
    /\ requests[q].at = "read"
    /\ requests' = [requests EXCEPT ![q].at = "write",
                        ![q].old = damage[requests[q].process][Current(q).loco]]
    /\ UNCHANGED <<simulator, ema, damage, telemetry, shown, budgets>>

HotWrite(q) ==
    /\ requests[q].at = "write"
    /\ damage' = [damage EXCEPT
                    ![requests[q].process][Current(q).loco] = requests[q].old + 1]
    /\ requests' = [requests EXCEPT ![q].at = "return", ![q].old = 0]
    /\ UNCHANGED <<simulator, ema, telemetry, shown, budgets>>

HotReturn(q) ==
    /\ requests[q].at = "return"
    /\ Computed(q, damage[requests[q].process][Current(q).loco])
    /\ UNCHANGED <<simulator, ema, damage, telemetry, shown, budgets>>

\* An exception of evaluate_alerts() or calculate_health(): the reading is an error, and
\* its rows stay in the batch.
ReadingFails(q) ==
    /\ requests[q].at = "read"
    /\ Fault
    /\ requests' = [requests EXCEPT ![q].at = AfterReading(q), ![q].n = @ + 1]
    /\ UNCHANGED <<simulator, ema, damage, telemetry, shown, timeouts, restarts>>

\* XADD of the rows; gather(return_exceptions=True) swallows what it raises.  The alert
\* and health rows go to their streams the same way and nothing here reads them.
AddRows(q) ==
    /\ requests[q].at = "xadd"
    /\ \/ telemetry' = telemetry \cup Range(requests[q].batch) /\ UNCHANGED faults
       \/ Fault /\ UNCHANGED telemetry
    /\ requests' = [requests EXCEPT ![q].at = "publish"]
    /\ UNCHANGED <<simulator, ema, damage, shown, timeouts, restarts>>

\* The first k healths the request computed reach their channels.
Show(q, k) ==
    shown' = [l \in Locomotive |->
        LET its == {i \in 1..k : requests[q].batch[requests[q].health[i][1]].loco = l} IN
        IF its = {} THEN shown[l] ELSE requests[q].health[Max(its)][2]]

\* The pipeline of publications; when it raises, part of it may have run, and the answer
\* is a 500.
Publish(q) ==
    /\ requests[q].at = "publish"
    /\ \/ /\ Show(q, Len(requests[q].health))
          /\ requests' = [requests EXCEPT ![q].at = "accepted"]
          /\ UNCHANGED faults
       \/ /\ requests[q].health # <<>>
          /\ Fault
          /\ \E k \in 0..Len(requests[q].health) : Show(q, k)
          /\ requests' = [requests EXCEPT ![q].at = "error"]
    /\ UNCHANGED <<simulator, ema, damage, telemetry, timeouts, restarts>>

Closed == [NewRequest(<<>>) EXCEPT !.at = "gone"]

\* The answer, if the client still waits for it.
Answer(q) ==
    /\ requests[q].at \in {"accepted", "error"}
    /\ posts' = [b \in DOMAIN posts |->
                    IF posts[b].request = q /\ posts[b].outcome = "out"
                    THEN [posts[b] EXCEPT !.outcome = IF requests[q].at = "accepted"
                                                      THEN "ok" ELSE "failed"]
                    ELSE posts[b]]
    /\ requests' = [requests EXCEPT ![q] = Closed]
    /\ UNCHANGED <<fleet, clock, place, buffer, retries, produced, dropped, eventsSent, ema,
                   damage, telemetry, shown, budgets>>

\* uvicorn replaces a worker process: its requests and its tables are lost.
Restart(p) ==
    /\ restarts < MaxRestarts
    /\ restarts' = restarts + 1
    /\ requests' = [q \in DOMAIN requests |->
                      IF requests[q].process = p THEN Closed ELSE requests[q]]
    /\ ema' = [ema EXCEPT ![p] = [l \in Locomotive |-> 0]]
    /\ damage' = [damage EXCEPT ![p] = [l \in Locomotive |-> 0]]
    /\ UNCHANGED <<simulator, telemetry, shown, faults, timeouts>>

-----------------------------------------------------------------------------

Runner == Tick \/ Gathered \/ FlushRound \/ FlushRoundEnds \/ Flushed

Handler(q) ==
    \/ Arrive(q) \/ Filter(q) \/ Cold(q) \/ HotRead(q) \/ HotWrite(q) \/ HotReturn(q)
    \/ ReadingFails(q) \/ AddRows(q) \/ Publish(q) \/ Answer(q)

Next ==
    \/ Runner
    \/ \E l \in Locomotive : AddLocomotive(l) \/ RemoveLocomotive(l)
    \/ \E b \in DOMAIN posts : AttemptFails(b)
    \/ \E q \in DOMAIN requests : Handler(q)
    \/ \E p \in Process : Restart(p)

Spec == Init /\ [][Next]_vars

\* The runner and the handlers make progress, and an attempt nobody will answer fails.
Fairness ==
    /\ WF_vars(Runner)
    /\ \A b \in 1..Cardinality(Locomotive) : WF_vars(b \in DOMAIN posts /\ AttemptFails(b))
    /\ \A q \in 1..MaxRequests : WF_vars(q \in DOMAIN requests /\ Handler(q))

FairSpec == Spec /\ Fairness

-----------------------------------------------------------------------------
(* Properties.                                                             *)

\* Readings the simulator still has to deliver.
InPosts == UNION {Range(posts[b].batch) : b \in {c \in DOMAIN posts : posts[c].outcome # "ok"}}
Held == InPosts \cup Range(buffer)

\* runner.py:302, :320: every reading made is counted in events_sent once, or is still to
\* be sent once, or was pushed out of the full buffer, whatever failed and was resent.
EventsAddUp ==
    LET unsent == FlattenSeq([b \in DOMAIN posts |-> posts[b].batch]) IN
    eventsSent + Len(unsent) + Len(buffer) + Cardinality(dropped) = Cardinality(produced)

\* While no call to Redis fails, a reading that the simulator no longer holds is in the
\* telemetry stream: lost requests, lost answers and restarts are all resent.
SentIsStored == faults = 0 => produced \ (Held \cup dropped) \subseteq telemetry

\* filter_service.py:3, "x_k = K z_k + (1-K) x_(k-1)": a process filters the readings of a
\* locomotive in the order of their ticks, though a failed batch is sent again, while at
\* most one call fails, every answer arrives and no process restarts.
FilterInOrder ==
    [][timeouts = 0 /\ restarts' = 0 /\ faults <= 1 =>
        \A p \in Process, l \in Locomotive : ema'[p][l] >= ema[p][l]]_vars

\* health_service.py:4-5, "A Montsinger-rule damage accumulator [...] is persistently
\* subtracted from HI": the damage published for a locomotive never shrinks while every
\* answer arrives, at most one call fails and no process restarts.
DamageNeverShrinks ==
    [][timeouts = 0 /\ restarts = 0 /\ faults <= 1 =>
        \A l \in Locomotive : shown'[l] >= shown[l]]_vars

\* While the fleet is not empty, what waits to be sent is sent or dropped.
BufferSettles ==
    <>[](fleet # {}) => \A r \in Reading : r \in Held ~> r \notin Held
=============================================================================
