--------------------------- MODULE StreamConsumer ---------------------------
(***************************************************************************)
(* The db-writer: per replica one reader coroutine that moves entries from *)
(* the Redis Stream to a bounded queue and a pool of workers that copy the *)
(* queued batches to the database and acknowledge them                     *)
(* (db_writer/services/stream_consumer.py), inside the process that starts *)
(* them and shuts them down (db-writer/main.py).                           *)
(*                                                                         *)
(* A step ends where the coroutine awaits: between two awaits asyncio runs *)
(* nothing else.  The three streams of a process share no state, so one    *)
(* stream is modelled.  Rows are their primary keys: INSERT .. ON CONFLICT *)
(* DO NOTHING makes the table a set.                                       *)
(***************************************************************************)
EXTENDS RedisStream

CONSTANTS
    Worker,            \* one per staging table
    ReaderBatchSize,   \* reader_batch_size
    RowsPerFlush,      \* rows_per_flush
    QueueMaxSize,      \* queue_maxsize
    None,              \* the pill that ends a worker
    MaxStops,          \* bound of the model: crashes and SIGTERMs
    MaxFaults,         \* bound of the model: failing Redis and database calls
    MaxWipes           \* bound of the model: Redis restarts

Batch == [ids : SUBSET Id, rows : SUBSET Row]

ASSUME ConsumerAssumption ==
    /\ IsFiniteSet(Worker) /\ Worker # {}
    /\ ReaderBatchSize \in Nat \ {0}
    /\ RowsPerFlush \in Nat \ {0}
    /\ QueueMaxSize \in Nat \ {0}
    /\ None \notin Batch
    /\ MaxStops \in Nat /\ MaxFaults \in Nat /\ MaxWipes \in Nat

VARIABLES
    table,      \* the committed rows
    acked,      \* history: entries a worker acknowledged
    discarded,  \* history: entries the reader acknowledged unwritten, as poison
    proc,       \* the process: down, run (start() awaits), ended (start() is over)
    stopping,   \* no, term (SIGTERM: _running is False), cancelled (start() was)
    reader,     \* the await the reader coroutine stands at
    draining,   \* is the reader inside _drain_pending?
    held,       \* the entries _enqueue_entries works on
    queue,      \* asyncio.Queue of batches and pills
    pills,      \* pills start() has yet to put
    worker,     \* worker[c][w]: the await it stands at and what is left to write
    stops, faults, wipes

memory == <<proc, stopping, reader, draining, held, queue, pills, worker>>
ledger == <<table, acked, discarded>>
budget == <<stops, faults, wipes>>
vars == <<streamVars, ledger, memory, budget>>

NoHeld == [poison |-> {}, ids |-> {}, rows |-> {}]
Idle == [at |-> "get", ids |-> {}, rows |-> {}]
Gone == [at |-> "gone", ids |-> {}, rows |-> {}]

TypeOK ==
    /\ StreamTypeOK
    /\ table \subseteq Row
    /\ acked \subseteq Id /\ discarded \subseteq Id
    /\ proc \in [Consumer -> {"down", "run", "ended"}]
    /\ stopping \in [Consumer -> {"no", "term", "cancelled"}]
    /\ reader \in [Consumer -> {"read", "ack", "put", "sleep", "done"}]
    /\ draining \in [Consumer -> BOOLEAN]
    /\ held \in [Consumer -> [poison : SUBSET Id, ids : SUBSET Id, rows : SUBSET Row]]
    /\ queue \in [Consumer -> Seq(Batch \cup {None})]
    /\ pills \in [Consumer -> 0..Cardinality(Worker)]
    /\ worker \in [Consumer -> [Worker ->
            [at : {"get", "write", "ack", "gone"}, ids : SUBSET Id, rows : SUBSET Row]]]
    /\ stops \in 0..MaxStops /\ faults \in 0..MaxFaults /\ wipes \in 0..MaxWipes

Init ==
    /\ StreamInit
    /\ table = {} /\ acked = {} /\ discarded = {}
    /\ proc = [c \in Consumer |-> "down"]
    /\ stopping = [c \in Consumer |-> "no"]
    /\ reader = [c \in Consumer |-> "done"]
    /\ draining = [c \in Consumer |-> FALSE]
    /\ held = [c \in Consumer |-> NoHeld]
    /\ queue = [c \in Consumer |-> <<>>]
    /\ pills = [c \in Consumer |-> 0]
    /\ worker = [c \in Consumer |-> [w \in Worker |-> Gone]]
    /\ stops = 0 /\ faults = 0 /\ wipes = 0

Fault ==
    /\ faults < MaxFaults
    /\ faults' = faults + 1
    /\ UNCHANGED <<stops, wipes>>

-----------------------------------------------------------------------------
(* The process.                                                            *)

\* Mutant: one pill for the pool.
Start_OnePill(c) ==
    /\ proc[c] = "down"
    /\ ensure_consumer_group
    /\ proc' = [proc EXCEPT ![c] = "run"]
    /\ stopping' = [stopping EXCEPT ![c] = "no"]
    /\ reader' = [reader EXCEPT ![c] = "read"]
    /\ draining' = [draining EXCEPT ![c] = TRUE]
    /\ pills' = [pills EXCEPT ![c] = 1]
    /\ worker' = [worker EXCEPT ![c] = [w \in Worker |-> Idle]]
    /\ UNCHANGED <<held, queue, ledger, budget>>

\* main() and start(): the group exists, the reader and the workers run.
Start(c) ==
    /\ proc[c] = "down"
    /\ ensure_consumer_group
    /\ proc' = [proc EXCEPT ![c] = "run"]
    /\ stopping' = [stopping EXCEPT ![c] = "no"]
    /\ reader' = [reader EXCEPT ![c] = "read"]
    /\ draining' = [draining EXCEPT ![c] = TRUE]
    /\ pills' = [pills EXCEPT ![c] = Cardinality(Worker)]
    /\ worker' = [worker EXCEPT ![c] = [w \in Worker |-> Idle]]
    /\ UNCHANGED <<held, queue, ledger, budget>>

\* ensure_consumer_group raises: start() ends before it creates a task, and the
\* process lives on without a consumer.
StartFails(c) ==
    /\ proc[c] = "down"
    /\ Fault
    /\ proc' = [proc EXCEPT ![c] = "ended"]
    /\ stopping' = [stopping EXCEPT ![c] = "no"]
    /\ UNCHANGED <<streamVars, ledger, reader, draining, held, queue, pills, worker>>

ReaderIsDone(c) == proc[c] = "run" /\ reader[c] = "done"

\* The finally of start(): one pill for each worker, then gather.
PutPill(c) ==
    /\ ReaderIsDone(c)
    /\ pills[c] > 0
    /\ Len(queue[c]) < QueueMaxSize
    /\ queue' = [queue EXCEPT ![c] = Append(@, None)]
    /\ pills' = [pills EXCEPT ![c] = @ - 1]
    /\ UNCHANGED <<streamVars, ledger, proc, stopping, reader, draining, held, worker, budget>>

JoinWorkers(c) ==
    /\ ReaderIsDone(c)
    /\ pills[c] = 0
    /\ \A w \in Worker : worker[c][w] = Gone
    /\ proc' = [proc EXCEPT ![c] = "ended"]
    /\ UNCHANGED <<streamVars, ledger, stopping, reader, draining, held, queue, pills,
                   worker, budget>>

\* _signal_handler: stop() clears _running and main() wakes up.
Sigterm(c) ==
    /\ proc[c] # "down"
    /\ stopping[c] = "no"
    /\ stops < MaxStops
    /\ stops' = stops + 1
    /\ stopping' = [stopping EXCEPT ![c] = "term"]
    /\ UNCHANGED <<streamVars, ledger, proc, reader, draining, held, queue, pills,
                   worker, faults, wipes>>

\* main() cancels the task of start(), which stands at `await reader`: the reader
\* ends wherever it stands and what it held is forgotten.
CancelReader(c) ==
    /\ proc[c] = "run" /\ reader[c] # "done"
    /\ reader' = [reader EXCEPT ![c] = "done"]
    /\ held' = [held EXCEPT ![c] = NoHeld]
    /\ UNCHANGED <<proc, queue, pills, worker>>

\* start() is over, or the reader has ended and start() is about to resume: it
\* absorbs the CancelledError and goes on to its finally.
CancelAbsorbed(c) ==
    /\ \/ proc[c] = "ended"
       \/ ReaderIsDone(c) /\ pills[c] = Cardinality(Worker)
    /\ UNCHANGED <<proc, reader, held, queue, pills, worker>>

\* start() waits for a place in the queue: it ends, its workers get no more pills.
CancelPills(c) ==
    /\ ReaderIsDone(c) /\ pills[c] > 0 /\ Len(queue[c]) >= QueueMaxSize
    /\ proc' = [proc EXCEPT ![c] = "ended"]
    /\ UNCHANGED <<reader, held, queue, pills, worker>>

\* start() waits in gather, which passes the cancellation on to the workers.
CancelWorkers(c) ==
    /\ ReaderIsDone(c) /\ pills[c] = 0
    /\ proc' = [proc EXCEPT ![c] = "ended"]
    /\ worker' = [worker EXCEPT ![c] = [w \in Worker |-> Gone]]
    /\ UNCHANGED <<reader, held, queue, pills>>

Cancel(c) ==
    /\ stopping[c] = "term"
    /\ stopping' = [stopping EXCEPT ![c] = "cancelled"]
    /\ CancelReader(c) \/ CancelAbsorbed(c) \/ CancelPills(c) \/ CancelWorkers(c)
    /\ UNCHANGED <<streamVars, ledger, draining, budget>>

\* What the process had in memory is gone.
Vanish(c) ==
    /\ proc' = [proc EXCEPT ![c] = "down"]
    /\ stopping' = [stopping EXCEPT ![c] = "no"]
    /\ reader' = [reader EXCEPT ![c] = "done"]
    /\ draining' = [draining EXCEPT ![c] = FALSE]
    /\ held' = [held EXCEPT ![c] = NoHeld]
    /\ queue' = [queue EXCEPT ![c] = <<>>]
    /\ pills' = [pills EXCEPT ![c] = 0]
    /\ worker' = [worker EXCEPT ![c] = [w \in Worker |-> Gone]]
    /\ UNCHANGED <<streamVars, ledger, faults, wipes>>

\* The end of main(): it gathered the tasks it had cancelled.
Exit(c) ==
    /\ proc[c] = "ended" /\ stopping[c] = "cancelled"
    /\ Vanish(c)
    /\ UNCHANGED stops

Crash(c) ==
    /\ proc[c] # "down"
    /\ stops < MaxStops
    /\ stops' = stops + 1
    /\ Vanish(c)

-----------------------------------------------------------------------------
(* The reader.                                                             *)

\* Where the loop stands when a pass is over: _drain_pending does not look at
\* _running, the loop of _reader_loop does.
NextPass(c) == IF draining[c] \/ stopping[c] = "no" THEN "read" ELSE "done"

\* An exception ends the reader in _drain_pending; in _reader_loop it sleeps 1 s.
ReaderFails(c) ==
    /\ reader' = [reader EXCEPT ![c] = IF draining[c] THEN "done" ELSE "sleep"]
    /\ held' = [held EXCEPT ![c] = NoHeld]

\* Mutant: one entry that does not decode discards its batch.
Decode_AllPoison(c, ids) ==
    LET good == IF \A i \in ids : Readable(i) THEN ids ELSE {} IN
    /\ held' = [held EXCEPT ![c] = [poison |-> ids \ good, ids |-> good,
                                    rows |-> RowsOfEntries(good)]]
    /\ reader' = [reader EXCEPT ![c] = IF ids = good THEN "put" ELSE "ack"]

\* _enqueue_entries up to its first await.
Decode(c, ids) ==
    LET good == {i \in ids : Readable(i)} IN
    /\ held' = [held EXCEPT ![c] = [poison |-> ids \ good, ids |-> good,
                                    rows |-> RowsOfEntries(good)]]
    /\ reader' = [reader EXCEPT ![c] = IF ids = good THEN "put" ELSE "ack"]

\* Mutant: the drain is over after its first batch.
ReadPending_Once(c) ==
    /\ proc[c] = "run" /\ reader[c] = "read" /\ draining[c]
    /\ group
    /\ draining' = [draining EXCEPT ![c] = FALSE]
    /\ LET ids == PendingEntries(c, ReaderBatchSize) IN
       \/ ids # {} /\ Decode(c, ids)
       \/ ids = {} /\ UNCHANGED <<reader, held>>
    /\ UNCHANGED <<streamVars, ledger, proc, stopping, queue, pills, worker, budget>>

ReadPending(c) ==
    /\ proc[c] = "run" /\ reader[c] = "read" /\ draining[c]
    /\ group
    /\ LET ids == PendingEntries(c, ReaderBatchSize) IN
       \/ /\ ids # {}
          /\ Decode(c, ids)
          /\ UNCHANGED draining
       \/ /\ ids = {}
          /\ draining' = [draining EXCEPT ![c] = FALSE]
          /\ reader' = [reader EXCEPT ![c] = IF stopping[c] = "no" THEN "read" ELSE "done"]
          /\ UNCHANGED held
    /\ UNCHANGED <<streamVars, ledger, proc, stopping, queue, pills, worker, budget>>

ReadNew(c) ==
    /\ proc[c] = "run" /\ reader[c] = "read" /\ ~draining[c]
    /\ group
    /\ LET ids == NewEntries(ReaderBatchSize) IN
       /\ ids # {}
       /\ DeliverNew(c, ids)
       /\ Decode(c, ids)
    /\ UNCHANGED <<ledger, proc, stopping, draining, queue, pills, worker, budget>>

\* BLOCK times out.
ReadNothing(c) ==
    /\ proc[c] = "run" /\ reader[c] = "read" /\ ~draining[c]
    /\ group
    /\ NewEntries(ReaderBatchSize) = {}
    /\ reader' = [reader EXCEPT ![c] = NextPass(c)]
    /\ UNCHANGED <<streamVars, ledger, proc, stopping, draining, held, queue, pills,
                   worker, budget>>

\* The call fails, or its reply is lost once Redis has delivered the entries.
ReadFails(c) ==
    /\ proc[c] = "run" /\ reader[c] = "read"
    /\ Fault
    /\ \/ UNCHANGED streamVars
       \/ /\ ~draining[c] /\ group
          /\ LET ids == NewEntries(ReaderBatchSize) IN ids # {} /\ DeliverNew(c, ids)
    /\ ReaderFails(c)
    /\ UNCHANGED <<ledger, proc, stopping, draining, queue, pills, worker>>

\* NOGROUP: Redis restarted and only start() creates the group.
ReadNoGroup(c) ==
    /\ proc[c] = "run" /\ reader[c] = "read"
    /\ ~group
    /\ ReaderFails(c)
    /\ UNCHANGED <<streamVars, ledger, proc, stopping, draining, queue, pills, worker, budget>>

\* _enqueue_entries acknowledges the poison, then queues the rest if there is any.
AckPoison(c) ==
    /\ proc[c] = "run" /\ reader[c] = "ack"
    /\ XAck(c, held[c].poison)
    /\ discarded' = discarded \cup held[c].poison
    /\ held' = [held EXCEPT ![c].poison = {}]
    /\ reader' = [reader EXCEPT ![c] = IF held[c].ids = {} THEN NextPass(c) ELSE "put"]
    /\ UNCHANGED <<table, acked, proc, stopping, draining, queue, pills, worker, budget>>

\* The readable entries of the batch are dropped with the poison.
AckPoisonFails(c) ==
    /\ proc[c] = "run" /\ reader[c] = "ack"
    /\ Fault
    /\ \/ UNCHANGED <<streamVars, discarded>>
       \/ XAck(c, held[c].poison) /\ discarded' = discarded \cup held[c].poison
    /\ ReaderFails(c)
    /\ UNCHANGED <<table, acked, proc, stopping, draining, queue, pills, worker>>

\* Mutant: put_nowait, with QueueFull ignored.
Enqueue_NoWait(c) ==
    /\ proc[c] = "run" /\ reader[c] = "put"
    /\ queue' = IF Len(queue[c]) < QueueMaxSize
                THEN [queue EXCEPT ![c] = Append(@, [ids |-> held[c].ids, rows |-> held[c].rows])]
                ELSE queue
    /\ held' = [held EXCEPT ![c] = NoHeld]
    /\ reader' = [reader EXCEPT ![c] = NextPass(c)]
    /\ UNCHANGED <<streamVars, ledger, proc, stopping, draining, pills, worker, budget>>

\* A full queue blocks the reader.
Enqueue(c) ==
    /\ proc[c] = "run" /\ reader[c] = "put"
    /\ Len(queue[c]) < QueueMaxSize
    /\ queue' = [queue EXCEPT ![c] = Append(@, [ids |-> held[c].ids, rows |-> held[c].rows])]
    /\ held' = [held EXCEPT ![c] = NoHeld]
    /\ reader' = [reader EXCEPT ![c] = NextPass(c)]
    /\ UNCHANGED <<streamVars, ledger, proc, stopping, draining, pills, worker, budget>>

Wake(c) ==
    /\ proc[c] = "run" /\ reader[c] = "sleep"
    /\ reader' = [reader EXCEPT ![c] = NextPass(c)]
    /\ UNCHANGED <<streamVars, ledger, proc, stopping, draining, held, queue, pills,
                   worker, budget>>

-----------------------------------------------------------------------------
(* The workers.                                                            *)

SetWorker(c, w, state) == worker' = [worker EXCEPT ![c][w] = state]

Dequeue(c, w) ==
    /\ worker[c][w].at = "get"
    /\ queue[c] # <<>>
    /\ queue' = [queue EXCEPT ![c] = Tail(@)]
    /\ LET b == Head(queue[c]) IN
       \/ b = None /\ SetWorker(c, w, Gone)
       \/ b # None /\ SetWorker(c, w, [at |-> IF b.rows = {} THEN "ack" ELSE "write",
                                       ids |-> b.ids, rows |-> b.rows])
    /\ UNCHANGED <<streamVars, ledger, proc, stopping, reader, draining, held, pills, budget>>

\* A chunk of _write_batch: rows_per_flush rows, or the fewer that are left.
IsChunk(chunk, rows) ==
    /\ chunk \subseteq rows
    /\ \/ Cardinality(chunk) = RowsPerFlush
       \/ chunk = rows /\ Cardinality(rows) <= RowsPerFlush

\* Mutant: the XACK follows the first chunk.
CommitChunk_First(c, w) ==
    /\ worker[c][w].at = "write"
    /\ \E chunk \in SUBSET worker[c][w].rows :
          /\ IsChunk(chunk, worker[c][w].rows)
          /\ table' = table \cup chunk
          /\ SetWorker(c, w, [at |-> "ack", ids |-> worker[c][w].ids,
                              rows |-> worker[c][w].rows \ chunk])
    /\ UNCHANGED <<streamVars, acked, discarded, proc, stopping, reader, draining, held,
                   queue, pills, budget>>

\* One transaction of _write_batch; after the last one comes the XACK.
CommitChunk(c, w) ==
    /\ worker[c][w].at = "write"
    /\ \E chunk \in SUBSET worker[c][w].rows :
          /\ IsChunk(chunk, worker[c][w].rows)
          /\ table' = table \cup chunk
          /\ LET left == worker[c][w].rows \ chunk IN
             SetWorker(c, w, [at |-> IF left = {} THEN "ack" ELSE "write",
                              ids |-> worker[c][w].ids, rows |-> left])
    /\ UNCHANGED <<streamVars, acked, discarded, proc, stopping, reader, draining, held,
                   queue, pills, budget>>

AckBatch(c, w) ==
    /\ worker[c][w].at = "ack"
    /\ XAck(c, worker[c][w].ids)
    /\ acked' = acked \cup worker[c][w].ids
    /\ SetWorker(c, w, Idle)
    /\ UNCHANGED <<table, discarded, proc, stopping, reader, draining, held, queue, pills,
                   budget>>

\* The write or the XACK raises: the batch is dropped without XACK.  A call that
\* took effect before it raised is the step above followed by this one.
BatchFails(c, w) ==
    /\ worker[c][w].at \in {"write", "ack"}
    /\ Fault
    /\ SetWorker(c, w, Idle)
    /\ UNCHANGED <<streamVars, ledger, proc, stopping, reader, draining, held, queue, pills>>

-----------------------------------------------------------------------------
(* The processor appends; Redis restarts.                                  *)

Publish ==
    /\ \E p \in Payload : xadd_rows(p)
    /\ UNCHANGED <<ledger, memory, budget>>

RedisRestart ==
    /\ wipes < MaxWipes
    /\ wipes' = wipes + 1
    /\ StreamWiped
    /\ UNCHANGED <<ledger, memory, stops, faults>>

ProcessStep(c) ==
    \/ Start(c) \/ StartFails(c) \/ PutPill(c) \/ JoinWorkers(c)
    \/ Sigterm(c) \/ Cancel(c) \/ Exit(c) \/ Crash(c)

ReaderStep(c) ==
    \/ ReadPending(c) \/ ReadNew(c) \/ ReadNothing(c) \/ ReadNoGroup(c) \/ ReadFails(c)
    \/ AckPoison(c) \/ AckPoisonFails(c) \/ Enqueue(c) \/ Wake(c)

WorkerStep(c, w) ==
    Dequeue(c, w) \/ CommitChunk(c, w) \/ AckBatch(c, w) \/ BatchFails(c, w)

Next ==
    \/ Publish \/ RedisRestart
    \/ \E c \in Consumer :
          ProcessStep(c) \/ ReaderStep(c) \/ \E w \in Worker : WorkerStep(c, w)

Spec == Init /\ [][Next]_vars

\* The coroutines of a process run to their next await, and so do the calls they
\* wait for; nothing makes a process crash, be stopped or be started again.
Fairness ==
    \A c \in Consumer :
        /\ WF_vars(\/ ReadPending(c) \/ ReadNew(c) \/ ReadNothing(c) \/ ReadNoGroup(c)
                   \/ AckPoison(c) \/ Enqueue(c) \/ Wake(c))
        /\ WF_vars(PutPill(c) \/ JoinWorkers(c))
        /\ WF_vars(Cancel(c))
        /\ WF_vars(Exit(c))
        /\ \A w \in Worker : WF_vars(Dequeue(c, w) \/ CommitChunk(c, w) \/ AckBatch(c, w))

FairSpec == Spec /\ Fairness

-----------------------------------------------------------------------------
(* Safety.                                                                 *)

\* An entry is acknowledged by a worker only after every chunk of its batch was
\* committed: whatever crashes or fails, each row of an acknowledged entry is in
\* the table (stream_consumer.py:8, :262).
CommittedBeforeAck == \A i \in acked : RowsOf[log[i]] \subseteq table

\* The reader acknowledges unwritten only what cannot be written: entries that do
\* not decode, or that MAXLEN or a Redis restart took away while they were pending
\* (_enqueue_entries).
DiscardedIsUnreadable == \A i \in discarded : i <= trimmed \/ log[i] \in Malformed

\* No entry falls between the group's cursor and the pending lists: an entry still
\* in the stream that the group has delivered is pending for some replica unless
\* it was acknowledged - also when the reply was lost, a batch failed, a batch was
\* dropped by a cancelled reader or the process crashed.
DeliveredIsAccounted ==
    \A i \in (trimmed + 1)..cursor :
        i \in acked \cup discarded \cup UNION {pel[c] : c \in Consumer}

\* The entries the replica's coroutines hold in memory.
InFlight(c) ==
    held[c].poison \cup held[c].ids
      \cup (UNION {queue[c][k].ids : k \in {n \in DOMAIN queue[c] : queue[c][n] # None}})
      \cup (UNION {worker[c][w].ids : w \in Worker})

\* As long as no call fails, a replica past its drain has everything that is
\* pending for it in memory: the drain left nothing behind and the reader drops
\* nothing of what it read.
NothingForgotten ==
    \A c \in Consumer :
        proc[c] = "run" /\ stopping[c] # "cancelled" /\ ~draining[c] /\ faults = 0
            => pel[c] \subseteq InFlight(c)

-----------------------------------------------------------------------------
(* Liveness.                                                               *)

ReaderRuns(c) == proc[c] = "run" /\ reader[c] # "done"

\* What was pending when the replica started is written by the drain, batches that
\* fail on the way included, unless the reader ends (_drain_pending).
DrainSettlesPending ==
    \A c \in Consumer : \A i \in Id :
        (ReaderRuns(c) /\ draining[c] /\ i \in pel[c]) ~> (i \notin pel[c] \/ ~ReaderRuns(c))

\* After SIGTERM the process exits: the pills find a place in the queue and the
\* workers find their pills, or the cancellation ends the wait.
ShutdownTerminates ==
    \A c \in Consumer : (stopping[c] = "term") ~> (proc[c] = "down")

-----------------------------------------------------------------------------
(* What the pipeline promises, and what its documentation promises.        *)

Delivery == INSTANCE DurableDelivery WITH
    evicted <- trimmed,
    settled <- acked \cup discarded

\* The replicas, crashes and restarts implement at-least-once delivery as
\* DurableDelivery states it (streams.py:3).
ImplementsDurableDelivery == Delivery!Spec

\* stream_consumer.py:252 and :257: a batch that was not written stays in the PEL
\* "for retry" and "will be replayed by _drain_pending".
UnwrittenIsRetried ==
    \A c \in Consumer : \A i \in Id :
        (ReaderRuns(c) /\ i \in pel[c] \ InFlight(c)) ~> (i \notin pel[c] \/ ~ReaderRuns(c))
=============================================================================
