------------------------ MODULE StreamConsumerProofs ------------------------
(***************************************************************************)
(* Theorems about the db-writer, for any number of replicas, workers,      *)
(* entries, crashes and faults, and any batch, chunk and queue size.       *)
(*                                                                         *)
(* The second half: the db-writer accounts for every entry the group       *)
(* delivered, discards only what cannot be written, forgets nothing while  *)
(* no call fails, and implements DurableDelivery.                          *)
(*                                                                         *)
(* Of the 22 actions few touch the stream, the table and the two ledgers.  *)
(* NextEffect says how, once; the delivery theorems argue over its cases.  *)
(***************************************************************************)
EXTENDS StreamConsumer, FiniteSetTheorems, WellFoundedInduction, TLAPS

-----------------------------------------------------------------------------
(* Type correctness.                                                       *)

LEMMA PillCount == Cardinality(Worker) \in Nat
BY FS_CardinalityType, ConsumerAssumption

\* The rows of appended entries are rows.
LEMMA RowsOfEntriesType ==
    ASSUME StreamTypeOK, NEW S \in SUBSET Entries
    PROVE  RowsOfEntries(S) \subseteq Row
BY StreamAssumption DEF StreamTypeOK, Entries, RowsOfEntries

LEMMA InitTypeOK == Init => TypeOK
<1> SUFFICES ASSUME Init PROVE TypeOK
  OBVIOUS
<1>1. StreamTypeOK
  <2>1. log = <<>> /\ Len(log) = 0 /\ log \in Seq(Payload)
    BY DEF Init, StreamInit
  <2>2. Len(log) <= MaxEntries /\ trimmed \in 0..Len(log) /\ cursor \in 0..Len(log)
    BY <2>1, StreamAssumption DEF Init, StreamInit
  <2>3. pel \in [Consumer -> SUBSET Entries]
    BY DEF Init, StreamInit
  <2>4. group \in BOOLEAN
    BY DEF Init, StreamInit
  <2> QED
    BY <2>1, <2>2, <2>3, <2>4 DEF StreamTypeOK
<1> QED
  BY <1>1, PillCount, ConsumerAssumption DEF Init, TypeOK, NoHeld, Gone

\* Appending extends the log and keeps what it holds.
LEMMA AppendKeepsType ==
    ASSUME StreamTypeOK, NEW p \in Payload, xadd_rows(p)
    PROVE  /\ StreamTypeOK'
           /\ Entries \subseteq Entries'
           /\ \A i \in Entries : log'[i] = log[i]
<1>1. log' = Append(log, p) /\ log' \in Seq(Payload) /\ Len(log') = Len(log) + 1
  BY DEF StreamTypeOK, xadd_rows
<1>2. \A i \in Entries : log'[i] = log[i]
  BY <1>1 DEF StreamTypeOK, Entries
<1>3. Entries \subseteq Entries'
  BY <1>1 DEF StreamTypeOK, Entries
<1>4. Len(log') <= MaxEntries /\ trimmed' \in 0..Len(log') /\ cursor' \in 0..Len(log')
  BY <1>1, StreamAssumption DEF StreamTypeOK, xadd_rows
<1>5. pel' \in [Consumer -> SUBSET Entries'] /\ group' \in BOOLEAN
  BY <1>3 DEF StreamTypeOK, xadd_rows
<1> QED
  BY <1>1, <1>2, <1>3, <1>4, <1>5 DEF StreamTypeOK, Entries

LEMMA NewEntriesType == NewEntries(ReaderBatchSize) \subseteq Entries
BY DEF NewEntries

\* The server's side of the commands keeps the stream well-formed.
LEMMA DeliverKeepsType ==
    ASSUME StreamTypeOK, NEW c \in Consumer, NEW ids \in SUBSET Entries, DeliverNew(c, ids)
    PROVE  StreamTypeOK'
<1>1. cursor' \in Entries
  BY DEF DeliverNew
<1>2. cursor' \in 0..Len(log)
  BY <1>1 DEF Entries, StreamTypeOK
<1>3. pel' \in [Consumer -> SUBSET Entries]
  BY DEF DeliverNew, StreamTypeOK
<1> QED
  BY <1>2, <1>3 DEF StreamTypeOK, DeliverNew, Entries

LEMMA XAckKeepsType ==
    ASSUME StreamTypeOK, NEW c \in Consumer, NEW ids, XAck(c, ids)
    PROVE  StreamTypeOK'
<1>1. pel' \in [Consumer -> SUBSET Entries]
  BY DEF StreamTypeOK, XAck
<1> QED
  BY <1>1 DEF StreamTypeOK, XAck, Entries

LEMMA WipeKeepsType ==
    ASSUME StreamTypeOK, StreamWiped
    PROVE  StreamTypeOK'
<1>1. Len(log) \in Nat
  BY DEF StreamTypeOK
<1>2. trimmed' \in 0..Len(log) /\ cursor' \in 0..Len(log)
  BY <1>1 DEF StreamWiped
<1>3. pel' \in [Consumer -> SUBSET Entries]
  BY DEF StreamWiped
<1> QED
  BY <1>2, <1>3 DEF StreamTypeOK, StreamWiped, Entries

LEMMA EnsureKeepsType ==
    ASSUME StreamTypeOK, ensure_consumer_group
    PROVE  StreamTypeOK'
BY DEF StreamTypeOK, ensure_consumer_group, Entries

LEMMA StreamStutterType ==
    ASSUME StreamTypeOK, UNCHANGED streamVars
    PROVE  StreamTypeOK'
BY DEF StreamTypeOK, streamVars, Entries

LEMMA BudgetType ==
    /\ \A n \in 0..MaxStops : n < MaxStops => n + 1 \in 0..MaxStops
    /\ \A n \in 0..MaxFaults : n < MaxFaults => n + 1 \in 0..MaxFaults
    /\ \A n \in 0..MaxWipes : n < MaxWipes => n + 1 \in 0..MaxWipes
BY ConsumerAssumption

\* The entries are within the bound of the model.
LEMMA EntriesAreIds == StreamTypeOK => Entries \subseteq Id
BY StreamAssumption DEF StreamTypeOK, Entries, Id

LEMMA DecodeType ==
    ASSUME TypeOK, NEW c \in Consumer, NEW ids \in SUBSET Entries, Decode(c, ids)
    PROVE  /\ held' \in [Consumer -> [poison : SUBSET Id, ids : SUBSET Id, rows : SUBSET Row]]
           /\ reader' \in [Consumer -> {"read", "ack", "put", "sleep", "done"}]
<1> DEFINE good == {i \in ids : Readable(i)}
<1>1. good \subseteq Entries /\ ids \subseteq Id
  BY EntriesAreIds DEF TypeOK
<1>2. RowsOfEntries(good) \subseteq Row
  BY <1>1, RowsOfEntriesType DEF TypeOK
<1> QED
  BY <1>1, <1>2 DEF Decode, TypeOK

LEMMA VanishType ==
    ASSUME TypeOK, NEW c \in Consumer, Vanish(c), stops' \in 0..MaxStops
    PROVE  TypeOK'
<1>1. /\ held' \in [Consumer -> [poison : SUBSET Id, ids : SUBSET Id, rows : SUBSET Row]]
      /\ queue' \in [Consumer -> Seq(Batch \cup {None})]
      /\ pills' \in [Consumer -> 0..Cardinality(Worker)]
  BY PillCount DEF Vanish, NoHeld, TypeOK
<1>2. worker' \in [Consumer -> [Worker ->
            [at : {"get", "write", "ack", "gone"}, ids : SUBSET Id, rows : SUBSET Row]]]
  BY DEF Vanish, Gone, TypeOK
<1> QED
  BY <1>1, <1>2, StreamStutterType DEF Vanish, TypeOK, ledger

LEMMA NextTypeOK == TypeOK /\ [Next]_vars => TypeOK'
<1> SUFFICES ASSUME TypeOK, [Next]_vars PROVE TypeOK'
  OBVIOUS
<1>1. ASSUME NEW c \in Consumer, Start(c) PROVE TypeOK'
  BY <1>1, StreamStutterType, PillCount, EnsureKeepsType DEF Start, Idle, TypeOK, ledger, budget
<1>2. ASSUME NEW c \in Consumer, StartFails(c) PROVE TypeOK'
  BY <1>2, StreamStutterType, BudgetType DEF StartFails, Fault, TypeOK, ledger, budget
<1>3. ASSUME NEW c \in Consumer, PutPill(c) PROVE TypeOK'
  BY <1>3, StreamStutterType, PillCount DEF PutPill, ReaderIsDone, TypeOK, ledger, budget
<1>4. ASSUME NEW c \in Consumer, JoinWorkers(c) PROVE TypeOK'
  BY <1>4, StreamStutterType DEF JoinWorkers, TypeOK, ledger, budget
<1>5. ASSUME NEW c \in Consumer, Sigterm(c) PROVE TypeOK'
  BY <1>5, StreamStutterType, BudgetType DEF Sigterm, TypeOK, ledger, budget
<1>6. ASSUME NEW c \in Consumer, Cancel(c) PROVE TypeOK'
  <2>1. UNCHANGED <<streamVars, ledger, draining, budget>> /\ stopping' = [stopping EXCEPT ![c] = "cancelled"]
    BY <1>6 DEF Cancel
  <2>2. CASE CancelReader(c)
    BY <2>1, <2>2, StreamStutterType DEF CancelReader, NoHeld, TypeOK, ledger, budget
  <2>3. CASE CancelAbsorbed(c) \/ CancelPills(c)
    BY <2>1, <2>3, StreamStutterType DEF CancelAbsorbed, CancelPills, TypeOK, ledger, budget
  <2>4. CASE CancelWorkers(c)
    BY <2>1, <2>4, StreamStutterType DEF CancelWorkers, Gone, TypeOK, ledger, budget
  <2> QED
    BY <1>6, <2>2, <2>3, <2>4 DEF Cancel
<1>7. ASSUME NEW c \in Consumer, Exit(c) PROVE TypeOK'
  BY <1>7, StreamStutterType, VanishType DEF Exit, TypeOK, ledger, budget
<1>8. ASSUME NEW c \in Consumer, Crash(c) PROVE TypeOK'
  BY <1>8, StreamStutterType, VanishType, BudgetType DEF Crash, TypeOK, ledger, budget
<1>9. ASSUME NEW c \in Consumer, ReadPending(c) PROVE TypeOK'
  <2>1. PendingEntries(c, ReaderBatchSize) \subseteq Entries
    BY DEF PendingEntries, Smallest, TypeOK, StreamTypeOK
  <2> QED
    BY <2>1, <1>9, DecodeType, StreamStutterType DEF ReadPending, TypeOK, ledger, budget
<1>10. ASSUME NEW c \in Consumer, ReadNew(c) PROVE TypeOK'
  BY <1>10, StreamStutterType, NewEntriesType, DecodeType, DeliverKeepsType
     DEF ReadNew, TypeOK, ledger, budget
<1>11. ASSUME NEW c \in Consumer, ReadNothing(c) PROVE TypeOK'
  BY <1>11, StreamStutterType DEF ReadNothing, NextPass, TypeOK, ledger, budget
<1>12. ASSUME NEW c \in Consumer, ReadNoGroup(c) PROVE TypeOK'
  BY <1>12, StreamStutterType DEF ReadNoGroup, ReaderFails, NoHeld, TypeOK, ledger, budget
<1>13. ASSUME NEW c \in Consumer, ReadFails(c) PROVE TypeOK'
  BY <1>13, StreamStutterType, BudgetType, NewEntriesType, DeliverKeepsType
     DEF ReadFails, ReaderFails, Fault, NoHeld, TypeOK, ledger, budget
<1>14. ASSUME NEW c \in Consumer, AckPoison(c) PROVE TypeOK'
  BY <1>14, StreamStutterType, XAckKeepsType, ZenonT(30) DEF AckPoison, NextPass, TypeOK, ledger, budget
<1>15. ASSUME NEW c \in Consumer, AckPoisonFails(c) PROVE TypeOK'
  BY <1>15, StreamStutterType, BudgetType, XAckKeepsType
     DEF AckPoisonFails, ReaderFails, Fault, NoHeld, TypeOK, ledger, budget
<1>16. ASSUME NEW c \in Consumer, Enqueue(c) PROVE TypeOK'
  <2>1. [ids |-> held[c].ids, rows |-> held[c].rows] \in Batch
    BY DEF TypeOK, Batch
  <2>2. queue' \in [Consumer -> Seq(Batch \cup {None})]
    BY <1>16, <2>1 DEF Enqueue, TypeOK
  <2> QED
    BY <1>16, <2>2, StreamStutterType DEF Enqueue, NextPass, NoHeld, TypeOK, ledger, budget
<1>17. ASSUME NEW c \in Consumer, Wake(c) PROVE TypeOK'
  BY <1>17, StreamStutterType DEF Wake, NextPass, TypeOK, ledger, budget
<1>18. ASSUME NEW c \in Consumer, NEW w \in Worker, Dequeue(c, w) PROVE TypeOK'
  <2>1. Head(queue[c]) \in Batch \cup {None} /\ queue' \in [Consumer -> Seq(Batch \cup {None})]
    BY <1>18 DEF Dequeue, TypeOK
  <2>2. worker' \in [Consumer -> [Worker ->
            [at : {"get", "write", "ack", "gone"}, ids : SUBSET Id, rows : SUBSET Row]]]
    <3>1. PICK state \in [at : {"get", "write", "ack", "gone"}, ids : SUBSET Id, rows : SUBSET Row] :
              worker' = [worker EXCEPT ![c][w] = state]
      <4>1. CASE Head(queue[c]) = None
        BY <1>18, <4>1 DEF Dequeue, SetWorker, Gone
      <4>2. CASE Head(queue[c]) # None
        <5>1. Head(queue[c]).ids \in SUBSET Id /\ Head(queue[c]).rows \in SUBSET Row
          BY <2>1, <4>2 DEF Batch
        <5> QED
          BY <1>18, <4>2, <5>1 DEF Dequeue, SetWorker
      <4> QED
        BY <4>1, <4>2
    <3> QED
      BY <3>1 DEF TypeOK
  <2> QED
    BY <1>18, <2>1, <2>2, StreamStutterType DEF Dequeue, TypeOK, ledger, budget
<1>19. ASSUME NEW c \in Consumer, NEW w \in Worker, CommitChunk(c, w) PROVE TypeOK'
  BY <1>19, StreamStutterType DEF CommitChunk, SetWorker, IsChunk, TypeOK, ledger, budget
<1>20. ASSUME NEW c \in Consumer, NEW w \in Worker, AckBatch(c, w) PROVE TypeOK'
  BY <1>20, StreamStutterType, XAckKeepsType
     DEF AckBatch, SetWorker, Idle, TypeOK, ledger, budget
<1>21. ASSUME NEW c \in Consumer, NEW w \in Worker, BatchFails(c, w) PROVE TypeOK'
  BY <1>21, StreamStutterType, BudgetType
     DEF BatchFails, SetWorker, Fault, Idle, TypeOK, ledger, budget
<1>22. CASE Publish
  BY <1>22, AppendKeepsType DEF Publish, memory, TypeOK, ledger, budget
<1>23. CASE RedisRestart
  BY <1>23, WipeKeepsType, BudgetType DEF RedisRestart, memory, TypeOK, ledger, budget
<1>24. CASE UNCHANGED vars
  BY <1>24, StreamStutterType DEF vars, memory, TypeOK, ledger, budget
<1> QED
  BY <1>1, <1>2, <1>3, <1>4, <1>5, <1>6, <1>7, <1>8, <1>9, <1>10, <1>11, <1>12, <1>13, <1>14,
     <1>15, <1>16, <1>17, <1>18, <1>19, <1>20, <1>21, <1>22, <1>23, <1>24
     DEF Next, ProcessStep, ReaderStep, WorkerStep

\* Every reachable state is well-typed.
THEOREM TypeCorrect == Spec => []TypeOK
<1>1. Init => TypeOK
  BY InitTypeOK
<1>2. TypeOK /\ [Next]_vars => TypeOK'
  BY NextTypeOK
<1> QED
  BY <1>1, <1>2, PTL DEF Spec

-----------------------------------------------------------------------------
(* What is acknowledged is committed.                                      *)

\* The entries of ids were appended and their rows are among rows.
Covered(l, ids, rows) == \A i \in ids : i \in 1..Len(l) /\ RowsOf[l[i]] \subseteq rows

HeldRows == \A c \in Consumer : Covered(log, held[c].ids, held[c].rows)

QueuedRows ==
    \A c \in Consumer : \A k \in 1..Len(queue[c]) :
        queue[c][k] # None => Covered(log, queue[c][k].ids, queue[c][k].rows)

\* What a worker has yet to write, with the table, covers its batch.
WorkerRows ==
    \A c \in Consumer : \A w \in Worker :
        /\ worker[c][w].at = "ack" => worker[c][w].rows = {}
        /\ Covered(log, worker[c][w].ids, table \cup worker[c][w].rows)

\* CommittedBeforeAck says nothing of the batches on their way to the XACK, so it is
\* not inductive: the invariant follows the rows of an entry from the reader's hands
\* through the queue to a worker.
RowsInv == HeldRows /\ QueuedRows /\ WorkerRows /\ Covered(log, acked, table)

LogGrows == \A i \in 1..Len(log) : i \in 1..Len(log') /\ log'[i] = log[i]

LEMMA LogGrowsWhenKept == UNCHANGED log => LogGrows
BY DEF LogGrows

LEMMA CoveredStays ==
    ASSUME LogGrows, NEW ids, NEW rows, NEW more, Covered(log, ids, rows), rows \subseteq more
    PROVE  Covered(log', ids, more)
BY DEF LogGrows, Covered

LEMMA CoveredNothing == \A rows : Covered(log, {}, rows) /\ Covered(log', {}, rows)
BY DEF Covered

LEMMA HeldStays == HeldRows /\ LogGrows /\ UNCHANGED held => HeldRows'
BY CoveredStays DEF HeldRows

LEMMA QueuedStays == QueuedRows /\ LogGrows /\ UNCHANGED queue => QueuedRows'
BY CoveredStays DEF QueuedRows

LEMMA WorkerStays ==
    ASSUME WorkerRows, LogGrows, UNCHANGED worker, table \subseteq table'
    PROVE  WorkerRows'
<1> SUFFICES ASSUME NEW c \in Consumer, NEW w \in Worker
             PROVE  /\ worker[c][w].at = "ack" => worker[c][w].rows = {}
                    /\ Covered(log', worker[c][w].ids, table' \cup worker[c][w].rows)
  BY DEF WorkerRows
<1> QED
  BY CoveredStays DEF WorkerRows

LEMMA AckedStays ==
    ASSUME Covered(log, acked, table), LogGrows, UNCHANGED acked, table \subseteq table'
    PROVE  Covered(log', acked', table')
<1> QED
  BY CoveredStays

\* A coroutine's entry of a function changes.
LEMMA HeldChanges ==
    ASSUME TypeOK, HeldRows, LogGrows, NEW c \in Consumer, NEW h,
           held' = [held EXCEPT ![c] = h], Covered(log', h.ids, h.rows)
    PROVE  HeldRows'
<1> SUFFICES ASSUME NEW d \in Consumer PROVE Covered(log', held'[d].ids, held'[d].rows)
  BY DEF HeldRows
<1>1. CASE d = c
  <2>1. held'[d] = h
    BY <1>1 DEF TypeOK
  <2> QED
    BY <2>1
<1>2. CASE d # c
  <2>1. held'[d] = held[d]
    BY <1>2 DEF TypeOK
  <2> QED
    BY <2>1, CoveredStays DEF HeldRows
<1> QED
  BY <1>1, <1>2

LEMMA WorkerChanges ==
    ASSUME TypeOK, WorkerRows, LogGrows, NEW c \in Consumer, NEW w \in Worker, NEW state,
           SetWorker(c, w, state), table \subseteq table',
           state.at = "ack" => state.rows = {},
           Covered(log', state.ids, table' \cup state.rows)
    PROVE  WorkerRows'
<1> SUFFICES ASSUME NEW d \in Consumer, NEW v \in Worker
             PROVE  /\ worker'[d][v].at = "ack" => worker'[d][v].rows = {}
                    /\ Covered(log', worker'[d][v].ids, table' \cup worker'[d][v].rows)
  BY DEF WorkerRows
<1>1. CASE d = c /\ v = w
  <2>1. worker'[d][v] = state
    BY <1>1 DEF TypeOK, SetWorker
  <2> QED
    BY <2>1
<1>2. CASE ~(d = c /\ v = w)
  <2>1. worker'[d][v] = worker[d][v]
    BY <1>2 DEF TypeOK, SetWorker
  <2>2. table \cup worker[d][v].rows \subseteq table' \cup worker[d][v].rows
    OBVIOUS
  <2> QED
    BY <2>1, <2>2, CoveredStays DEF WorkerRows
<1> QED
  BY <1>1, <1>2

\* A process starts, or what it had in memory is gone.
LEMMA WorkersReset ==
    ASSUME TypeOK, WorkerRows, LogGrows, UNCHANGED table, NEW c \in Consumer,
           NEW state \in {Idle, Gone},
           worker' = [worker EXCEPT ![c] = [w \in Worker |-> state]]
    PROVE  WorkerRows'
<1> SUFFICES ASSUME NEW d \in Consumer, NEW v \in Worker
             PROVE  /\ worker'[d][v].at = "ack" => worker'[d][v].rows = {}
                    /\ Covered(log', worker'[d][v].ids, table' \cup worker'[d][v].rows)
  BY DEF WorkerRows
<1>1. CASE d = c
  <2>1. worker'[d][v] = state
    BY <1>1 DEF TypeOK
  <2>2. state.at # "ack" /\ state.ids = {}
    BY DEF Idle, Gone
  <2> QED
    BY <2>1, <2>2, CoveredNothing
<1>2. CASE d # c
  <2>1. worker'[d][v] = worker[d][v]
    BY <1>2 DEF TypeOK
  <2> QED
    BY <2>1, CoveredStays DEF WorkerRows
<1> QED
  BY <1>1, <1>2

\* A batch of covered entries, or a pill, joins the queue.
LEMMA QueueGrows ==
    ASSUME TypeOK, QueuedRows, LogGrows, NEW c \in Consumer, NEW b,
           queue' = [queue EXCEPT ![c] = Append(@, b)],
           b # None => Covered(log', b.ids, b.rows)
    PROVE  QueuedRows'
<1> SUFFICES ASSUME NEW d \in Consumer, NEW k \in 1..Len(queue'[d]), queue'[d][k] # None
             PROVE  Covered(log', queue'[d][k].ids, queue'[d][k].rows)
  BY DEF QueuedRows
<1>1. CASE d = c
  <2>1. queue'[d] = Append(queue[d], b) /\ queue[d] \in Seq(Batch \cup {None})
    BY <1>1 DEF TypeOK
  <2>2. CASE k \in 1..Len(queue[d])
    <3>1. queue'[d][k] = queue[d][k]
      BY <2>1, <2>2
    <3> QED
      BY <3>1, <2>2, CoveredStays DEF QueuedRows
  <2>3. CASE k = Len(queue[d]) + 1
    <3>1. queue'[d][k] = b
      BY <2>1, <2>3
    <3> QED
      BY <3>1
  <2> QED
    BY <2>1, <2>2, <2>3
<1>2. CASE d # c
  <2>1. queue'[d] = queue[d]
    BY <1>2 DEF TypeOK
  <2> QED
    BY <2>1, CoveredStays DEF QueuedRows
<1> QED
  BY <1>1, <1>2

LEMMA QueueShrinks ==
    ASSUME TypeOK, QueuedRows, LogGrows, NEW c \in Consumer, queue[c] # <<>>,
           queue' = [queue EXCEPT ![c] = Tail(@)]
    PROVE  QueuedRows'
<1> SUFFICES ASSUME NEW d \in Consumer, NEW k \in 1..Len(queue'[d]), queue'[d][k] # None
             PROVE  Covered(log', queue'[d][k].ids, queue'[d][k].rows)
  BY DEF QueuedRows
<1>1. CASE d = c
  <2>1. queue'[d] = Tail(queue[d]) /\ queue[d] \in Seq(Batch \cup {None}) /\ queue[d] # <<>>
    BY <1>1 DEF TypeOK
  <2>2. k + 1 \in 1..Len(queue[d]) /\ queue'[d][k] = queue[d][k + 1]
    <3> DEFINE q == queue[d]
    <3>1. q \in Seq(Batch \cup {None}) /\ q # <<>>
      BY <2>1
    <3>2. Len(Tail(q)) = Len(q) - 1 /\ Len(q) \in Nat
      BY <3>1
    <3>3. k \in 1..Len(Tail(q))
      BY <2>1
    <3>4. Tail(q)[k] = q[k + 1]
      BY <3>1, <3>3
    <3>5. k + 1 \in 1..Len(q)
      BY <3>2, <3>3
    <3> QED
      BY <2>1, <3>4, <3>5
  <2> QED
    BY <2>2, CoveredStays DEF QueuedRows
<1>2. CASE d # c
  <2>1. queue'[d] = queue[d]
    BY <1>2 DEF TypeOK
  <2> QED
    BY <2>1, CoveredStays DEF QueuedRows
<1> QED
  BY <1>1, <1>2

LEMMA QueueEmptied ==
    ASSUME TypeOK, QueuedRows, LogGrows, NEW c \in Consumer,
           queue' = [queue EXCEPT ![c] = <<>>]
    PROVE  QueuedRows'
<1> SUFFICES ASSUME NEW d \in Consumer, NEW k \in 1..Len(queue'[d]), queue'[d][k] # None
             PROVE  Covered(log', queue'[d][k].ids, queue'[d][k].rows)
  BY DEF QueuedRows
<1>1. CASE d = c
  BY <1>1 DEF TypeOK
<1>2. CASE d # c
  <2>1. queue'[d] = queue[d]
    BY <1>2 DEF TypeOK
  <2> QED
    BY <2>1, CoveredStays DEF QueuedRows
<1> QED
  BY <1>1, <1>2

\* The reader takes the rows of the readable entries it was given.
LEMMA DecodeCovers ==
    ASSUME TypeOK, HeldRows, UNCHANGED log, NEW c \in Consumer, NEW ids \in SUBSET Entries,
           Decode(c, ids)
    PROVE  HeldRows'
<1> DEFINE good == {i \in ids : Readable(i)}
           h == [poison |-> ids \ good, ids |-> good, rows |-> RowsOfEntries(good)]
<1>1. held' = [held EXCEPT ![c] = h]
  BY DEF Decode
<1>2. Covered(log', h.ids, h.rows)
  BY DEF Covered, RowsOfEntries, Entries
<1> QED
  BY <1>1, <1>2, HeldChanges, LogGrowsWhenKept

LEMMA RowsStutter ==
    ASSUME RowsInv, UNCHANGED <<log, table, acked, held, queue, worker>>
    PROVE  RowsInv'
BY LogGrowsWhenKept, HeldStays, QueuedStays, WorkerStays, AckedStays DEF RowsInv

LEMMA VanishRows ==
    ASSUME TypeOK, RowsInv, NEW c \in Consumer, Vanish(c)
    PROVE  RowsInv'
<1>1. UNCHANGED <<log, table, acked>> /\ LogGrows
  BY LogGrowsWhenKept DEF Vanish, ledger, streamVars
<1>2. HeldRows'
  BY <1>1, HeldChanges, CoveredNothing DEF Vanish, NoHeld, RowsInv
<1>3. QueuedRows'
  BY <1>1, QueueEmptied DEF Vanish, RowsInv
<1>4. WorkerRows'
  BY <1>1, WorkersReset DEF Vanish, RowsInv
<1> QED
  BY <1>1, <1>2, <1>3, <1>4, AckedStays DEF RowsInv

LEMMA InitRows == Init => RowsInv
BY DEF Init, StreamInit, RowsInv, HeldRows, QueuedRows, WorkerRows, Covered, NoHeld, Gone

LEMMA NextRows == TypeOK /\ RowsInv /\ [Next]_vars => RowsInv'
<1> SUFFICES ASSUME TypeOK, RowsInv, [Next]_vars PROVE RowsInv'
  OBVIOUS
<1>1. ASSUME NEW c \in Consumer, Start(c) PROVE RowsInv'
  BY <1>1, LogGrowsWhenKept, CoveredNothing, HeldStays, QueuedStays, WorkerStays, AckedStays,
     WorkersReset
     DEF Start, ensure_consumer_group, RowsInv, ledger
<1>2. ASSUME NEW c \in Consumer, StartFails(c) PROVE RowsInv'
  BY <1>2, RowsStutter DEF StartFails, ledger, streamVars
<1>3. ASSUME NEW c \in Consumer, PutPill(c) PROVE RowsInv'
  BY <1>3, LogGrowsWhenKept, CoveredNothing, HeldStays, QueuedStays, WorkerStays, AckedStays,
     QueueGrows
     DEF PutPill, RowsInv, ledger, streamVars
<1>4. ASSUME NEW c \in Consumer, JoinWorkers(c) PROVE RowsInv'
  BY <1>4, RowsStutter DEF JoinWorkers, ledger, streamVars
<1>5. ASSUME NEW c \in Consumer, Sigterm(c) PROVE RowsInv'
  BY <1>5, RowsStutter DEF Sigterm, ledger, streamVars
<1>6. ASSUME NEW c \in Consumer, Cancel(c) PROVE RowsInv'
  <2>1. UNCHANGED <<log, table, acked, queue>>
    BY <1>6
       DEF Cancel, CancelReader, CancelAbsorbed, CancelPills, CancelWorkers, ledger, streamVars
  <2>2. HeldRows'
    BY <1>6, <2>1, LogGrowsWhenKept, CoveredNothing, HeldStays, QueuedStays, WorkerStays,
       AckedStays, HeldChanges
       DEF Cancel, CancelReader, CancelAbsorbed, CancelPills, CancelWorkers, RowsInv, NoHeld
  <2>3. WorkerRows'
    BY <1>6, <2>1, LogGrowsWhenKept, CoveredNothing, HeldStays, QueuedStays, WorkerStays,
       AckedStays, WorkersReset
       DEF Cancel, CancelReader, CancelAbsorbed, CancelPills, CancelWorkers, RowsInv
  <2> QED
    BY <2>1, <2>2, <2>3, LogGrowsWhenKept, CoveredNothing, HeldStays, QueuedStays, WorkerStays,
       AckedStays
       DEF RowsInv
<1>7. ASSUME NEW c \in Consumer, Exit(c) PROVE RowsInv'
  BY <1>7, VanishRows DEF Exit
<1>8. ASSUME NEW c \in Consumer, Crash(c) PROVE RowsInv'
  BY <1>8, VanishRows DEF Crash
<1>9. ASSUME NEW c \in Consumer, ReadPending(c) PROVE RowsInv'
  <2>1. PendingEntries(c, ReaderBatchSize) \subseteq Entries
    BY DEF PendingEntries, Smallest, TypeOK, StreamTypeOK
  <2>2. HeldRows'
    BY <1>9, <2>1, DecodeCovers, HeldStays, LogGrowsWhenKept
       DEF ReadPending, RowsInv, streamVars
  <2> QED
    BY <1>9, <2>2, LogGrowsWhenKept, CoveredNothing, HeldStays, QueuedStays, WorkerStays,
       AckedStays
       DEF ReadPending, RowsInv, ledger, streamVars
<1>10. ASSUME NEW c \in Consumer, ReadNew(c) PROVE RowsInv'
  <2>1. HeldRows'
    BY <1>10, NewEntriesType, DecodeCovers DEF ReadNew, RowsInv, DeliverNew
  <2> QED
    BY <1>10, <2>1, LogGrowsWhenKept, CoveredNothing, HeldStays, QueuedStays, WorkerStays,
       AckedStays
       DEF ReadNew, DeliverNew, RowsInv, ledger
<1>11. ASSUME NEW c \in Consumer, ReadNothing(c) PROVE RowsInv'
  BY <1>11, RowsStutter DEF ReadNothing, ledger, streamVars
<1>12. ASSUME NEW c \in Consumer, ReadNoGroup(c) PROVE RowsInv'
  BY <1>12, LogGrowsWhenKept, CoveredNothing, HeldStays, QueuedStays, WorkerStays, AckedStays,
     HeldChanges
     DEF ReadNoGroup, ReaderFails, NoHeld, RowsInv, ledger, streamVars
<1>13. ASSUME NEW c \in Consumer, ReadFails(c) PROVE RowsInv'
  BY <1>13, LogGrowsWhenKept, CoveredNothing, HeldStays, QueuedStays, WorkerStays, AckedStays,
     HeldChanges
     DEF ReadFails, ReaderFails, NoHeld, DeliverNew, RowsInv, ledger, streamVars
<1>14. ASSUME NEW c \in Consumer, AckPoison(c) PROVE RowsInv'
  <2> DEFINE h == [held[c] EXCEPT !.poison = {}]
  <2>1. UNCHANGED <<log, table, acked, queue, worker>> /\ held' = [held EXCEPT ![c] = h]
    BY <1>14 DEF AckPoison, XAck
  <2>2. h.ids = held[c].ids /\ h.rows = held[c].rows
    BY DEF TypeOK
  <2>3. HeldRows'
    BY <2>1, <2>2, LogGrowsWhenKept, CoveredStays, HeldChanges DEF RowsInv, HeldRows
  <2> QED
    BY <2>1, <2>3, LogGrowsWhenKept, CoveredNothing, HeldStays, QueuedStays, WorkerStays,
       AckedStays
       DEF RowsInv
<1>15. ASSUME NEW c \in Consumer, AckPoisonFails(c) PROVE RowsInv'
  BY <1>15, LogGrowsWhenKept, CoveredNothing, HeldStays, QueuedStays, WorkerStays, AckedStays,
     HeldChanges
     DEF AckPoisonFails, XAck, ReaderFails, NoHeld, RowsInv, streamVars
<1>16. ASSUME NEW c \in Consumer, Enqueue(c) PROVE RowsInv'
  <2> DEFINE b == [ids |-> held[c].ids, rows |-> held[c].rows]
  <2>1. LogGrows /\ queue' = [queue EXCEPT ![c] = Append(@, b)]
    BY <1>16, LogGrowsWhenKept DEF Enqueue, streamVars
  <2>2. Covered(log', b.ids, b.rows)
    BY <2>1, CoveredStays DEF RowsInv, HeldRows
  <2>3. QueuedRows'
    BY <2>1, <2>2, QueueGrows DEF RowsInv
  <2>4. HeldRows'
    BY <1>16, <2>1, HeldChanges, CoveredNothing DEF Enqueue, NoHeld, RowsInv
  <2> QED
    BY <1>16, <2>1, <2>3, <2>4, WorkerStays, AckedStays DEF Enqueue, RowsInv, ledger
<1>17. ASSUME NEW c \in Consumer, Wake(c) PROVE RowsInv'
  BY <1>17, RowsStutter DEF Wake, ledger, streamVars
<1>18. ASSUME NEW c \in Consumer, NEW w \in Worker, Dequeue(c, w) PROVE RowsInv'
  <2> DEFINE b == Head(queue[c])
           state == [at |-> IF b.rows = {} THEN "ack" ELSE "write", ids |-> b.ids, rows |-> b.rows]
  <2>1. UNCHANGED <<log, table, acked, held>> /\ LogGrows
    BY <1>18, LogGrowsWhenKept DEF Dequeue, ledger, streamVars
  <2>2. QueuedRows'
    BY <1>18, <2>1, QueueShrinks DEF Dequeue, RowsInv
  <2>3. ASSUME b = None, SetWorker(c, w, Gone) PROVE WorkerRows'
    <3>1. Gone.at # "ack" /\ Gone.ids = {}
      BY DEF Gone
    <3>2. Covered(log', Gone.ids, table' \cup Gone.rows)
      BY <3>1, CoveredNothing
    <3> QED
      BY <2>1, <2>3, <3>1, <3>2, WorkerChanges DEF RowsInv
  <2>4. ASSUME b # None, SetWorker(c, w, state) PROVE WorkerRows'
    <3>1. 1 \in 1..Len(queue[c]) /\ b = queue[c][1]
      BY <1>18 DEF Dequeue, TypeOK
    <3>2. Covered(log, b.ids, b.rows)
      BY <2>4, <3>1 DEF RowsInv, QueuedRows
    <3>3. b.rows \subseteq table' \cup b.rows
      OBVIOUS
    <3>4. Covered(log', b.ids, table' \cup b.rows)
      BY <2>1, <3>2, <3>3, CoveredStays
    <3>5. state.ids = b.ids /\ state.rows = b.rows /\ (state.at = "ack" => state.rows = {})
      OBVIOUS
    <3>6. SetWorker(c, w, state)
      BY <2>4
    <3> HIDE DEF state
    <3> QED
      BY <2>1, <3>4, <3>5, <3>6, WorkerChanges DEF RowsInv
  <2>5. WorkerRows'
    <3>1. \/ b = None /\ SetWorker(c, w, Gone)
          \/ b # None /\ SetWorker(c, w, state)
      BY <1>18 DEF Dequeue
    <3> HIDE DEF b, state
    <3> QED
      BY <2>3, <2>4, <3>1
  <2> QED
    BY <2>1, <2>2, <2>5, HeldStays, AckedStays DEF RowsInv
<1>19. ASSUME NEW c \in Consumer, NEW w \in Worker, CommitChunk(c, w) PROVE RowsInv'
  <2>1. UNCHANGED <<log, acked, held, queue>> /\ LogGrows
    BY <1>19, LogGrowsWhenKept DEF CommitChunk, streamVars
  <2>2. PICK chunk \in SUBSET worker[c][w].rows :
          /\ table' = table \cup chunk
          /\ LET left == worker[c][w].rows \ chunk IN
             SetWorker(c, w, [at |-> IF left = {} THEN "ack" ELSE "write",
                              ids |-> worker[c][w].ids, rows |-> left])
    BY <1>19 DEF CommitChunk
  <2> DEFINE left == worker[c][w].rows \ chunk
  <2>3. table \cup worker[c][w].rows \subseteq table' \cup left
    BY <2>2
  <2>4. Covered(log', worker[c][w].ids, table' \cup left)
    <3>1. Covered(log, worker[c][w].ids, table \cup worker[c][w].rows)
      BY DEF RowsInv, WorkerRows
    <3> QED
      BY <2>1, <2>3, <3>1, CoveredStays
  <2>5. WorkerRows'
    BY <2>1, <2>2, <2>4, WorkerChanges DEF RowsInv
  <2> QED
    BY <2>1, <2>2, <2>5, HeldStays, QueuedStays, AckedStays DEF RowsInv
<1>20. ASSUME NEW c \in Consumer, NEW w \in Worker, AckBatch(c, w) PROVE RowsInv'
  <2>1. UNCHANGED <<log, table, held, queue>> /\ LogGrows
    BY <1>20, LogGrowsWhenKept DEF AckBatch, XAck
  <2>2. worker[c][w].rows = {} /\ Covered(log, worker[c][w].ids, table \cup worker[c][w].rows)
    BY <1>20 DEF AckBatch, RowsInv, WorkerRows
  <2>3. Covered(log, worker[c][w].ids, table)
    BY <2>2 DEF Covered
  <2>4. Covered(log', acked', table')
    BY <1>20, <2>1, <2>3 DEF AckBatch, RowsInv, Covered
  <2>5. WorkerRows'
    BY <1>20, <2>1, WorkerChanges, CoveredNothing DEF AckBatch, Idle, RowsInv
  <2> QED
    BY <2>1, <2>4, <2>5, HeldStays, QueuedStays DEF RowsInv
<1>21. ASSUME NEW c \in Consumer, NEW w \in Worker, BatchFails(c, w) PROVE RowsInv'
  <2>1. UNCHANGED <<log, table, acked, held, queue>> /\ LogGrows
    BY <1>21, LogGrowsWhenKept DEF BatchFails, ledger, streamVars
  <2>2. WorkerRows'
    BY <1>21, <2>1, WorkerChanges, CoveredNothing DEF BatchFails, Idle, RowsInv
  <2> QED
    BY <2>1, <2>2, HeldStays, QueuedStays, AckedStays DEF RowsInv
<1>22. CASE Publish
  <2>1. LogGrows /\ UNCHANGED <<table, acked, held, queue, worker>>
    BY <1>22, AppendKeepsType
       DEF Publish, ledger, memory, LogGrows, Entries, TypeOK, StreamTypeOK
  <2> QED
    BY <2>1, HeldStays, QueuedStays, WorkerStays, AckedStays DEF RowsInv
<1>23. CASE RedisRestart
  BY <1>23, LogGrowsWhenKept, CoveredNothing, HeldStays, QueuedStays, WorkerStays, AckedStays
     DEF RedisRestart, StreamWiped, ledger, memory, RowsInv
<1>24. CASE UNCHANGED vars
  BY <1>24, RowsStutter DEF vars, streamVars, ledger, memory
<1> QED
  BY <1>1, <1>2, <1>3, <1>4, <1>5, <1>6, <1>7, <1>8, <1>9, <1>10, <1>11, <1>12, <1>13, <1>14,
     <1>15, <1>16, <1>17, <1>18, <1>19, <1>20, <1>21, <1>22, <1>23, <1>24
     DEF Next, ProcessStep, ReaderStep, WorkerStep

\* Whatever crashes, fails or restarts, the rows of every entry a worker has
\* acknowledged are in the table (_worker_loop, _write_batch).
THEOREM WriterSafe == Spec => []CommittedBeforeAck
<1>1. Init => TypeOK /\ RowsInv
  BY InitTypeOK, InitRows
<1>2. TypeOK /\ RowsInv /\ [Next]_vars => (TypeOK /\ RowsInv)'
  BY NextTypeOK, NextRows
<1>3. RowsInv => CommittedBeforeAck
  BY DEF RowsInv, Covered, CommittedBeforeAck
<1> QED
  BY <1>1, <1>2, <1>3, PTL DEF Spec

-----------------------------------------------------------------------------
(* What a step does to the stream and the ledgers.                         *)

Appends == (\E p \in Payload : xadd_rows(p)) /\ UNCHANGED ledger

Wipes == StreamWiped /\ UNCHANGED ledger

Delivers ==
    /\ \E c \in Consumer : DeliverNew(c, NewEntries(ReaderBatchSize))
    /\ UNCHANGED ledger

Commits ==
    /\ \E c \in Consumer, w \in Worker : \E chunk \in SUBSET worker[c][w].rows :
          table' = table \cup chunk
    /\ UNCHANGED <<log, trimmed, cursor, pel, acked, discarded>>

AcksWritten ==
    /\ \E c \in Consumer, w \in Worker :
          /\ worker[c][w].at = "ack"
          /\ XAck(c, worker[c][w].ids)
          /\ acked' = acked \cup worker[c][w].ids
    /\ UNCHANGED <<table, discarded>>

AcksPoison ==
    /\ \E c \in Consumer :
          /\ XAck(c, held[c].poison)
          /\ discarded' = discarded \cup held[c].poison
    /\ UNCHANGED <<table, acked>>

Keeps == UNCHANGED <<log, trimmed, cursor, pel, ledger>>

Effect == Appends \/ Wipes \/ Delivers \/ Commits \/ AcksWritten \/ AcksPoison \/ Keeps

LEMMA NextEffect == [Next]_vars => Effect
<1> SUFFICES ASSUME [Next]_vars PROVE Effect
  OBVIOUS
<1>1. ASSUME NEW c \in Consumer, ProcessStep(c) PROVE Keeps
  BY <1>1 DEF ProcessStep, Start, StartFails, PutPill, JoinWorkers, Sigterm, Cancel, Exit,
     Crash, Vanish, ensure_consumer_group, streamVars, ledger, Keeps
<1>2. ASSUME NEW c \in Consumer, ReaderStep(c) PROVE Effect
  <2>1. CASE ReadPending(c) \/ ReadNothing(c) \/ ReadNoGroup(c) \/ Enqueue(c) \/ Wake(c)
    BY <2>1 DEF ReadPending, ReadNothing, ReadNoGroup, Enqueue, Wake, streamVars, ledger,
       Keeps, Effect
  <2>2. CASE ReadNew(c) \/ ReadFails(c)
    BY <2>2 DEF ReadNew, ReadFails, streamVars, ledger, Delivers, Keeps, Effect
  <2>3. CASE AckPoison(c) \/ AckPoisonFails(c)
    BY <2>3 DEF AckPoison, AckPoisonFails, streamVars, ledger, AcksPoison, Keeps, Effect
  <2> QED
    BY <1>2, <2>1, <2>2, <2>3 DEF ReaderStep
<1>3. ASSUME NEW c \in Consumer, NEW w \in Worker, WorkerStep(c, w) PROVE Effect
  <2>1. CASE Dequeue(c, w) \/ BatchFails(c, w)
    BY <2>1 DEF Dequeue, BatchFails, streamVars, ledger, Keeps, Effect
  <2>2. CASE CommitChunk(c, w)
    BY <2>2 DEF CommitChunk, streamVars, Commits, Effect
  <2>3. CASE AckBatch(c, w)
    BY <2>3 DEF AckBatch, AcksWritten, Effect
  <2> QED
    BY <1>3, <2>1, <2>2, <2>3 DEF WorkerStep
<1>4. CASE Publish \/ RedisRestart
  BY <1>4 DEF Publish, RedisRestart, Appends, Wipes, Effect
<1>5. CASE UNCHANGED vars
  BY <1>5 DEF vars, streamVars, ledger, Keeps, Effect
<1> QED
  BY <1>1, <1>2, <1>3, <1>4, <1>5 DEF Next, Effect

\* The log grows and what is evicted stays so.
LEMMA EffectGrows ==
    ASSUME TypeOK, Effect
    PROVE  LogGrows /\ Entries \subseteq Entries' /\ trimmed' >= trimmed
<1>1. CASE Appends
  BY <1>1, AppendKeepsType DEF Appends, xadd_rows, TypeOK, StreamTypeOK, LogGrows, Entries
<1>2. CASE ~Appends
  <2>1. UNCHANGED log /\ (trimmed' = trimmed \/ trimmed' = Len(log))
    BY <1>2 DEF Effect, Wipes, StreamWiped, Delivers, DeliverNew, Commits, AcksWritten,
       AcksPoison, XAck, Keeps
  <2> QED
    BY <2>1 DEF LogGrows, Entries, TypeOK, StreamTypeOK
<1> QED
  BY <1>1, <1>2

-----------------------------------------------------------------------------
(* What the reader holds as poison cannot be written.                      *)

Unwritable == {i \in Entries : i <= trimmed \/ log[i] \in Malformed}

HeldPoison == \A c \in Consumer : held[c].poison \subseteq Unwritable

\* An entry that cannot be written never becomes writable again.
LEMMA UnwritableStays == TypeOK /\ Effect => Unwritable \subseteq Unwritable'
<1> SUFFICES ASSUME TypeOK, Effect, NEW i \in Unwritable PROVE i \in Unwritable'
  OBVIOUS
<1>1. i \in Entries' /\ log'[i] = log[i] /\ trimmed' >= trimmed
  BY EffectGrows DEF Unwritable, LogGrows, Entries
<1>2. i \in Nat /\ trimmed \in Nat /\ trimmed' \in Nat
  <2>1. trimmed' \in Nat
    BY NextTypeOK, EffectGrows DEF Effect, Appends, xadd_rows, Wipes, StreamWiped, Delivers,
       DeliverNew, Commits, AcksWritten, AcksPoison, XAck, Keeps, TypeOK, StreamTypeOK
  <2> QED
    BY <2>1 DEF Unwritable, Entries, TypeOK, StreamTypeOK
<1> QED
  BY <1>1, <1>2 DEF Unwritable

\* The rows that appended entries carry.
Logged == RowsOfEntries(Entries)

\* What Decode sets aside cannot be written, and what it keeps are rows of entries.
LEMMA DecodeSetsAside ==
    ASSUME TypeOK, NEW c \in Consumer, NEW ids \in SUBSET Entries, Decode(c, ids)
    PROVE  held'[c].poison \subseteq Unwritable /\ held'[c].rows \subseteq Logged
<1> DEFINE good == {i \in ids : Readable(i)}
<1>1. held'[c].poison = ids \ good /\ held'[c].rows = RowsOfEntries(good)
  BY DEF Decode, TypeOK
<1>2. ids \ good \subseteq Unwritable
  <2>1. \A i \in Entries : Readable(i) \/ i \in Unwritable
    <3>1. Entries \subseteq Nat /\ trimmed \in Nat
      BY DEF Entries, TypeOK, StreamTypeOK
    <3> QED
      BY <3>1 DEF Readable, Unwritable
  <2> QED
    BY <2>1
<1>3. RowsOfEntries(good) \subseteq Logged
  BY DEF RowsOfEntries, Logged
<1> QED
  BY <1>1, <1>2, <1>3

\* A step takes something from a reader's hands or decodes what it was given.
HeldMoves ==
    \A d \in Consumer :
        /\ held'[d].poison \subseteq held[d].poison \/ held'[d].poison \subseteq Unwritable
        /\ held'[d].rows \subseteq held[d].rows \/ held'[d].rows \subseteq Logged

LEMMA NextHeld == TypeOK /\ [Next]_vars => HeldMoves
<1> SUFFICES ASSUME TypeOK, [Next]_vars PROVE HeldMoves
  OBVIOUS
<1>1. ASSUME NEW c \in Consumer, held' = [held EXCEPT ![c] = NoHeld] PROVE HeldMoves
  BY <1>1 DEF NoHeld, TypeOK, HeldMoves
<1>2. ASSUME UNCHANGED held PROVE HeldMoves
  BY <1>2 DEF HeldMoves
<1>3. ASSUME NEW c \in Consumer, NEW ids \in SUBSET Entries, Decode(c, ids) PROVE HeldMoves
  <2>1. \A d \in Consumer : d # c => held'[d] = held[d]
    BY <1>3 DEF Decode, TypeOK
  <2> QED
    BY <2>1, <1>3, DecodeSetsAside DEF HeldMoves
<1>4. ASSUME NEW c \in Consumer, held' = [held EXCEPT ![c].poison = {}] PROVE HeldMoves
  BY <1>4 DEF TypeOK, HeldMoves
<1>5. ASSUME NEW c \in Consumer, ProcessStep(c) PROVE HeldMoves
  <2>1. CASE Cancel(c)
    BY <2>1, <1>1, <1>2
       DEF Cancel, CancelReader, CancelAbsorbed, CancelPills, CancelWorkers
  <2>2. CASE ~Cancel(c)
    BY <2>2, <1>5, <1>1, <1>2
       DEF ProcessStep, Start, StartFails, PutPill, JoinWorkers, Sigterm, Exit, Crash, Vanish
  <2> QED
    BY <2>1, <2>2
<1>6. ASSUME NEW c \in Consumer, ReaderStep(c) PROVE HeldMoves
  <2>1. CASE ReadPending(c)
    <3>1. PendingEntries(c, ReaderBatchSize) \subseteq Entries
      BY DEF PendingEntries, Smallest, TypeOK, StreamTypeOK
    <3> QED
      BY <2>1, <3>1, <1>2, <1>3 DEF ReadPending
  <2>2. CASE ReadNew(c)
    BY <2>2, <1>3, NewEntriesType DEF ReadNew
  <2>3. CASE AckPoison(c)
    BY <2>3, <1>4 DEF AckPoison
  <2>4. CASE ReadNothing(c) \/ ReadNoGroup(c) \/ ReadFails(c) \/ AckPoisonFails(c) \/ Enqueue(c) \/ Wake(c)
    BY <2>4, <1>1, <1>2
       DEF ReadNothing, ReadNoGroup, ReadFails, ReaderFails, AckPoisonFails, Enqueue, Wake
  <2> QED
    BY <1>6, <2>1, <2>2, <2>3, <2>4 DEF ReaderStep
<1>7. ASSUME NEW c \in Consumer, NEW w \in Worker, WorkerStep(c, w) PROVE HeldMoves
  BY <1>7, <1>2 DEF WorkerStep, Dequeue, CommitChunk, AckBatch, BatchFails
<1>8. CASE Publish \/ RedisRestart
  BY <1>8, <1>2 DEF Publish, RedisRestart, memory
<1>9. CASE UNCHANGED vars
  BY <1>9, <1>2 DEF vars, memory
<1> QED
  BY <1>5, <1>6, <1>7, <1>8, <1>9 DEF Next

DiscardInv == HeldPoison /\ discarded \subseteq Unwritable

LEMMA InitDiscard == Init => DiscardInv
BY DEF Init, DiscardInv, HeldPoison, NoHeld

LEMMA NextDiscard == TypeOK /\ DiscardInv /\ [Next]_vars => DiscardInv'
<1> SUFFICES ASSUME TypeOK, DiscardInv, [Next]_vars PROVE DiscardInv'
  OBVIOUS
<1>1. Effect /\ Unwritable \subseteq Unwritable'
  BY NextEffect, UnwritableStays
<1>2. HeldPoison'
  BY <1>1, NextHeld DEF DiscardInv, HeldPoison, HeldMoves
<1>3. \A i \in discarded' : i \in discarded \/ \E c \in Consumer : i \in held[c].poison
  BY <1>1 DEF Effect, Appends, Wipes, Delivers, Commits, AcksWritten, AcksPoison, Keeps, ledger
<1>4. discarded' \subseteq Unwritable'
  BY <1>1, <1>3 DEF DiscardInv, HeldPoison
<1> QED
  BY <1>2, <1>4 DEF DiscardInv

\* Whatever fails or restarts, the reader acknowledges unwritten only entries that do
\* not decode or are no longer in the stream (_enqueue_entries).
THEOREM DiscardsOnlyPoison == Spec => []DiscardedIsUnreadable
<1>1. Init => TypeOK /\ DiscardInv
  BY InitTypeOK, InitDiscard
<1>2. TypeOK /\ DiscardInv /\ [Next]_vars => (TypeOK /\ DiscardInv)'
  BY NextTypeOK, NextDiscard
<1>3. DiscardInv => DiscardedIsUnreadable
  BY DEF DiscardInv, Unwritable, DiscardedIsUnreadable
<1> QED
  BY <1>1, <1>2, <1>3, PTL DEF Spec

-----------------------------------------------------------------------------
(* Nothing falls between the group's cursor and the pending lists.         *)

\* XREADGROUP delivers the next entries without a gap.
LEMMA DeliveryLeavesNoGap ==
    ASSUME TypeOK, DeliveredIsAccounted, NEW c \in Consumer,
           DeliverNew(c, NewEntries(ReaderBatchSize)), UNCHANGED ledger
    PROVE  DeliveredIsAccounted'
<1> DEFINE ids == NewEntries(ReaderBatchSize)
<1>1. cursor' \in ids /\ trimmed' = trimmed
  BY DEF DeliverNew
<1>2. SUFFICES ASSUME NEW i \in (trimmed + 1)..cursor'
               PROVE  i \in acked \cup discarded \cup UNION {pel'[d] : d \in Consumer}
  BY <1>1 DEF DeliveredIsAccounted, ledger
<1>3. cursor \in Nat /\ trimmed \in Nat /\ ReaderBatchSize \in Nat /\ Len(log) \in Nat
  BY ConsumerAssumption DEF TypeOK, StreamTypeOK
<1>4. \A d \in Consumer : pel[d] \subseteq pel'[d]
  BY DEF DeliverNew, TypeOK, StreamTypeOK
<1>5. CASE i <= cursor
  <2>1. i \in (trimmed + 1)..cursor
    BY <1>2, <1>5, <1>3
  <2> QED
    BY <2>1, <1>4 DEF DeliveredIsAccounted
<1>6. CASE i > cursor
  <2>1. i \in ids
    BY <1>1, <1>2, <1>3, <1>6 DEF NewEntries, Entries
  <2>2. ids \subseteq pel'[c]
    BY DEF DeliverNew, TypeOK, StreamTypeOK
  <2> QED
    BY <2>1, <2>2
<1> QED
  BY <1>3, <1>5, <1>6, <1>1, <1>2 DEF NewEntries, Entries

LEMMA LaterStart ==
    \A a, b, n \in Nat : a <= b => (b + 1)..n \subseteq (a + 1)..n
OBVIOUS

LEMMA AckIsAccounted ==
    ASSUME TypeOK, DeliveredIsAccounted, NEW c \in Consumer, NEW ids, XAck(c, ids),
           acked \cup discarded \cup ids \subseteq acked' \cup discarded'
    PROVE  DeliveredIsAccounted'
<1>1. trimmed' = trimmed /\ cursor' = cursor
  BY DEF XAck
<1>2. \A d \in Consumer : pel[d] \subseteq pel'[d] \cup ids
  BY DEF XAck, TypeOK, StreamTypeOK
<1> QED
  BY <1>1, <1>2 DEF DeliveredIsAccounted

LEMMA NextAccounted == TypeOK /\ DeliveredIsAccounted /\ [Next]_vars => DeliveredIsAccounted'
<1> SUFFICES ASSUME TypeOK, DeliveredIsAccounted, [Next]_vars PROVE DeliveredIsAccounted'
  OBVIOUS
<1>1. CASE Appends
  <2>1. UNCHANGED <<cursor, pel, acked, discarded>>
    BY <1>1 DEF Appends, xadd_rows, ledger
  <2>2. trimmed \in Nat /\ trimmed' \in Nat /\ cursor \in Nat /\ trimmed' >= trimmed
    BY <1>1, AppendKeepsType DEF Appends, xadd_rows, TypeOK, StreamTypeOK
  <2>3. (trimmed' + 1)..cursor \subseteq (trimmed + 1)..cursor
    BY <2>2, LaterStart
  <2> QED
    BY <2>1, <2>3 DEF DeliveredIsAccounted
<1>2. CASE Wipes
  <2>1. (trimmed' + 1)..cursor' = {}
    BY <1>2 DEF Wipes, StreamWiped, TypeOK, StreamTypeOK
  <2> QED
    BY <2>1 DEF DeliveredIsAccounted
<1>3. CASE Delivers
  BY <1>3, DeliveryLeavesNoGap DEF Delivers
<1>4. CASE AcksWritten
  BY <1>4, AckIsAccounted DEF AcksWritten
<1>5. CASE AcksPoison
  BY <1>5, AckIsAccounted DEF AcksPoison
<1>6. CASE Commits \/ Keeps
  BY <1>6 DEF Commits, Keeps, ledger, DeliveredIsAccounted
<1> QED
  BY <1>1, <1>2, <1>3, <1>4, <1>5, <1>6, NextEffect DEF Effect

\* An entry the group has delivered is settled, evicted or pending: no crash, lost
\* reply or failed batch makes it vanish (_reader_loop, _worker_loop).
THEOREM NothingVanishes == Spec => []DeliveredIsAccounted
<1>1. Init => TypeOK /\ DeliveredIsAccounted
  BY InitTypeOK DEF Init, StreamInit, DeliveredIsAccounted
<1>2. TypeOK /\ DeliveredIsAccounted /\ [Next]_vars => (TypeOK /\ DeliveredIsAccounted)'
  BY NextTypeOK, NextAccounted
<1> QED
  BY <1>1, <1>2, PTL DEF Spec

-----------------------------------------------------------------------------
(* A replica past its drain forgets nothing.                               *)

\* NothingForgotten is not inductive: a reader that turns to the next batch, and a worker
\* that takes one, must have nothing in their hands that they would let fall.
Hands ==
    \A c \in Consumer :
        /\ proc[c] # "run" => reader[c] = "done"
        /\ reader[c] \notin {"ack", "put"} => held[c].ids = {}
        /\ reader[c] # "ack" => held[c].poison = {}
        /\ \A w \in Worker : worker[c][w].at \notin {"write", "ack"} => worker[c][w].ids = {}

\* Replica c has entry i in memory.
Carries(c, i) ==
    \/ i \in held[c].poison \/ i \in held[c].ids
    \/ \E k \in 1..Len(queue[c]) : queue[c][k] # None /\ i \in queue[c][k].ids
    \/ \E w \in Worker : i \in worker[c][w].ids

Remembers(c) ==
    proc[c] = "run" /\ stopping[c] # "cancelled" /\ ~draining[c]
        => \A i \in pel[c] : Carries(c, i)

MemoryInv == Hands /\ (faults = 0 => \A c \in Consumer : Remembers(c))

LEMMA InFlightIs ==
    ASSUME TypeOK, NEW c \in Consumer, NEW i, Carries(c, i)
    PROVE  i \in InFlight(c)
<1>1. DOMAIN queue[c] = 1..Len(queue[c])
  BY DEF TypeOK
<1>2. CASE i \in held[c].poison \/ i \in held[c].ids
  BY <1>2 DEF InFlight
<1>3. ASSUME NEW k \in 1..Len(queue[c]), queue[c][k] # None, i \in queue[c][k].ids
      PROVE  i \in InFlight(c)
  <2>1. k \in {n \in DOMAIN queue[c] : queue[c][n] # None}
    BY <1>1, <1>3
  <2> QED
    BY <1>3, <2>1, Zenon DEF InFlight
<1>4. ASSUME NEW w \in Worker, i \in worker[c][w].ids PROVE i \in InFlight(c)
  <2>1. i \in UNION {worker[c][v].ids : v \in Worker}
    BY <1>4
  <2>2. UNION {worker[c][v].ids : v \in Worker} \subseteq InFlight(c)
    BY Zenon DEF InFlight
  <2> QED
    BY <2>1, <2>2
<1> QED
  BY <1>2, <1>3, <1>4 DEF Carries

\* The memory of replica d, and what the group holds for it, stay as they are.
Untouched(d) ==
    /\ proc'[d] = proc[d] /\ stopping'[d] = stopping[d] /\ draining'[d] = draining[d]
    /\ reader'[d] = reader[d] /\ held'[d] = held[d] /\ queue'[d] = queue[d]
    /\ worker'[d] = worker[d] /\ pel'[d] = pel[d]

LEMMA UntouchedRemembers ==
    ASSUME NEW d \in Consumer, Untouched(d), Remembers(d)
    PROVE  Remembers(d)'
BY DEF Untouched, Remembers, Carries

\* The steps of one replica do not touch another.
LEMMA OthersUntouched ==
    ASSUME TypeOK, NEW c \in Consumer, NEW d \in Consumer, d # c,
           ProcessStep(c) \/ ReaderStep(c) \/ \E w \in Worker : WorkerStep(c, w)
    PROVE  Untouched(d)
<1>1. CASE ProcessStep(c)
  <2>1. CASE Cancel(c)
    BY <2>1 DEF Cancel, CancelReader, CancelAbsorbed, CancelPills, CancelWorkers, Untouched,
       TypeOK, StreamTypeOK, streamVars
  <2>2. CASE Exit(c) \/ Crash(c)
    BY <2>2 DEF Exit, Crash, Vanish, Untouched, TypeOK, StreamTypeOK, streamVars
  <2>3. CASE Start(c) \/ StartFails(c) \/ PutPill(c) \/ JoinWorkers(c) \/ Sigterm(c)
    BY <2>3 DEF Start, StartFails, PutPill, JoinWorkers, Sigterm, ensure_consumer_group,
       Untouched, TypeOK, StreamTypeOK, streamVars
  <2> QED
    BY <1>1, <2>1, <2>2, <2>3 DEF ProcessStep
<1>2. CASE ReaderStep(c)
  <2>1. CASE ReadPending(c) \/ ReadNew(c) \/ ReadNothing(c) \/ ReadNoGroup(c) \/ Wake(c)
    BY <2>1 DEF ReadPending, ReadNew, ReadNothing, ReadNoGroup, Wake, Decode, ReaderFails,
       DeliverNew, Untouched, TypeOK, StreamTypeOK, streamVars
  <2>2. CASE ReadFails(c)
    BY <2>2 DEF ReadFails, ReaderFails, DeliverNew, Untouched, TypeOK, StreamTypeOK, streamVars
  <2>3. CASE AckPoison(c) \/ AckPoisonFails(c) \/ Enqueue(c)
    BY <2>3 DEF AckPoison, AckPoisonFails, Enqueue, ReaderFails, XAck, Untouched, TypeOK,
       StreamTypeOK, streamVars
  <2> QED
    BY <1>2, <2>1, <2>2, <2>3 DEF ReaderStep
<1>3. CASE \E w \in Worker : WorkerStep(c, w)
  BY <1>3 DEF WorkerStep, Dequeue, CommitChunk, AckBatch, BatchFails, SetWorker, XAck,
     Untouched, TypeOK, StreamTypeOK, streamVars
<1> QED
  BY <1>1, <1>2, <1>3

\* A worker's place and batch change, or they do not.
LEMMA WorkerSet ==
    ASSUME TypeOK, NEW c \in Consumer, NEW w \in Worker, NEW state, SetWorker(c, w, state)
    PROVE  \A d \in Consumer, v \in Worker :
              worker'[d][v] = IF d = c /\ v = w THEN state ELSE worker[d][v]
BY DEF SetWorker, TypeOK

LEMMA HandsOfWorkers ==
    ASSUME TypeOK, Hands, NEW c \in Consumer, NEW w \in Worker, NEW state,
           SetWorker(c, w, state), UNCHANGED <<proc, reader, held>>,
           state.at \notin {"write", "ack"} => state.ids = {}
    PROVE  Hands'
BY WorkerSet DEF Hands

\* What the reader of c stands at and holds.
LEMMA HandsOfReader ==
    ASSUME TypeOK, Hands, NEW c \in Consumer, proc[c] = "run", UNCHANGED <<proc, worker>>,
           \A d \in Consumer : d # c => reader'[d] = reader[d] /\ held'[d] = held[d],
           reader'[c] \notin {"ack", "put"} => held'[c].ids = {},
           reader'[c] # "ack" => held'[c].poison = {}
    PROVE  Hands'
BY DEF Hands

LEMMA DecodeHands ==
    ASSUME TypeOK, NEW c \in Consumer, NEW ids, Decode(c, ids)
    PROVE  /\ reader'[c] \in {"ack", "put"}
           /\ reader'[c] # "ack" => held'[c].poison = {}
           /\ held'[c].poison \cup held'[c].ids = ids
           /\ \A d \in Consumer : d # c => reader'[d] = reader[d] /\ held'[d] = held[d]
<1> DEFINE good == {i \in ids : Readable(i)}
<1>1. /\ held'[c] = [poison |-> ids \ good, ids |-> good, rows |-> RowsOfEntries(good)]
      /\ reader'[c] = IF ids = good THEN "put" ELSE "ack"
      /\ \A d \in Consumer : d # c => reader'[d] = reader[d] /\ held'[d] = held[d]
  BY DEF Decode, TypeOK
<1>2. good \subseteq ids
  OBVIOUS
<1> HIDE DEF good
<1> QED
  BY <1>1, <1>2

LEMMA HandsStep == TypeOK /\ Hands /\ [Next]_vars => Hands'
<1> SUFFICES ASSUME TypeOK, Hands, [Next]_vars PROVE Hands'
  OBVIOUS
<1>1. ASSUME UNCHANGED <<proc, reader, held, worker>> PROVE Hands'
  BY <1>1 DEF Hands
<1>2. ASSUME NEW c \in Consumer, ProcessStep(c) PROVE Hands'
  <2>1. CASE Start(c)
    <3>1. /\ \A d \in Consumer, v \in Worker :
               worker'[d][v] = IF d = c THEN Idle ELSE worker[d][v]
          /\ \A d \in Consumer : reader'[d] = IF d = c THEN "read" ELSE reader[d]
          /\ \A d \in Consumer : proc'[d] = IF d = c THEN "run" ELSE proc[d]
          /\ held' = held
      BY <2>1 DEF Start, TypeOK
    <3>2. reader[c] = "done"
      BY <2>1 DEF Start, Hands
    <3> QED
      BY <3>1, <3>2 DEF Hands, Idle
  <2>2. CASE Exit(c) \/ Crash(c)
    <3>1. /\ \A d \in Consumer, v \in Worker :
               worker'[d][v] = IF d = c THEN Gone ELSE worker[d][v]
          /\ \A d \in Consumer : reader'[d] = IF d = c THEN "done" ELSE reader[d]
          /\ \A d \in Consumer : held'[d] = IF d = c THEN NoHeld ELSE held[d]
          /\ \A d \in Consumer : d # c => proc'[d] = proc[d]
      BY <2>2 DEF Exit, Crash, Vanish, TypeOK
    <3>2. NoHeld.ids = {} /\ NoHeld.poison = {} /\ Gone.ids = {}
      BY DEF NoHeld, Gone
    <3> SUFFICES ASSUME NEW d \in Consumer
                 PROVE  /\ proc'[d] # "run" => reader'[d] = "done"
                        /\ reader'[d] \notin {"ack", "put"} => held'[d].ids = {}
                        /\ reader'[d] # "ack" => held'[d].poison = {}
                        /\ \A v \in Worker :
                              worker'[d][v].at \notin {"write", "ack"} => worker'[d][v].ids = {}
      BY DEF Hands
    <3>3. CASE d = c
      <4>1. reader'[d] = "done" /\ held'[d] = NoHeld
        BY <3>1, <3>3
      <4>2. \A v \in Worker : worker'[d][v] = Gone
        BY <3>1, <3>3
      <4> QED
        BY <3>2, <4>1, <4>2
    <3>4. CASE d # c
      <4>1. reader'[d] = reader[d] /\ held'[d] = held[d] /\ proc'[d] = proc[d]
        BY <3>1, <3>4
      <4>2. \A v \in Worker : worker'[d][v] = worker[d][v]
        BY <3>1, <3>4
      <4> QED
        BY <4>1, <4>2 DEF Hands
    <3> QED
      BY <3>3, <3>4
  <2>3. CASE Cancel(c)
    <3>1. CASE CancelReader(c)
      BY <3>1, HandsOfReader DEF CancelReader, NoHeld, TypeOK
    <3>2. CASE CancelWorkers(c)
      <4>1. /\ \A d \in Consumer, v \in Worker :
                 worker'[d][v] = IF d = c THEN Gone ELSE worker[d][v]
            /\ UNCHANGED <<reader, held>> /\ reader[c] = "done"
            /\ \A d \in Consumer : d # c => proc'[d] = proc[d]
        BY <3>2 DEF CancelWorkers, ReaderIsDone, TypeOK
      <4> QED
        BY <4>1 DEF Hands, Gone
    <3>3. CASE CancelPills(c)
      <4>1. /\ UNCHANGED <<reader, held, worker>> /\ reader[c] = "done"
            /\ \A d \in Consumer : d # c => proc'[d] = proc[d]
        BY <3>3 DEF CancelPills, ReaderIsDone, TypeOK
      <4> QED
        BY <4>1 DEF Hands
    <3> QED
      BY <2>3, <1>1, <3>1, <3>2, <3>3 DEF Cancel, CancelAbsorbed
  <2>4. CASE StartFails(c) \/ JoinWorkers(c)
    <3>1. reader[c] = "done"
      BY <2>4 DEF StartFails, JoinWorkers, ReaderIsDone, Hands
    <3>2. /\ UNCHANGED <<reader, held, worker>>
          /\ \A d \in Consumer : d # c => proc'[d] = proc[d]
      BY <2>4 DEF StartFails, JoinWorkers, TypeOK
    <3> QED
      BY <3>1, <3>2 DEF Hands
  <2>5. CASE PutPill(c) \/ Sigterm(c)
    BY <2>5, <1>1 DEF PutPill, Sigterm
  <2> QED
    BY <1>2, <2>1, <2>2, <2>3, <2>4, <2>5 DEF ProcessStep
<1>3. ASSUME NEW c \in Consumer, ReaderStep(c) PROVE Hands'
  <2>1. CASE ReadPending(c) \/ ReadNew(c)
    <3>1. proc[c] = "run" /\ UNCHANGED <<proc, worker>>
      BY <2>1 DEF ReadPending, ReadNew
    <3>2. ASSUME NEW ids, Decode(c, ids) PROVE Hands'
      BY <3>1, <3>2, DecodeHands, HandsOfReader
    <3>3. CASE ReadPending(c) /\ UNCHANGED held
      <4>1. reader[c] = "read"
        BY <3>3 DEF ReadPending
      <4>2. \/ \E ids : Decode(c, ids)
            \/ reader' = [reader EXCEPT ![c] = IF stopping[c] = "no" THEN "read" ELSE "done"]
        BY <3>3 DEF ReadPending
      <4>3. held[c].ids = {} /\ held[c].poison = {}
        BY <4>1 DEF Hands
      <4> QED
        BY <3>1, <3>2, <3>3, <4>2, <4>3, HandsOfReader DEF TypeOK
    <3> QED
      BY <2>1, <3>2, <3>3 DEF ReadPending, ReadNew
  <2>2. CASE ReadNothing(c) \/ Wake(c)
    <3>1. proc[c] = "run" /\ UNCHANGED <<proc, held, worker>>
          /\ reader[c] \in {"read", "sleep"}
          /\ reader' = [reader EXCEPT ![c] = NextPass(c)]
      BY <2>2 DEF ReadNothing, Wake
    <3>2. held[c].ids = {} /\ held[c].poison = {}
      BY <3>1 DEF Hands
    <3> QED
      BY <3>1, <3>2, HandsOfReader DEF TypeOK
  <2>3. CASE ReadNoGroup(c) \/ ReadFails(c) \/ AckPoisonFails(c)
    <3>1. proc[c] = "run" /\ UNCHANGED <<proc, worker>> /\ ReaderFails(c)
      BY <2>3 DEF ReadNoGroup, ReadFails, AckPoisonFails
    <3>2. /\ reader'[c] \in {"done", "sleep"} /\ held'[c] = NoHeld
          /\ \A d \in Consumer : d # c => reader'[d] = reader[d] /\ held'[d] = held[d]
      BY <3>1 DEF ReaderFails, TypeOK
    <3> QED
      BY <3>1, <3>2, HandsOfReader DEF NoHeld
  <2>4. CASE AckPoison(c)
    <3>1. /\ proc[c] = "run" /\ UNCHANGED <<proc, worker>>
          /\ reader' = [reader EXCEPT ![c] = IF held[c].ids = {} THEN NextPass(c) ELSE "put"]
          /\ held' = [held EXCEPT ![c].poison = {}]
      BY <2>4 DEF AckPoison
    <3>2. /\ held'[c].poison = {} /\ held'[c].ids = held[c].ids
          /\ reader'[c] = IF held[c].ids = {} THEN NextPass(c) ELSE "put"
          /\ \A d \in Consumer : d # c => reader'[d] = reader[d] /\ held'[d] = held[d]
      BY <3>1 DEF TypeOK
    <3> QED
      BY <3>1, <3>2, HandsOfReader
  <2>5. CASE Enqueue(c)
    BY <2>5, HandsOfReader DEF Enqueue, NoHeld, TypeOK
  <2> QED
    BY <1>3, <2>1, <2>2, <2>3, <2>4, <2>5 DEF ReaderStep
<1>4. ASSUME NEW c \in Consumer, NEW w \in Worker, WorkerStep(c, w) PROVE Hands'
  <2>1. UNCHANGED <<proc, reader, held>>
    BY <1>4 DEF WorkerStep, Dequeue, CommitChunk, AckBatch, BatchFails
  <2>2. CASE Dequeue(c, w)
    <3> DEFINE b == Head(queue[c])
    <3>1. \/ SetWorker(c, w, Gone)
          \/ SetWorker(c, w, [at |-> IF b.rows = {} THEN "ack" ELSE "write",
                              ids |-> b.ids, rows |-> b.rows])
      BY <2>2 DEF Dequeue
    <3> QED
      BY <2>1, <3>1, HandsOfWorkers DEF Gone
  <2>3. CASE CommitChunk(c, w)
    <3>1. \E left : SetWorker(c, w, [at |-> IF left = {} THEN "ack" ELSE "write",
                                     ids |-> worker[c][w].ids, rows |-> left])
      BY <2>3 DEF CommitChunk
    <3> QED
      BY <2>1, <3>1, HandsOfWorkers
  <2>4. CASE AckBatch(c, w) \/ BatchFails(c, w)
    BY <2>1, <2>4, HandsOfWorkers DEF AckBatch, BatchFails, Idle
  <2> QED
    BY <1>4, <2>2, <2>3, <2>4 DEF WorkerStep
<1>5. CASE Publish \/ RedisRestart \/ UNCHANGED vars
  BY <1>1, <1>5 DEF Publish, RedisRestart, vars, memory
<1> QED
  BY <1>2, <1>3, <1>4, <1>5 DEF Next

\* Of some entries, one is the oldest.
LEMMA LeastEntry ==
    ASSUME NEW T \in SUBSET Nat, T # {}
    PROVE  \E x \in T : \A y \in T : x <= y
<1> DEFINE R == OpToRel(<, Nat)
<1>1. IsWellFoundedOn(R, Nat)
  BY NatLessThanWellFounded, Zenon
<1>2. \A x, y \in Nat : <<y, x>> \in R <=> y < x
  BY DEF OpToRel
<1> HIDE DEF R
<1>3. PICK x \in T : \A y \in T : ~ (<<y, x>> \in R)
  BY <1>1, WFMin, Zenon
<1>4. \A y \in T : x \in Nat /\ y \in Nat /\ ~ (y < x)
  BY <1>2, <1>3, Zenon
<1>5. \A y \in T : x <= y
  BY <1>4
<1> QED
  BY <1>5

\* What is in a sequence is its head or in its tail.
LEMMA HeadOrTail ==
    ASSUME NEW S, NEW q \in Seq(S), q # <<>>
    PROVE  \A k \in 1..Len(q) :
              q[k] = Head(q) \/ (k - 1 \in 1..Len(Tail(q)) /\ Tail(q)[k - 1] = q[k])
<1> TAKE k \in 1..Len(q)
<1>1. Len(Tail(q)) = Len(q) - 1 /\ Len(q) \in Nat /\ Head(q) = q[1]
  OBVIOUS
<1>2. CASE k = 1
  BY <1>1, <1>2
<1>3. CASE k # 1
  <2>1. k - 1 \in 1..Len(Tail(q))
    BY <1>1, <1>3
  <2>2. Tail(q)[k - 1] = q[(k - 1) + 1]
    BY <2>1
  <2> QED
    BY <2>1, <2>2
<1> QED
  BY <1>2, <1>3

\* A pending list from which nothing is read is empty.
LEMMA PendingIsEmpty ==
    ASSUME TypeOK, NEW c \in Consumer, PendingEntries(c, ReaderBatchSize) = {}
    PROVE  pel[c] = {}
<1> SUFFICES ASSUME pel[c] # {} PROVE FALSE
  OBVIOUS
<1>1. pel[c] \subseteq 1..Len(log) /\ Len(log) \in Nat
  BY DEF TypeOK, StreamTypeOK, Entries
<1>2. PICK i \in pel[c] : \A j \in pel[c] : i <= j
  BY <1>1, LeastEntry
<1>3. {j \in pel[c] : j < i} = {}
  BY <1>1, <1>2
<1>4. Cardinality({j \in pel[c] : j < i}) < ReaderBatchSize
  BY <1>3, FS_EmptySet, ConsumerAssumption
<1> QED
  BY <1>2, <1>4 DEF PendingEntries, Smallest

\* A step of the process.
LEMMA ProcessRemembers ==
    ASSUME TypeOK, NEW c \in Consumer, ProcessStep(c), Remembers(c)
    PROVE  Remembers(c)'
<1>1. CASE Start(c)
  BY <1>1 DEF Start, Remembers, TypeOK
<1>2. CASE StartFails(c) \/ JoinWorkers(c) \/ Exit(c) \/ Crash(c)
  BY <1>2 DEF StartFails, JoinWorkers, Exit, Crash, Vanish, Remembers, TypeOK
<1>3. CASE Cancel(c)
  BY <1>3 DEF Cancel, Remembers, TypeOK
<1>4. CASE Sigterm(c)
  <2>1. /\ stopping[c] = "no"
        /\ UNCHANGED <<proc, draining, pel, held, queue, worker>>
    BY <1>4 DEF Sigterm, streamVars
  <2> QED
    BY <2>1 DEF Remembers, Carries
<1>5. CASE PutPill(c)
  <2>1. /\ UNCHANGED <<proc, stopping, draining, pel, held, worker>>
        /\ queue'[c] = Append(queue[c], None) /\ queue[c] \in Seq(Batch \cup {None})
    BY <1>5 DEF PutPill, streamVars, TypeOK
  <2>2. \A k \in 1..Len(queue[c]) : k \in 1..Len(queue'[c]) /\ queue'[c][k] = queue[c][k]
    BY <2>1
  <2>3. \A i : Carries(c, i) => Carries(c, i)'
    BY <2>1, <2>2 DEF Carries
  <2> QED
    BY <2>1, <2>3 DEF Remembers
<1> QED
  BY <1>1, <1>2, <1>3, <1>4, <1>5 DEF ProcessStep

\* A step of the reader in which no call fails.
LEMMA ReaderRemembers ==
    ASSUME TypeOK, Hands, NEW c \in Consumer, ReaderStep(c), faults' = 0, Remembers(c)
    PROVE  Remembers(c)'
<1>0. faults \in Nat
  BY ConsumerAssumption DEF TypeOK
<1>1. CASE ReadPending(c)
  <2>1. CASE PendingEntries(c, ReaderBatchSize) = {}
    <3>1. pel'[c] = {}
      BY <1>1, <2>1, PendingIsEmpty DEF ReadPending, streamVars
    <3> QED
      BY <3>1 DEF Remembers
  <2>2. CASE PendingEntries(c, ReaderBatchSize) # {}
    BY <1>1, <2>2 DEF ReadPending, Remembers
  <2> QED
    BY <2>1, <2>2
<1>2. CASE ReadNew(c)
  <2> DEFINE ids == NewEntries(ReaderBatchSize)
  <2>1. /\ reader[c] = "read" /\ Decode(c, ids) /\ DeliverNew(c, ids)
        /\ UNCHANGED <<proc, stopping, draining, queue, worker>>
    BY <1>2 DEF ReadNew
  <2>2. held[c].ids = {} /\ held[c].poison = {}
    BY <2>1 DEF Hands
  <2>3. held'[c].poison \cup held'[c].ids = ids
    BY <2>1, DecodeHands
  <2>4. pel'[c] = pel[c] \cup ids
    BY <2>1 DEF DeliverNew, TypeOK, StreamTypeOK
  <2> HIDE DEF ids
  <2>5. \A i \in ids : Carries(c, i)'
    BY <2>3 DEF Carries
  <2>6. \A i : Carries(c, i) => Carries(c, i)'
    BY <2>1, <2>2 DEF Carries
  <2> QED
    BY <2>1, <2>4, <2>5, <2>6 DEF Remembers
<1>3. CASE ReadNothing(c) \/ Wake(c)
  BY <1>3 DEF ReadNothing, Wake, streamVars, Remembers, Carries
<1>4. CASE ReadNoGroup(c)
  <2>1. /\ reader[c] = "read" /\ UNCHANGED <<proc, stopping, draining, queue, worker, pel>>
    BY <1>4 DEF ReadNoGroup, streamVars
  <2>2. held[c].ids = {} /\ held[c].poison = {}
    BY <2>1 DEF Hands
  <2>3. \A i : Carries(c, i) => Carries(c, i)'
    BY <2>1, <2>2 DEF Carries
  <2> QED
    BY <2>1, <2>3 DEF Remembers
<1>5. CASE ReadFails(c) \/ AckPoisonFails(c)
  BY <1>0, <1>5 DEF ReadFails, AckPoisonFails, Fault
<1>6. CASE AckPoison(c)
  <2>1. /\ UNCHANGED <<proc, stopping, draining, queue, worker>>
        /\ pel'[c] = pel[c] \ held[c].poison
        /\ held'[c].ids = held[c].ids
    BY <1>6 DEF AckPoison, XAck, TypeOK, StreamTypeOK
  <2>2. \A i : Carries(c, i) => i \in held[c].poison \/ Carries(c, i)'
    BY <2>1 DEF Carries
  <2> QED
    BY <2>1, <2>2 DEF Remembers
<1>7. CASE Enqueue(c)
  <2> DEFINE b == [ids |-> held[c].ids, rows |-> held[c].rows]
  <2>1. /\ reader[c] = "put" /\ UNCHANGED <<proc, stopping, draining, worker, pel>>
        /\ queue'[c] = Append(queue[c], b) /\ queue[c] \in Seq(Batch \cup {None})
    BY <1>7 DEF Enqueue, streamVars, TypeOK
  <2>2. held[c].poison = {}
    BY <2>1 DEF Hands
  <2>3. b.ids = held[c].ids /\ b # None
    BY ConsumerAssumption DEF Batch, TypeOK
  <2> HIDE DEF b
  <2>4. \A k \in 1..Len(queue[c]) : k \in 1..Len(queue'[c]) /\ queue'[c][k] = queue[c][k]
    BY <2>1
  <2>5. Len(queue[c]) + 1 \in 1..Len(queue'[c]) /\ queue'[c][Len(queue[c]) + 1] = b
    BY <2>1
  <2>6. \A i : Carries(c, i) => Carries(c, i)'
    BY <2>1, <2>2, <2>3, <2>4, <2>5 DEF Carries
  <2> QED
    BY <2>1, <2>6 DEF Remembers
<1> QED
  BY <1>1, <1>2, <1>3, <1>4, <1>5, <1>6, <1>7 DEF ReaderStep

\* A step of a worker in which no call fails.
LEMMA WorkerRemembers ==
    ASSUME TypeOK, Hands, NEW c \in Consumer, NEW w \in Worker, WorkerStep(c, w), faults' = 0,
           Remembers(c)
    PROVE  Remembers(c)'
<1>0. faults \in Nat /\ UNCHANGED <<proc, stopping, draining, held>>
  BY ConsumerAssumption
     DEF TypeOK, WorkerStep, Dequeue, CommitChunk, AckBatch, BatchFails
<1>1. CASE Dequeue(c, w)
  <2> DEFINE q == queue[c]
             b == Head(queue[c])
             state == [at |-> IF b.rows = {} THEN "ack" ELSE "write",
                       ids |-> b.ids, rows |-> b.rows]
  <2>1. /\ q \in Seq(Batch \cup {None}) /\ q # <<>> /\ queue'[c] = Tail(q)
        /\ worker[c][w].at = "get" /\ UNCHANGED pel
        /\ \/ b = None /\ SetWorker(c, w, Gone)
           \/ b # None /\ SetWorker(c, w, state)
    BY <1>1 DEF Dequeue, TypeOK, streamVars
  <2>2. worker[c][w].ids = {}
    BY <2>1 DEF Hands
  <2>3. \A v \in Worker : v # w => worker'[c][v] = worker[c][v]
    BY <2>1, WorkerSet
  <2>4. b # None => worker'[c][w].ids = b.ids
    <3>1. state.ids = b.ids
      OBVIOUS
    <3> HIDE DEF state, b
    <3> QED
      BY <2>1, <3>1, WorkerSet
  <2>5. \A k \in 1..Len(q) :
           \/ q[k] = b
           \/ k - 1 \in 1..Len(Tail(q)) /\ Tail(q)[k - 1] = q[k]
    BY <2>1, HeadOrTail
  <2> HIDE DEF b, q
  <2>6. \A i : Carries(c, i) => Carries(c, i)'
    BY <1>0, <2>1, <2>2, <2>3, <2>4, <2>5 DEF Carries, q
  <2> QED
    BY <1>0, <2>1, <2>6 DEF Remembers
<1>2. CASE CommitChunk(c, w)
  <2>1. UNCHANGED <<pel, queue>>
    BY <1>2 DEF CommitChunk, streamVars
  <2>2. PICK left : SetWorker(c, w, [at |-> IF left = {} THEN "ack" ELSE "write",
                                     ids |-> worker[c][w].ids, rows |-> left])
    BY <1>2 DEF CommitChunk
  <2>3. \A v \in Worker : worker'[c][v].ids = worker[c][v].ids
    BY <2>2, WorkerSet
  <2> QED
    BY <1>0, <2>1, <2>3 DEF Remembers, Carries
<1>3. CASE AckBatch(c, w)
  <2>1. /\ UNCHANGED queue
        /\ pel'[c] = pel[c] \ worker[c][w].ids
        /\ \A v \in Worker : v # w => worker'[c][v] = worker[c][v]
    BY <1>3, WorkerSet DEF AckBatch, XAck, TypeOK, StreamTypeOK
  <2>2. \A i : Carries(c, i) => i \in worker[c][w].ids \/ Carries(c, i)'
    BY <1>0, <2>1 DEF Carries
  <2> QED
    BY <1>0, <2>1, <2>2 DEF Remembers
<1>4. CASE BatchFails(c, w)
  BY <1>0, <1>4 DEF BatchFails, Fault
<1> QED
  BY <1>1, <1>2, <1>3, <1>4 DEF WorkerStep

LEMMA MemoryStep == TypeOK /\ MemoryInv /\ [Next]_vars => MemoryInv'
<1> SUFFICES ASSUME TypeOK, MemoryInv, [Next]_vars PROVE MemoryInv'
  OBVIOUS
<1>1. Hands /\ Hands'
  BY HandsStep DEF MemoryInv
<1> SUFFICES ASSUME faults' = 0, NEW d \in Consumer PROVE Remembers(d)'
  BY <1>1 DEF MemoryInv
<1>2. faults = 0
  <2>1. faults \in Nat
    BY ConsumerAssumption DEF TypeOK
  <2>2. ASSUME NEW c \in Consumer, ProcessStep(c) PROVE faults' = faults \/ Fault
    BY <2>2 DEF ProcessStep, Start, StartFails, PutPill, JoinWorkers, Sigterm, Cancel, Exit,
       Crash, Vanish, budget
  <2>3. ASSUME NEW c \in Consumer, ReaderStep(c) PROVE faults' = faults \/ Fault
    BY <2>3 DEF ReaderStep, ReadPending, ReadNew, ReadNothing, ReadNoGroup, ReadFails,
       AckPoison, AckPoisonFails, Enqueue, Wake, budget
  <2>4. ASSUME NEW c \in Consumer, NEW w \in Worker, WorkerStep(c, w)
        PROVE  faults' = faults \/ Fault
    BY <2>4 DEF WorkerStep, Dequeue, CommitChunk, AckBatch, BatchFails, budget
  <2>5. CASE Publish \/ RedisRestart \/ UNCHANGED vars
    BY <2>5 DEF Publish, RedisRestart, vars, budget
  <2>6. faults' = faults \/ Fault
    BY <2>2, <2>3, <2>4, <2>5 DEF Next
  <2> QED
    BY <2>1, <2>6 DEF Fault
<1>3. Remembers(d)
  BY <1>2 DEF MemoryInv
<1>4. ASSUME NEW c \in Consumer,
             ProcessStep(c) \/ ReaderStep(c) \/ \E w \in Worker : WorkerStep(c, w)
      PROVE  Remembers(d)'
  <2>1. CASE d = c
    BY <1>1, <1>3, <1>4, <2>1, ProcessRemembers, ReaderRemembers, WorkerRemembers
  <2>2. CASE d # c
    BY <1>3, <1>4, <2>2, OthersUntouched, UntouchedRemembers
  <2> QED
    BY <2>1, <2>2
<1>5. CASE Publish \/ UNCHANGED vars
  BY <1>3, <1>5 DEF Publish, xadd_rows, vars, streamVars, memory, Remembers, Carries
<1>6. CASE RedisRestart
  BY <1>6 DEF RedisRestart, StreamWiped, Remembers
<1> QED
  BY <1>4, <1>5, <1>6 DEF Next

\* As long as no call fails, a replica past its drain has all that is pending for it in
\* memory: the drain left nothing behind, and no reader or worker drops what it read, for
\* any replicas and sizes (_drain_pending, _enqueue_entries, _worker_loop).
THEOREM NothingIsForgotten == Spec => []NothingForgotten
<1>1. Init => TypeOK /\ MemoryInv
  BY InitTypeOK DEF Init, MemoryInv, Hands, Remembers, NoHeld, Gone
<1>2. TypeOK /\ MemoryInv /\ [Next]_vars => (TypeOK /\ MemoryInv)'
  BY NextTypeOK, MemoryStep
<1>3. TypeOK /\ MemoryInv => NothingForgotten
  BY InFlightIs DEF MemoryInv, Remembers, NothingForgotten
<1> QED
  BY <1>1, <1>2, <1>3, PTL DEF Spec

-----------------------------------------------------------------------------
(* The db-writer implements DurableDelivery.                               *)

\* A batch on its way to a worker keeps its rows.
QueueMoves ==
    \A d \in Consumer : \A k \in 1..Len(queue'[d]) :
        queue'[d][k] # None =>
            \/ \E j \in 1..Len(queue[d]) : queue'[d][k] = queue[d][j]
            \/ queue'[d][k].rows = held[d].rows

LEMMA QueueMovesWhenKept == UNCHANGED queue => QueueMoves
BY DEF QueueMoves

LEMMA QueueMovesWhenEmptied ==
    ASSUME TypeOK, NEW c \in Consumer, queue' = [queue EXCEPT ![c] = <<>>]
    PROVE  QueueMoves
<1>1. \A d \in Consumer : IF d = c THEN Len(queue'[d]) = 0 ELSE queue'[d] = queue[d]
  BY DEF TypeOK
<1> QED
  BY <1>1 DEF QueueMoves

LEMMA QueueMovesWhenGrown ==
    ASSUME TypeOK, NEW c \in Consumer, NEW b, queue' = [queue EXCEPT ![c] = Append(@, b)],
           b # None => b.rows = held[c].rows
    PROVE  QueueMoves
<1> SUFFICES ASSUME NEW d \in Consumer, NEW k \in 1..Len(queue'[d]), queue'[d][k] # None
             PROVE  \/ \E j \in 1..Len(queue[d]) : queue'[d][k] = queue[d][j]
                    \/ queue'[d][k].rows = held[d].rows
  BY DEF QueueMoves
<1>1. CASE d = c
  <2>1. queue'[d] = Append(queue[d], b) /\ queue[d] \in Seq(Batch \cup {None})
    BY <1>1 DEF TypeOK
  <2>2. CASE k \in 1..Len(queue[d])
    BY <2>1, <2>2
  <2>3. CASE k = Len(queue[d]) + 1
    <3>1. queue'[d][k] = b
      BY <2>1, <2>3
    <3> QED
      BY <3>1, <1>1
  <2> QED
    BY <2>1, <2>2, <2>3
<1>2. CASE d # c
  <2>1. queue'[d] = queue[d]
    BY <1>2 DEF TypeOK
  <2> QED
    BY <2>1
<1> QED
  BY <1>1, <1>2

LEMMA QueueMovesWhenShrunk ==
    ASSUME TypeOK, NEW c \in Consumer, queue[c] # <<>>, queue' = [queue EXCEPT ![c] = Tail(@)]
    PROVE  QueueMoves
<1> SUFFICES ASSUME NEW d \in Consumer, NEW k \in 1..Len(queue'[d]), queue'[d][k] # None
             PROVE  \E j \in 1..Len(queue[d]) : queue'[d][k] = queue[d][j]
  BY DEF QueueMoves
<1>1. CASE d = c
  <2> DEFINE q == queue[d]
  <2>1. queue'[d] = Tail(q) /\ q \in Seq(Batch \cup {None}) /\ q # <<>>
    BY <1>1 DEF TypeOK
  <2>2. Len(Tail(q)) = Len(q) - 1 /\ Len(q) \in Nat
    BY <2>1
  <2>3. k \in 1..Len(Tail(q))
    BY <2>1
  <2>4. Tail(q)[k] = q[k + 1]
    BY <2>1, <2>3
  <2>5. k + 1 \in 1..Len(q)
    BY <2>2, <2>3
  <2> QED
    BY <2>1, <2>4, <2>5
<1>2. CASE d # c
  <2>1. queue'[d] = queue[d]
    BY <1>2 DEF TypeOK
  <2> QED
    BY <2>1
<1> QED
  BY <1>1, <1>2

LEMMA NextQueue == TypeOK /\ [Next]_vars => QueueMoves
<1> SUFFICES ASSUME TypeOK, [Next]_vars PROVE QueueMoves
  OBVIOUS
<1>1. ASSUME NEW c \in Consumer, ProcessStep(c) PROVE QueueMoves
  <2>1. CASE PutPill(c)
    BY <2>1, QueueMovesWhenGrown DEF PutPill
  <2>2. CASE Exit(c) \/ Crash(c)
    BY <2>2, QueueMovesWhenEmptied DEF Exit, Crash, Vanish
  <2>3. CASE Start(c) \/ StartFails(c) \/ JoinWorkers(c) \/ Sigterm(c) \/ Cancel(c)
    BY <2>3, QueueMovesWhenKept DEF Start, StartFails, JoinWorkers, Sigterm, Cancel,
       CancelReader, CancelAbsorbed, CancelPills, CancelWorkers
  <2> QED
    BY <1>1, <2>1, <2>2, <2>3 DEF ProcessStep
<1>2. ASSUME NEW c \in Consumer, ReaderStep(c) PROVE QueueMoves
  <2>1. CASE Enqueue(c)
    <3> DEFINE b == [ids |-> held[c].ids, rows |-> held[c].rows]
    <3>1. queue' = [queue EXCEPT ![c] = Append(@, b)] /\ b.rows = held[c].rows
      BY <2>1 DEF Enqueue
    <3> HIDE DEF b
    <3> QED
      BY <3>1, QueueMovesWhenGrown
  <2>2. CASE ~Enqueue(c)
    BY <1>2, <2>2, QueueMovesWhenKept DEF ReaderStep, ReadPending, ReadNew, ReadNothing,
       ReadNoGroup, ReadFails, AckPoison, AckPoisonFails, Wake
  <2> QED
    BY <2>1, <2>2
<1>3. ASSUME NEW c \in Consumer, NEW w \in Worker, WorkerStep(c, w) PROVE QueueMoves
  <2>1. CASE Dequeue(c, w)
    BY <2>1, QueueMovesWhenShrunk DEF Dequeue
  <2>2. CASE ~Dequeue(c, w)
    BY <1>3, <2>2, QueueMovesWhenKept DEF WorkerStep, CommitChunk, AckBatch, BatchFails
  <2> QED
    BY <2>1, <2>2
<1>4. CASE Publish \/ RedisRestart
  BY <1>4, QueueMovesWhenKept DEF Publish, RedisRestart, memory
<1>5. CASE UNCHANGED vars
  BY <1>5, QueueMovesWhenKept DEF vars, memory
<1> QED
  BY <1>1, <1>2, <1>3, <1>4, <1>5 DEF Next

\* A worker's rows shrink, or are those of a queued batch.
WorkerMoves ==
    \A d \in Consumer : \A v \in Worker :
        \/ worker'[d][v].rows \subseteq worker[d][v].rows
        \/ \E j \in 1..Len(queue[d]) :
              queue[d][j] # None /\ worker'[d][v].rows = queue[d][j].rows

LEMMA WorkerMovesWhenSet ==
    ASSUME TypeOK, NEW c \in Consumer, NEW w \in Worker, NEW state, SetWorker(c, w, state),
           \/ state.rows \subseteq worker[c][w].rows
           \/ \E j \in 1..Len(queue[c]) :
                 queue[c][j] # None /\ state.rows = queue[c][j].rows
    PROVE  WorkerMoves
<1>1. \A d \in Consumer : \A v \in Worker :
         worker'[d][v] = IF d = c /\ v = w THEN state ELSE worker[d][v]
  BY DEF SetWorker, TypeOK
<1> QED
  BY <1>1 DEF WorkerMoves

LEMMA WorkerMovesWhenReset ==
    ASSUME TypeOK, NEW c \in Consumer, NEW state \in {Idle, Gone},
           worker' = [worker EXCEPT ![c] = [w \in Worker |-> state]]
    PROVE  WorkerMoves
<1>1. \A d \in Consumer : \A v \in Worker :
         worker'[d][v] = IF d = c THEN state ELSE worker[d][v]
  BY DEF TypeOK
<1>2. state.rows = {}
  BY DEF Idle, Gone
<1> QED
  BY <1>1, <1>2 DEF WorkerMoves

LEMMA NextWorker == TypeOK /\ [Next]_vars => WorkerMoves
<1> SUFFICES ASSUME TypeOK, [Next]_vars PROVE WorkerMoves
  OBVIOUS
<1>0. ASSUME UNCHANGED worker PROVE WorkerMoves
  BY <1>0 DEF WorkerMoves
<1>1. ASSUME NEW c \in Consumer, ProcessStep(c) PROVE WorkerMoves
  <2>1. CASE Start(c)
    BY <2>1, WorkerMovesWhenReset DEF Start
  <2>2. CASE Exit(c) \/ Crash(c) \/ Cancel(c)
    BY <2>2, <1>0, WorkerMovesWhenReset DEF Exit, Crash, Vanish, Cancel, CancelReader,
       CancelAbsorbed, CancelPills, CancelWorkers
  <2>3. CASE StartFails(c) \/ PutPill(c) \/ JoinWorkers(c) \/ Sigterm(c)
    BY <2>3, <1>0 DEF StartFails, PutPill, JoinWorkers, Sigterm
  <2> QED
    BY <1>1, <2>1, <2>2, <2>3 DEF ProcessStep
<1>2. ASSUME NEW c \in Consumer, ReaderStep(c) PROVE WorkerMoves
  BY <1>2, <1>0 DEF ReaderStep, ReadPending, ReadNew, ReadNothing, ReadNoGroup, ReadFails,
     AckPoison, AckPoisonFails, Enqueue, Wake
<1>3. ASSUME NEW c \in Consumer, NEW w \in Worker, WorkerStep(c, w) PROVE WorkerMoves
  <2>1. CASE Dequeue(c, w)
    <3> DEFINE b == Head(queue[c])
               state == [at |-> IF b.rows = {} THEN "ack" ELSE "write",
                         ids |-> b.ids, rows |-> b.rows]
    <3>1. \/ SetWorker(c, w, Gone)
          \/ b # None /\ SetWorker(c, w, state)
      BY <2>1 DEF Dequeue
    <3>2. 1 \in 1..Len(queue[c]) /\ b = queue[c][1]
      BY <2>1 DEF Dequeue, TypeOK
    <3>3. Gone.rows = {} /\ state.rows = b.rows
      BY DEF Gone
    <3> HIDE DEF b, state
    <3> QED
      BY <3>1, <3>2, <3>3, WorkerMovesWhenSet
  <2>2. CASE CommitChunk(c, w)
    <3>1. PICK chunk \in SUBSET worker[c][w].rows :
            LET left == worker[c][w].rows \ chunk IN
            SetWorker(c, w, [at |-> IF left = {} THEN "ack" ELSE "write",
                             ids |-> worker[c][w].ids, rows |-> left])
      BY <2>2 DEF CommitChunk
    <3> QED
      BY <3>1, WorkerMovesWhenSet
  <2>3. CASE AckBatch(c, w) \/ BatchFails(c, w)
    <3>1. SetWorker(c, w, Idle) /\ Idle.rows \subseteq worker[c][w].rows
      BY <2>3 DEF AckBatch, BatchFails, Idle
    <3> QED
      BY <3>1, WorkerMovesWhenSet
  <2> QED
    BY <1>3, <2>1, <2>2, <2>3 DEF WorkerStep
<1>4. CASE Publish \/ RedisRestart
  BY <1>4, <1>0 DEF Publish, RedisRestart, memory
<1>5. CASE UNCHANGED vars
  BY <1>5, <1>0 DEF vars, memory
<1> QED
  BY <1>1, <1>2, <1>3, <1>4, <1>5 DEF Next

\* The rows on their way to the table are rows of appended entries.
LoggedInv ==
    /\ \A c \in Consumer : held[c].rows \subseteq Logged
    /\ \A c \in Consumer : \A k \in 1..Len(queue[c]) :
          queue[c][k] # None => queue[c][k].rows \subseteq Logged
    /\ \A c \in Consumer : \A w \in Worker : worker[c][w].rows \subseteq Logged

LEMMA InitLogged == Init => LoggedInv
BY DEF Init, LoggedInv, NoHeld, Gone

LEMMA LoggedStays == LogGrows /\ Entries \subseteq Entries' => Logged \subseteq Logged'
BY DEF LogGrows, Logged, RowsOfEntries, Entries

LEMMA NextLogged == TypeOK /\ LoggedInv /\ [Next]_vars => LoggedInv'
<1> SUFFICES ASSUME TypeOK, LoggedInv, [Next]_vars PROVE LoggedInv'
  OBVIOUS
<1>1. Logged \subseteq Logged'
  BY NextEffect, EffectGrows, LoggedStays
<1>2. \A c \in Consumer : held'[c].rows \subseteq Logged
  BY NextHeld DEF HeldMoves, LoggedInv
<1>3. ASSUME NEW c \in Consumer, NEW k \in 1..Len(queue'[c]), queue'[c][k] # None
      PROVE  queue'[c][k].rows \subseteq Logged
  BY <1>3, NextQueue DEF QueueMoves, LoggedInv
<1>4. ASSUME NEW c \in Consumer, NEW w \in Worker PROVE worker'[c][w].rows \subseteq Logged
  BY <1>4, NextWorker DEF WorkerMoves, LoggedInv
<1> QED
  BY <1>1, <1>2, <1>3, <1>4 DEF LoggedInv

\* Every step appends, evicts, commits or settles as DurableDelivery allows, or is a
\* stutter to it.
LEMMA StepImplements ==
    ASSUME TypeOK, RowsInv, DiscardInv, LoggedInv, Effect
    PROVE  [Delivery!Next]_<<log, trimmed, acked \cup discarded, table>>
<1> USE DEF Delivery!Next
<1>1. CASE Appends
  <2>1. PICK p \in Payload : xadd_rows(p)
    BY <1>1 DEF Appends
  <2>2. trimmed' \in trimmed..Len(log') /\ log' = Append(log, p)
    BY <2>1 DEF xadd_rows
  <2>3. UNCHANGED <<acked \cup discarded, table>>
    BY <1>1 DEF Appends, ledger
  <2> QED
    BY <2>2, <2>3 DEF Delivery!Append1
<1>2. CASE Wipes
  <2>1. trimmed' \in trimmed..Len(log) /\ UNCHANGED <<log, acked \cup discarded, table>>
    BY <1>2 DEF Wipes, StreamWiped, ledger, TypeOK, StreamTypeOK
  <2> QED
    BY <2>1 DEF Delivery!Evict
<1>3. CASE Commits
  <2>1. PICK c \in Consumer, w \in Worker :
           \E chunk \in SUBSET worker[c][w].rows : table' = table \cup chunk
    BY <1>3 DEF Commits
  <2> PICK chunk \in SUBSET worker[c][w].rows : table' = table \cup chunk
    BY <2>1
  <2>2. chunk \in SUBSET UNION {Delivery!RowsOfEntry(i) : i \in 1..Len(log)}
    <3>1. chunk \subseteq Logged
      BY <2>1 DEF LoggedInv
    <3>2. Logged \subseteq UNION {Delivery!RowsOfEntry(i) : i \in 1..Len(log)}
      BY DEF Logged, RowsOfEntries, Entries, Delivery!RowsOfEntry
    <3> QED
      BY <3>1, <3>2
  <2>3. UNCHANGED <<log, trimmed, acked \cup discarded>>
    BY <1>3 DEF Commits
  <2> QED
    BY <2>1, <2>2, <2>3 DEF Delivery!Commit
<1>4. CASE AcksWritten
  <2>1. PICK c \in Consumer, w \in Worker :
           worker[c][w].at = "ack" /\ acked' = acked \cup worker[c][w].ids
    BY <1>4 DEF AcksWritten
  <2> DEFINE ids == worker[c][w].ids
  <2>2. worker[c][w].rows = {} /\ Covered(log, ids, table \cup worker[c][w].rows)
    BY <2>1 DEF RowsInv, WorkerRows
  <2>3. Covered(log, ids, table)
    BY <2>2 DEF Covered
  <2>4. ids \in SUBSET (1..Len(log)) /\ \A i \in ids : Delivery!MaySettle(i)
    BY <2>3 DEF Covered, Delivery!MaySettle, Delivery!RowsOfEntry
  <2>5. /\ acked' \cup discarded' = (acked \cup discarded) \cup ids
        /\ UNCHANGED <<log, trimmed, table>>
    BY <1>4, <2>1 DEF AcksWritten, XAck
  <2> QED
    BY <2>4, <2>5 DEF Delivery!Settle
<1>5. CASE AcksPoison
  <2>1. PICK c \in Consumer : discarded' = discarded \cup held[c].poison
    BY <1>5 DEF AcksPoison
  <2> DEFINE ids == held[c].poison
  <2>2. ids \in SUBSET (1..Len(log)) /\ \A i \in ids : Delivery!MaySettle(i)
    BY DEF DiscardInv, HeldPoison, Unwritable, Entries, Delivery!MaySettle
  <2>3. /\ acked' \cup discarded' = (acked \cup discarded) \cup ids
        /\ UNCHANGED <<log, trimmed, table>>
    BY <1>5, <2>1 DEF AcksPoison, XAck
  <2> QED
    BY <2>2, <2>3 DEF Delivery!Settle
<1>6. CASE Delivers \/ Keeps
  BY <1>6 DEF Delivers, DeliverNew, Keeps, ledger
<1> QED
  BY <1>1, <1>2, <1>3, <1>4, <1>5, <1>6 DEF Effect

\* The db-writer - replicas, coroutines, faults, crashes and Redis restarts included -
\* delivers at least once as DurableDelivery states it (streams.py:3).
THEOREM DeliversDurably == Spec => ImplementsDurableDelivery
<1> DEFINE Inv == TypeOK /\ RowsInv /\ DiscardInv /\ LoggedInv
<1>1. Init => Inv /\ Delivery!Init
  BY InitTypeOK, InitRows, InitDiscard, InitLogged DEF Init, StreamInit, Delivery!Init
<1>2. Inv /\ [Next]_vars => Inv'
  BY NextTypeOK, NextRows, NextDiscard, NextLogged
<1>3. Inv /\ [Next]_vars => [Delivery!Next]_<<log, trimmed, acked \cup discarded, table>>
  BY NextEffect, StepImplements
<1> QED
  BY <1>1, <1>2, <1>3, PTL DEF Spec, ImplementsDurableDelivery, Delivery!Spec
=============================================================================
