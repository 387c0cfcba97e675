---------------------------- MODULE ReportJobs ----------------------------
(***************************************************************************)
(* Asynchronous report generation: api-gateway publishes a job in the      *)
(* background (report_request_service.py), RabbitMQ holds it in a durable  *)
(* queue, and report-service consumes it (report_worker.py) and owns the   *)
(* row that GET /reports/{id} reads.                                       *)
(*                                                                         *)
(* The broker keeps a delivered message until it is acknowledged or        *)
(* rejected, and gives it out again when the consumer's connection is      *)
(* lost.  connect_robust() then consumes again in the same process, while  *)
(* the handler of the first delivery still runs.                           *)
(***************************************************************************)
EXTENDS Naturals, Sequences, FiniteSets

CONSTANTS
    Job,             \* report ids
    Worker,          \* report-service processes
    NoJob,
    MaxFaults,       \* bound: failing calls to the broker and the database
    MaxCrashes,      \* bound: crashes of a worker
    MaxDrops         \* bound: connections lost

ASSUME ReportJobsAssumption ==
    /\ NoJob \notin Job
    /\ MaxFaults \in Nat /\ MaxCrashes \in Nat /\ MaxDrops \in Nat

VARIABLES
    requested,   \* jobs the gateway answered PENDING
    publishing,  \* jobs its background task has not published yet
    queue,       \* messages ready for delivery
    unacked,     \* unacked[w]: the message on w's connection (prefetch_count = 1)
    tasks,       \* a handler per delivery: its worker, job, place and connection
    row,         \* status of the job's row, "none" if there is none
    up,          \* workers that run
    faults, crashes, drops

vars == <<requested, publishing, queue, unacked, tasks, row, up, faults, crashes, drops>>

Status == {"none", "processing", "completed", "failed"}
Terminal == {"completed", "failed"}

Task == [worker : Worker, job : Job, live : BOOLEAN,
         at : {"insert", "generate", "complete", "fail", "ack", "ended"}]

TypeOK ==
    /\ requested \subseteq Job /\ publishing \subseteq requested
    /\ queue \in Seq(Job)
    /\ unacked \in [Worker -> Job \cup {NoJob}]
    /\ tasks \in Seq(Task)
    /\ row \in [Job -> Status]
    /\ up \subseteq Worker
    /\ faults \in 0..MaxFaults /\ crashes \in 0..MaxCrashes /\ drops \in 0..MaxDrops

Init ==
    /\ requested = {} /\ publishing = {}
    /\ queue = <<>>
    /\ unacked = [w \in Worker |-> NoJob]
    /\ tasks = <<>>
    /\ row = [j \in Job |-> "none"]
    /\ up = Worker
    /\ faults = 0 /\ crashes = 0 /\ drops = 0

Fault ==
    /\ faults < MaxFaults
    /\ faults' = faults + 1

-----------------------------------------------------------------------------
(* api-gateway.                                                            *)

create_report_job(j) ==
    /\ j \notin requested
    /\ requested' = requested \cup {j}
    /\ publishing' = publishing \cup {j}
    /\ UNCHANGED <<queue, unacked, tasks, row, up, faults, crashes, drops>>

\* _publish_report_job_safe(): a failure is logged and the job is gone.
Publish(j) ==
    /\ j \in publishing
    /\ publishing' = publishing \ {j}
    /\ \/ queue' = Append(queue, j) /\ UNCHANGED faults
       \/ Fault /\ UNCHANGED queue
    /\ UNCHANGED <<requested, unacked, tasks, row, up, crashes, drops>>

-----------------------------------------------------------------------------
(* The broker.                                                             *)

Deliver(w) ==
    /\ w \in up
    /\ unacked[w] = NoJob
    /\ queue # <<>>
    /\ queue' = Tail(queue)
    /\ unacked' = [unacked EXCEPT ![w] = Head(queue)]
    /\ tasks' = Append(tasks, [worker |-> w, job |-> Head(queue), live |-> TRUE,
                               at |-> "insert"])
    /\ UNCHANGED <<requested, publishing, row, up, faults, crashes, drops>>

\* Mutant: consume(no_ack=True): the broker forgets the message once it is sent.
TakeBack_Forgotten(w) ==
    /\ queue' = queue
    /\ unacked' = [unacked EXCEPT ![w] = NoJob]

\* The broker takes back what w has not acknowledged, in its old place: the front.
TakeBack(w) ==
    /\ queue' = IF unacked[w] = NoJob THEN queue ELSE <<unacked[w]>> \o queue
    /\ unacked' = [unacked EXCEPT ![w] = NoJob]

\* The handlers of the lost connection run on, and can no longer acknowledge.
ConnectionLost(w) ==
    /\ w \in up
    /\ drops < MaxDrops
    /\ drops' = drops + 1
    /\ TakeBack(w)
    /\ tasks' = [d \in DOMAIN tasks |->
                    IF tasks[d].worker = w THEN [tasks[d] EXCEPT !.live = FALSE]
                    ELSE tasks[d]]
    /\ UNCHANGED <<requested, publishing, row, up, faults, crashes>>

-----------------------------------------------------------------------------
(* report-service: process_report_job() and _execute_job().                *)

GoTo(d, where) == tasks' = [tasks EXCEPT ![d].at = where]

\* The message leaves the broker, unless its connection is gone.
Settle(d) ==
    /\ unacked' = IF tasks[d].live THEN [unacked EXCEPT ![tasks[d].worker] = NoJob]
                  ELSE unacked
    /\ GoTo(d, "ended")

\* Mutant: the row is merged instead of added: a redelivered job starts again.
Insert_Merge(d) ==
    /\ tasks[d].at = "insert"
    /\ row' = [row EXCEPT ![tasks[d].job] = "processing"]
    /\ GoTo(d, "generate")
    /\ UNCHANGED <<requested, publishing, queue, unacked, up, faults, crashes, drops>>

\* Mutant: the row is merged unless the job has settled.
Insert_MergeUnsettled(d) ==
    /\ tasks[d].at = "insert"
    /\ row[tasks[d].job] \notin Terminal
    /\ row' = [row EXCEPT ![tasks[d].job] = "processing"]
    /\ GoTo(d, "generate")
    /\ UNCHANGED <<requested, publishing, queue, unacked, up, faults, crashes, drops>>

\* INSERT and COMMIT of the PROCESSING row.
Insert(d) ==
    /\ tasks[d].at = "insert"
    /\ row[tasks[d].job] = "none"
    /\ row' = [row EXCEPT ![tasks[d].job] = "processing"]
    /\ GoTo(d, "generate")
    /\ UNCHANGED <<requested, publishing, queue, unacked, up, faults, crashes, drops>>

\* Outside the try: the exception leaves message.process(), which rejects the message
\* without requeueing it.  The row may exist already (IntegrityError), or the database
\* fails, before or after it commits.
InsertFails(d) ==
    /\ tasks[d].at = "insert"
    /\ LET j == tasks[d].job IN
       \/ row[j] # "none" /\ UNCHANGED <<row, faults>>
       \/ Fault /\ row' \in {row, [row EXCEPT ![j] = IF @ = "none"
                                                                 THEN "processing" ELSE @]}
    /\ Settle(d)
    /\ UNCHANGED <<requested, publishing, queue, up, crashes, drops>>

\* Mutant: a failed generation is not caught: the message is rejected.
Generate_Uncaught(d) ==
    /\ tasks[d].at = "generate"
    /\ (GoTo(d, "complete") /\ UNCHANGED unacked) \/ Settle(d)
    /\ UNCHANGED <<requested, publishing, queue, row, up, faults, crashes, drops>>

\* generate_report_data() and format_report(); a failure goes to the handler.
Generate(d) ==
    /\ tasks[d].at = "generate"
    /\ GoTo(d, "complete") \/ GoTo(d, "fail")
    /\ UNCHANGED <<requested, publishing, queue, unacked, row, up, faults, crashes, drops>>

\* update_status(COMPLETED); an exception, even one after the commit, goes to the handler.
Complete(d) ==
    /\ tasks[d].at = "complete"
    /\ \/ /\ row' = [row EXCEPT ![tasks[d].job] = "completed"]
          /\ GoTo(d, "ack")
          /\ UNCHANGED faults
       \/ /\ Fault
          /\ row' \in {row, [row EXCEPT ![tasks[d].job] = "completed"]}
          /\ GoTo(d, "fail")
    /\ UNCHANGED <<requested, publishing, queue, unacked, up, crashes, drops>>

\* The except branch: rollback and update_status(FAILED); if that fails too, the message
\* is rejected and the row stays as it is.
Fail(d) ==
    /\ tasks[d].at = "fail"
    /\ \/ /\ row' = [row EXCEPT ![tasks[d].job] = "failed"]
          /\ GoTo(d, "ack")
          /\ UNCHANGED <<unacked, faults>>
       \/ /\ Fault
          /\ row' \in {row, [row EXCEPT ![tasks[d].job] = "failed"]}
          /\ Settle(d)
    /\ UNCHANGED <<requested, publishing, queue, up, crashes, drops>>

Ack(d) ==
    /\ tasks[d].at = "ack"
    /\ Settle(d)
    /\ UNCHANGED <<requested, publishing, queue, row, up, faults, crashes, drops>>

Execute(d) == Insert(d) \/ InsertFails(d) \/ Generate(d) \/ Complete(d) \/ Fail(d) \/ Ack(d)

Crash(w) ==
    /\ w \in up
    /\ crashes < MaxCrashes
    /\ crashes' = crashes + 1
    /\ up' = up \ {w}
    /\ TakeBack(w)
    /\ tasks' = [d \in DOMAIN tasks |->
                    IF tasks[d].worker = w
                    THEN [tasks[d] EXCEPT !.at = "ended", !.live = FALSE] ELSE tasks[d]]
    /\ UNCHANGED <<requested, publishing, row, faults, drops>>

Start(w) ==
    /\ w \notin up
    /\ up' = up \cup {w}
    /\ UNCHANGED <<requested, publishing, queue, unacked, tasks, row, faults, crashes, drops>>

-----------------------------------------------------------------------------

Next ==
    \/ \E j \in Job : create_report_job(j) \/ Publish(j)
    \/ \E w \in Worker : Deliver(w) \/ ConnectionLost(w) \/ Crash(w) \/ Start(w)
    \/ \E d \in DOMAIN tasks : Execute(d)

Spec == Init /\ [][Next]_vars

\* The publishing task and the handlers progress, the broker delivers, and a worker that
\* crashed is started again.  Nobody has to ask for a report.
MaxDeliveries == Cardinality(Job) * (1 + MaxCrashes + MaxDrops)

Fairness ==
    /\ \A j \in Job : WF_vars(Publish(j))
    /\ \A w \in Worker : WF_vars(Deliver(w)) /\ WF_vars(Start(w))
    /\ \A d \in 1..MaxDeliveries : WF_vars(d \in DOMAIN tasks /\ Execute(d))

FairSpec == Spec /\ Fairness

-----------------------------------------------------------------------------
(* Properties.                                                             *)

IsGenerating(d, j) == tasks[d].job = j /\ tasks[d].at \in {"generate", "complete", "fail", "ack"}

Delivered(j) == \E w \in Worker : unacked[w] = j
Queued(j) == \E k \in DOMAIN queue : queue[k] = j

\* However often a message is delivered, and though the handler of a lost connection
\* still runs, one handler at most generates a report: only one inserts its row.
GeneratedOnce ==
    \A j \in Job : \A d, e \in DOMAIN tasks :
        IsGenerating(d, j) /\ IsGenerating(e, j) => d = e

\* A report that a client has seen settled is never pending again.
NeverReopened ==
    [][\A j \in Job : row[j] \in Terminal => row'[j] \in Terminal]_vars

\* Nor does it change while the database answers: what was completed stays so.
TerminalIsFinal ==
    [][\A j \in Job : row[j] \in Terminal /\ faults = 0 => row'[j] = row[j]]_vars

\* A job is held by the gateway's task or the broker until its row exists, whatever
\* worker crashes or connection is lost: the queue is durable and the message unsettled.
\* A failing call can lose it: a failed publication, a failed INSERT.
HeldUntilStarted ==
    \A j \in requested :
        row[j] = "none" /\ faults = 0 => j \in publishing \/ Queued(j) \/ Delivered(j)

\* While no worker crashes and the database answers, every report asked for settles,
\* failed generations and redeliveries included.
RequestedSettles ==
    \A j \in Job : j \in requested ~> row[j] \in Terminal \/ faults > 0 \/ crashes > 0

\* router_reports.py:36, "Poll until status is 'completed'": a client that polls a
\* report whose row exists sees it settle in the end.
PolledSettles == \A j \in Job : row[j] = "processing" ~> row[j] \in Terminal
=============================================================================
