-------------------------- MODULE ReportJobsProofs --------------------------
(***************************************************************************)
(* Theorems about the report jobs, for any number of jobs and workers and  *)
(* any number of failing calls, crashes and lost connections.              *)
(***************************************************************************)
EXTENDS ReportJobs, SequenceTheorems, TLAPS

-----------------------------------------------------------------------------
(* Type correctness.                                                       *)

LEMMA FunctionIsSequence ==
    ASSUME NEW S, NEW n \in Nat, NEW f \in [1..n -> S]
    PROVE  f \in Seq(S)
BY SeqDef

\* A handler that moves on leaves the handlers well-formed.
LEMMA GoToKeepsType ==
    ASSUME TypeOK, NEW d \in DOMAIN tasks,
           NEW where \in {"insert", "generate", "complete", "fail", "ack", "ended"},
           GoTo(d, where)
    PROVE  tasks' \in Seq(Task)
<1>1. tasks[d] \in Task /\ d \in 1..Len(tasks)
  BY DEF TypeOK
<1>2. [tasks[d] EXCEPT !.at = where] \in Task
  BY <1>1 DEF Task
<1>3. [tasks EXCEPT ![d] = [tasks[d] EXCEPT !.at = where]] \in Seq(Task)
  BY <1>1, <1>2, ExceptSeq DEF TypeOK
<1>4. tasks' = [tasks EXCEPT ![d] = [tasks[d] EXCEPT !.at = where]]
  BY DEF GoTo
<1> QED
  BY <1>3, <1>4

\* So does one that settles its message.
LEMMA SettleKeepsType ==
    ASSUME TypeOK, NEW d \in DOMAIN tasks, Settle(d)
    PROVE  tasks' \in Seq(Task) /\ unacked' \in [Worker -> Job \cup {NoJob}]
<1>1. tasks' \in Seq(Task)
  <2>1. GoTo(d, "ended")
    BY DEF Settle
  <2> QED
    BY <2>1, GoToKeepsType
<1>2. unacked' \in [Worker -> Job \cup {NoJob}]
  BY DEF Settle, TypeOK
<1> QED
  BY <1>1, <1>2

LEMMA TakeBackKeepsType ==
    ASSUME TypeOK, NEW w \in Worker, TakeBack(w)
    PROVE  queue' \in Seq(Job) /\ unacked' \in [Worker -> Job \cup {NoJob}]
<1>1. CASE unacked[w] = NoJob
  BY <1>1 DEF TakeBack, TypeOK
<1>2. CASE unacked[w] # NoJob
  <2>1. <<unacked[w]>> \in Seq(Job)
    BY <1>2 DEF TypeOK
  <2> QED
    BY <1>2, <2>1, ConcatProperties DEF TakeBack, TypeOK
<1> QED
  BY <1>1, <1>2

LEMMA FaultKeepsType == TypeOK /\ Fault => faults' \in 0..MaxFaults
BY ReportJobsAssumption DEF TypeOK, Fault

LEMMA InitTypeOK == Init => TypeOK
BY ReportJobsAssumption DEF Init, TypeOK, Status

LEMMA StepTypeOK == TypeOK /\ [Next]_vars => TypeOK'
<1> SUFFICES ASSUME TypeOK, [Next]_vars PROVE TypeOK'
  OBVIOUS
<1> USE ReportJobsAssumption
<1>1. ASSUME NEW j \in Job, create_report_job(j) PROVE TypeOK'
  BY <1>1 DEF TypeOK, create_report_job
<1>2. ASSUME NEW j \in Job, Publish(j) PROVE TypeOK'
  <2>1. queue' \in Seq(Job)
    BY <1>2, AppendProperties, SMTT(30) DEF TypeOK, Publish
  <2>2. faults' \in 0..MaxFaults
    BY <1>2, FaultKeepsType DEF TypeOK, Publish
  <2> QED
    BY <1>2, <2>1, <2>2 DEF TypeOK, Publish
<1>3. ASSUME NEW w \in Worker, Deliver(w) PROVE TypeOK'
  <2>1. Head(queue) \in Job /\ Tail(queue) \in Seq(Job)
    BY <1>3, HeadTailProperties DEF TypeOK, Deliver
  <2>2. [worker |-> w, job |-> Head(queue), live |-> TRUE, at |-> "insert"] \in Task
    BY <2>1 DEF Task
  <2>3. tasks' \in Seq(Task)
    BY <1>3, <2>2, AppendProperties DEF TypeOK, Deliver
  <2> QED
    BY <1>3, <2>1, <2>3 DEF TypeOK, Deliver
<1>4. ASSUME NEW w \in Worker, ConnectionLost(w) PROVE TypeOK'
  <2>1. tasks' \in Seq(Task)
    <3>1. DOMAIN tasks = 1..Len(tasks) /\ Len(tasks) \in Nat
      BY DEF TypeOK
    <3>2. ASSUME NEW d \in DOMAIN tasks
          PROVE  tasks[d] \in Task /\ [tasks[d] EXCEPT !.live = FALSE] \in Task
      <4>1. tasks[d] \in Task
        BY <3>1 DEF TypeOK
      <4> QED
        BY <4>1 DEF Task
    <3>3. tasks' \in [1..Len(tasks) -> Task]
      BY <1>4, <3>1, <3>2 DEF ConnectionLost
    <3> QED
      BY <3>1, <3>3, FunctionIsSequence
  <2>2. queue' \in Seq(Job) /\ unacked' \in [Worker -> Job \cup {NoJob}]
    BY <1>4, TakeBackKeepsType DEF ConnectionLost
  <2>3. drops' \in 0..MaxDrops
    <3>1. drops < MaxDrops /\ drops' = drops + 1
      BY <1>4 DEF ConnectionLost
    <3> QED
      BY <3>1 DEF TypeOK
  <2> QED
    BY <1>4, <2>1, <2>2, <2>3 DEF TypeOK, ConnectionLost
<1>5. ASSUME NEW w \in Worker, Crash(w) PROVE TypeOK'
  <2>1. tasks' \in Seq(Task)
    <3>1. DOMAIN tasks = 1..Len(tasks) /\ Len(tasks) \in Nat
      BY DEF TypeOK
    <3>2. ASSUME NEW d \in DOMAIN tasks
          PROVE  tasks[d] \in Task /\ [tasks[d] EXCEPT !.at = "ended", !.live = FALSE] \in Task
      <4>1. tasks[d] \in Task
        BY <3>1 DEF TypeOK
      <4> QED
        BY <4>1 DEF Task
    <3>3. tasks' \in [1..Len(tasks) -> Task]
      BY <1>5, <3>1, <3>2 DEF Crash
    <3> QED
      BY <3>1, <3>3, FunctionIsSequence
  <2>2. queue' \in Seq(Job) /\ unacked' \in [Worker -> Job \cup {NoJob}]
    BY <1>5, TakeBackKeepsType DEF Crash
  <2>3. crashes' \in 0..MaxCrashes
    <3>1. crashes < MaxCrashes /\ crashes' = crashes + 1
      BY <1>5 DEF Crash
    <3> QED
      BY <3>1 DEF TypeOK
  <2> QED
    BY <1>5, <2>1, <2>2, <2>3 DEF TypeOK, Crash
<1>6. ASSUME NEW w \in Worker, Start(w) PROVE TypeOK'
  BY <1>6 DEF TypeOK, Start
<1>7. ASSUME NEW d \in DOMAIN tasks, Insert(d) PROVE TypeOK'
  <2>1. GoTo(d, "generate") /\ row' \in [Job -> Status]
    BY <1>7 DEF TypeOK, Insert, Status
  <2>2. tasks' \in Seq(Task)
    BY <2>1, GoToKeepsType
  <2> QED
    BY <1>7, <2>1, <2>2 DEF TypeOK, Insert
<1>8. ASSUME NEW d \in DOMAIN tasks, InsertFails(d) PROVE TypeOK'
  <2>1. row' \in [Job -> Status] /\ faults' \in 0..MaxFaults
    BY <1>8, FaultKeepsType DEF TypeOK, InsertFails, Status
  <2> QED
    BY <1>8, <2>1, SettleKeepsType DEF TypeOK, InsertFails
<1>9. ASSUME NEW d \in DOMAIN tasks, Generate(d) PROVE TypeOK'
  <2>1. GoTo(d, "complete") \/ GoTo(d, "fail")
    BY <1>9 DEF Generate
  <2>2. tasks' \in Seq(Task)
    BY <2>1, GoToKeepsType
  <2> QED
    BY <1>9, <2>2 DEF TypeOK, Generate
<1>10. ASSUME NEW d \in DOMAIN tasks, Complete(d) PROVE TypeOK'
  <2>1. row' \in [Job -> Status] /\ faults' \in 0..MaxFaults
    BY <1>10, FaultKeepsType DEF TypeOK, Complete, Status
  <2>2. GoTo(d, "ack") \/ GoTo(d, "fail")
    BY <1>10 DEF Complete
  <2>3. tasks' \in Seq(Task)
    BY <2>2, GoToKeepsType
  <2> QED
    BY <1>10, <2>1, <2>3 DEF TypeOK, Complete
<1>11. ASSUME NEW d \in DOMAIN tasks, Fail(d) PROVE TypeOK'
  <2>1. row' \in [Job -> Status] /\ faults' \in 0..MaxFaults
    BY <1>11, FaultKeepsType DEF TypeOK, Fail, Status
  <2>2. CASE Settle(d)
    BY <1>11, <2>1, <2>2, SettleKeepsType DEF TypeOK, Fail
  <2>3. CASE GoTo(d, "ack") /\ UNCHANGED unacked
    <3>1. tasks' \in Seq(Task)
      BY <2>3, GoToKeepsType
    <3> QED
      BY <1>11, <2>1, <2>3, <3>1 DEF TypeOK, Fail
  <2> QED
    BY <1>11, <2>2, <2>3 DEF Fail
<1>12. ASSUME NEW d \in DOMAIN tasks, Ack(d) PROVE TypeOK'
  BY <1>12, SettleKeepsType DEF TypeOK, Ack
<1>13. CASE UNCHANGED vars
  BY <1>13 DEF TypeOK, vars
<1> QED
  BY <1>1, <1>2, <1>3, <1>4, <1>5, <1>6, <1>7, <1>8, <1>9, <1>10, <1>11, <1>12, <1>13
     DEF Next, Execute

\* Every reachable state of the report pipeline is well-formed: the broker's queue holds
\* jobs, each connection at most one message, and a row has one of the statuses.
THEOREM ReportTypeCorrect == Spec => []TypeOK
<1>1. Init => TypeOK
  BY InitTypeOK
<1>2. TypeOK /\ [Next]_vars => TypeOK'
  BY StepTypeOK
<1> QED
  BY <1>1, <1>2, PTL DEF Spec

-----------------------------------------------------------------------------
(* What a step does to the handlers and to the rows.                       *)

LEMMA GoToEffect ==
    ASSUME TypeOK, NEW d \in DOMAIN tasks, NEW where, GoTo(d, where)
    PROVE  /\ DOMAIN tasks' = DOMAIN tasks
           /\ \A e \in DOMAIN tasks :
                /\ tasks'[e].job = tasks[e].job
                /\ tasks'[e].worker = tasks[e].worker
                /\ tasks'[e].live = tasks[e].live
                /\ tasks'[e].at = IF e = d THEN where ELSE tasks[e].at
<1>1. DOMAIN tasks' = DOMAIN tasks
  BY DEF GoTo, TypeOK
<1>2. ASSUME NEW e \in DOMAIN tasks
      PROVE  tasks'[e] = IF e = d THEN [tasks[d] EXCEPT !.at = where] ELSE tasks[e]
  BY DEF GoTo, TypeOK
<1>3. \A e \in DOMAIN tasks : tasks[e] \in Task
  BY DEF TypeOK
<1> QED
  BY <1>1, <1>2, <1>3 DEF Task

\* When w crashes or loses its connection, its handlers are no longer live, and none
\* of any worker gets further.
LEMMA ConnectionGoneEffect ==
    ASSUME TypeOK, NEW w \in Worker, ConnectionLost(w) \/ Crash(w)
    PROVE  /\ DOMAIN tasks' = DOMAIN tasks
           /\ \A e \in DOMAIN tasks :
                /\ tasks'[e].job = tasks[e].job
                /\ tasks'[e].worker = tasks[e].worker
                /\ tasks'[e].at \in {tasks[e].at, "ended"}
                /\ tasks'[e].live = IF tasks[e].worker = w THEN FALSE ELSE tasks[e].live
<1>1. \A e \in DOMAIN tasks : tasks[e] \in Task
  BY DEF TypeOK
<1>2. CASE ConnectionLost(w)
  BY <1>1, <1>2 DEF ConnectionLost, Task
<1>3. CASE Crash(w)
  BY <1>1, <1>3 DEF Crash, Task
<1> QED
  BY <1>2, <1>3

LEMMA DeliverEffect ==
    ASSUME TypeOK, NEW w \in Worker, Deliver(w)
    PROVE  /\ DOMAIN tasks \subseteq DOMAIN tasks'
           /\ \A e \in DOMAIN tasks : tasks'[e] = tasks[e]
           /\ \A e \in DOMAIN tasks' \ DOMAIN tasks :
                tasks'[e] = [worker |-> w, job |-> Head(queue), live |-> TRUE, at |-> "insert"]
<1> DEFINE t == [worker |-> w, job |-> Head(queue), live |-> TRUE, at |-> "insert"]
<1>1. Head(queue) \in Job
  BY HeadTailProperties DEF TypeOK, Deliver
<1>2. t \in Task
  BY <1>1 DEF Task
<1>3. tasks' = Append(tasks, t) /\ tasks \in Seq(Task)
  BY DEF TypeOK, Deliver
<1> HIDE DEF t
<1>4. /\ DOMAIN tasks = 1..Len(tasks) /\ DOMAIN tasks' = 1..(Len(tasks) + 1)
      /\ Len(tasks) \in Nat
      /\ tasks'[Len(tasks) + 1] = t
      /\ \A e \in 1..Len(tasks) : tasks'[e] = tasks[e]
  BY <1>2, <1>3, AppendProperties
<1>5. DOMAIN tasks \subseteq DOMAIN tasks'
  BY <1>4
<1>6. \A e \in DOMAIN tasks' \ DOMAIN tasks : e = Len(tasks) + 1
  BY <1>4
<1> QED
  BY <1>4, <1>5, <1>6 DEF t

\* A row that exists is never removed, and one that has settled stays settled.
RowKept ==
    \A j \in Job : /\ row[j] # "none" => row'[j] # "none"
                   /\ row[j] \in Terminal => row'[j] \in Terminal

LEMMA StepKeepsRow == TypeOK /\ [Next]_vars => RowKept
<1> SUFFICES ASSUME TypeOK, [Next]_vars PROVE RowKept
  OBVIOUS
<1>1. ASSUME row' = row PROVE RowKept
  BY <1>1 DEF RowKept
<1>2. ASSUME NEW j \in Job, create_report_job(j) \/ Publish(j) PROVE RowKept
  BY <1>1, <1>2 DEF create_report_job, Publish
<1>3. ASSUME NEW w \in Worker, Deliver(w) \/ ConnectionLost(w) \/ Crash(w) \/ Start(w)
      PROVE  RowKept
  BY <1>1, <1>3 DEF Deliver, ConnectionLost, Crash, Start
<1>4. ASSUME NEW d \in DOMAIN tasks, Execute(d) PROVE RowKept
  <2>1. tasks[d].job \in Job /\ row \in [Job -> Status]
    <3>1. tasks[d] \in Task /\ row \in [Job -> Status]
      BY DEF TypeOK
    <3> QED
      BY <3>1 DEF Task
  <2>2. CASE Insert(d)
    BY <2>1, <2>2 DEF Insert, RowKept, Terminal
  <2>3. CASE InsertFails(d)
    BY <2>1, <2>3 DEF InsertFails, RowKept, Terminal
  <2>4. CASE Generate(d) \/ Ack(d)
    BY <1>1, <2>4 DEF Generate, Ack
  <2>5. CASE Complete(d)
    BY <2>1, <2>5 DEF Complete, RowKept, Terminal
  <2>6. CASE Fail(d)
    BY <2>1, <2>6 DEF Fail, RowKept, Terminal
  <2> QED
    BY <1>4, <2>2, <2>3, <2>4, <2>5, <2>6 DEF Execute
<1>5. CASE UNCHANGED vars
  BY <1>1, <1>5 DEF vars
<1> QED
  BY <1>2, <1>3, <1>4, <1>5 DEF Next

\* A client that polls a settled report never sees it pending again: update_status()
\* writes terminal statuses only, and add() never touches a row that exists.
THEOREM SettledStaysSettled == Spec => NeverReopened
<1>1. TypeOK /\ [Next]_vars
      => [\A j \in Job : row[j] \in Terminal => row'[j] \in Terminal]_vars
  BY StepKeepsRow DEF RowKept
<1> QED
  BY <1>1, ReportTypeCorrect, PTL DEF Spec, NeverReopened

-----------------------------------------------------------------------------
(* The inductive invariant.                                                *)

Generating == {"generate", "complete", "fail", "ack"}

\* A handler that generates inserted the row of its job first.
GeneratingHasRow ==
    \A d \in DOMAIN tasks : tasks[d].at \in Generating => row[tasks[d].job] # "none"

Live(d) == tasks[d].live /\ tasks[d].at # "ended"

\* A handler that can still settle a message settles its own: the broker holds it on
\* the connection that delivered it.
LiveHoldsMessage ==
    \A d \in DOMAIN tasks : Live(d) => unacked[tasks[d].worker] = tasks[d].job

\* prefetch_count = 1: a connection has one handler that can settle its message.
LiveIsAlone ==
    \A d, e \in DOMAIN tasks :
        Live(d) /\ Live(e) /\ tasks[d].worker = tasks[e].worker => d = e

ReportInv ==
    /\ TypeOK
    /\ GeneratingHasRow /\ GeneratedOnce
    /\ LiveHoldsMessage /\ LiveIsAlone
    /\ HeldUntilStarted

LEMMA InitReportInv == Init => ReportInv
<1> SUFFICES ASSUME Init PROVE ReportInv
  OBVIOUS
<1>1. DOMAIN tasks = {} /\ requested = {}
  BY DEF Init
<1> QED
  BY <1>1, InitTypeOK DEF ReportInv, GeneratingHasRow, GeneratedOnce, LiveHoldsMessage,
     LiveIsAlone, HeldUntilStarted

-----------------------------------------------------------------------------
(* One handler generates a job: the one that inserted its row.             *)

GeneratesOn(e) ==
    /\ e \in DOMAIN tasks
    /\ tasks[e].at \in Generating
    /\ tasks'[e].job = tasks[e].job

\* Only the INSERT makes a generator of a handler.
LEMMA StepGenerators ==
    ASSUME TypeOK, [Next]_vars
    PROVE  \/ \A e \in DOMAIN tasks' : tasks'[e].at \in Generating => GeneratesOn(e)
           \/ \E d \in DOMAIN tasks : Insert(d)
<1> DEFINE NoNew == \A e \in DOMAIN tasks' : tasks'[e].at \in Generating => GeneratesOn(e)
<1>1. CASE tasks' = tasks
  BY <1>1 DEF GeneratesOn
<1>2. ASSUME NEW w \in Worker, Deliver(w) PROVE NoNew
  BY <1>2, DeliverEffect DEF GeneratesOn, Generating
<1>3. ASSUME NEW w \in Worker, ConnectionLost(w) \/ Crash(w) PROVE NoNew
  BY <1>3, ConnectionGoneEffect DEF GeneratesOn, Generating
<1>4. ASSUME NEW d \in DOMAIN tasks, Execute(d), ~ Insert(d) PROVE NoNew
  <2>1. \/ GoTo(d, "ended")
        \/ /\ tasks[d].at \in Generating
           /\ GoTo(d, "complete") \/ GoTo(d, "fail") \/ GoTo(d, "ack")
    BY <1>4 DEF Execute, InsertFails, Generate, Complete, Fail, Ack, Settle, Generating
  <2>2. CASE GoTo(d, "ended")
    BY <2>2, GoToEffect DEF GeneratesOn, Generating
  <2>3. ASSUME tasks[d].at \in Generating, NEW where, GoTo(d, where) PROVE NoNew
    BY <2>3, GoToEffect DEF GeneratesOn
  <2> QED
    BY <2>1, <2>2, <2>3
<1>5. ASSUME NEW j \in Job, create_report_job(j) \/ Publish(j) PROVE tasks' = tasks
  BY <1>5 DEF create_report_job, Publish
<1>6. ASSUME NEW w \in Worker, Start(w) PROVE tasks' = tasks
  BY <1>6 DEF Start
<1>7. CASE UNCHANGED vars
  BY <1>1, <1>7 DEF vars
<1> QED
  BY <1>1, <1>2, <1>3, <1>4, <1>5, <1>6, <1>7 DEF Next

\* And the INSERT succeeds for a job without a row, which gets one.
LEMMA InsertEffect ==
    ASSUME TypeOK, NEW d \in DOMAIN tasks, Insert(d)
    PROVE  /\ row[tasks[d].job] = "none"
           /\ row'[tasks[d].job] # "none"
           /\ tasks'[d].job = tasks[d].job
           /\ \A e \in DOMAIN tasks' :
                tasks'[e].at \in Generating => e = d \/ GeneratesOn(e)
<1>1. GoTo(d, "generate")
  BY DEF Insert
<1>2. tasks[d].job \in Job /\ row \in [Job -> Status]
  <2>1. tasks[d] \in Task /\ row \in [Job -> Status]
    BY DEF TypeOK
  <2> QED
    BY <2>1 DEF Task
<1>3. row[tasks[d].job] = "none" /\ row'[tasks[d].job] # "none"
  BY <1>2 DEF Insert
<1> QED
  BY <1>1, <1>3, GoToEffect DEF GeneratesOn

LEMMA StepGeneratingHasRow ==
    ASSUME ReportInv, [Next]_vars
    PROVE  GeneratingHasRow'
<1>1. RowKept
  BY StepKeepsRow DEF ReportInv
<1>2. ASSUME NEW e, GeneratesOn(e) PROVE row'[tasks'[e].job] # "none"
  <2>1. tasks[e] \in Task
    BY <1>2 DEF GeneratesOn, ReportInv, TypeOK
  <2>2. row[tasks[e].job] # "none" /\ tasks[e].job \in Job
    BY <1>2, <2>1 DEF GeneratesOn, ReportInv, GeneratingHasRow, Task
  <2> QED
    BY <1>1, <1>2, <2>2 DEF GeneratesOn, RowKept
<1>3. CASE \A e \in DOMAIN tasks' : tasks'[e].at \in Generating => GeneratesOn(e)
  BY <1>2, <1>3 DEF GeneratingHasRow
<1>4. ASSUME NEW d \in DOMAIN tasks, Insert(d) PROVE GeneratingHasRow'
  BY <1>2, <1>4, InsertEffect DEF GeneratingHasRow, ReportInv
<1> QED
  BY <1>3, <1>4, StepGenerators DEF ReportInv

LEMMA StepGeneratedOnce ==
    ASSUME ReportInv, [Next]_vars
    PROVE  GeneratedOnce'
<1> SUFFICES ASSUME NEW j \in Job, NEW d \in DOMAIN tasks', NEW e \in DOMAIN tasks',
                    IsGenerating(d, j)', IsGenerating(e, j)'
             PROVE  d = e
  BY DEF GeneratedOnce
<1>1. /\ tasks'[d].at \in Generating /\ tasks'[d].job = j
      /\ tasks'[e].at \in Generating /\ tasks'[e].job = j
  BY DEF IsGenerating, Generating
<1>2. CASE GeneratesOn(d) /\ GeneratesOn(e)
  BY <1>1, <1>2 DEF GeneratesOn, IsGenerating, Generating, ReportInv, GeneratedOnce
<1>3. ASSUME NEW i \in DOMAIN tasks, Insert(i) PROVE d = e
  <2>1. \A k : GeneratesOn(k) /\ tasks'[k].job = tasks[i].job => row[tasks[i].job] # "none"
    BY DEF GeneratesOn, ReportInv, GeneratingHasRow
  <2> QED
    BY <1>1, <1>2, <1>3, <2>1, InsertEffect DEF ReportInv
<1> QED
  BY <1>1, <1>2, <1>3, StepGenerators DEF ReportInv

-----------------------------------------------------------------------------
(* A handler that can settle a message settles its own.                    *)

StaysLive(e) ==
    /\ e \in DOMAIN tasks /\ Live(e)
    /\ tasks'[e].job = tasks[e].job /\ tasks'[e].worker = tasks[e].worker
    /\ unacked'[tasks[e].worker] = unacked[tasks[e].worker]

LEMMA LiveKept ==
    ASSUME ReportInv, \A e \in DOMAIN tasks' : Live(e)' => StaysLive(e)
    PROVE  LiveHoldsMessage' /\ LiveIsAlone'
BY DEF ReportInv, LiveHoldsMessage, LiveIsAlone, StaysLive

\* What a handler does to its message: nothing, or it settles it and ends.
LEMMA ExecuteMoves ==
    ASSUME NEW d \in DOMAIN tasks, Execute(d)
    PROVE  /\ tasks[d].at # "ended"
           /\ UNCHANGED <<requested, publishing, queue>>
           /\ \/ Settle(d)
              \/ UNCHANGED unacked /\ \E where : GoTo(d, where)
<1>1. CASE Insert(d)
  BY <1>1 DEF Insert
<1>2. CASE InsertFails(d)
  BY <1>2 DEF InsertFails
<1>3. CASE Generate(d)
  BY <1>3 DEF Generate
<1>4. CASE Complete(d)
  BY <1>4 DEF Complete
<1>5. CASE Fail(d)
  BY <1>5 DEF Fail
<1>6. CASE Ack(d)
  BY <1>6 DEF Ack
<1> QED
  BY <1>1, <1>2, <1>3, <1>4, <1>5, <1>6 DEF Execute

LEMMA StepLive ==
    ASSUME ReportInv, [Next]_vars
    PROVE  LiveHoldsMessage' /\ LiveIsAlone'
<1> USE DEF ReportInv
<1>1. CASE UNCHANGED <<tasks, unacked>>
  BY <1>1 DEF LiveHoldsMessage, LiveIsAlone, Live
<1>2. ASSUME NEW w \in Worker, Deliver(w) PROVE LiveHoldsMessage' /\ LiveIsAlone'
  <2>1. \A e \in DOMAIN tasks : tasks[e].worker = w => ~ Live(e)
    <3>1. \A e \in DOMAIN tasks : tasks[e] \in Task
      BY DEF TypeOK
    <3>2. \A e \in DOMAIN tasks : tasks[e].job # NoJob
      BY <3>1, ReportJobsAssumption DEF Task
    <3> QED
      BY <1>2, <3>2 DEF LiveHoldsMessage, Deliver
  <2>2. \A e \in DOMAIN tasks : tasks'[e] = tasks[e]
    BY <1>2, DeliverEffect
  <2>3. \A e \in DOMAIN tasks' \ DOMAIN tasks :
            tasks'[e].worker = w /\ tasks'[e].job = Head(queue) /\ unacked'[w] = Head(queue)
    BY <1>2, DeliverEffect DEF Deliver, TypeOK
  <2>4. \A e, f \in DOMAIN tasks' \ DOMAIN tasks : e = f
    <3>1. Head(queue) \in Job
      BY <1>2, HeadTailProperties DEF TypeOK, Deliver
    <3>2. [worker |-> w, job |-> Head(queue), live |-> TRUE, at |-> "insert"] \in Task
      BY <3>1 DEF Task
    <3>3. DOMAIN tasks' = 1..(Len(tasks) + 1) /\ DOMAIN tasks = 1..Len(tasks)
      BY <1>2, <3>2, AppendProperties DEF TypeOK, Deliver
    <3> QED
      BY <3>3 DEF TypeOK
  <2>5. \A e \in DOMAIN tasks : tasks[e].worker # w =>
            unacked'[tasks[e].worker] = unacked[tasks[e].worker]
    <3>1. \A e \in DOMAIN tasks : tasks[e] \in Task
      BY DEF TypeOK
    <3>2. \A e \in DOMAIN tasks : tasks[e].worker \in Worker
      BY <3>1 DEF Task
    <3> QED
      BY <1>2, <3>2 DEF Deliver, TypeOK
  <2>6. \A e \in DOMAIN tasks' : Live(e)' => StaysLive(e) \/ e \notin DOMAIN tasks
    BY <2>1, <2>2, <2>5 DEF Live, StaysLive
  <2>7. LiveHoldsMessage'
    BY <2>2, <2>3, <2>6 DEF LiveHoldsMessage, StaysLive
  <2>8. LiveIsAlone'
    BY <2>1, <2>2, <2>3, <2>4, <2>6 DEF LiveIsAlone, StaysLive
  <2> QED
    BY <2>7, <2>8
<1>3. ASSUME NEW w \in Worker, ConnectionLost(w) \/ Crash(w)
      PROVE  LiveHoldsMessage' /\ LiveIsAlone'
  <2>1. \A v \in Worker \ {w} : unacked'[v] = unacked[v]
    BY <1>3 DEF ConnectionLost, Crash, TakeBack, TypeOK
  <2>2. \A e \in DOMAIN tasks : tasks[e] \in Task
    BY DEF TypeOK
  <2>3. \A e \in DOMAIN tasks : tasks[e].worker \in Worker
    BY <2>2 DEF Task
  <2> QED
    BY <1>3, <2>1, <2>3, ConnectionGoneEffect, LiveKept DEF Live, StaysLive
<1>4. ASSUME NEW d \in DOMAIN tasks, Execute(d) PROVE LiveHoldsMessage' /\ LiveIsAlone'
  <2>1. tasks[d].at # "ended"
    BY <1>4, ExecuteMoves
  <2>2. ASSUME NEW where, GoTo(d, where), UNCHANGED unacked
        PROVE  LiveHoldsMessage' /\ LiveIsAlone'
    BY <2>1, <2>2, GoToEffect, LiveKept DEF Live, StaysLive
  <2>3. CASE Settle(d)
    <3>1. GoTo(d, "ended")
      BY <2>3 DEF Settle
    <3>2. \A e \in DOMAIN tasks' : Live(e)' => e \in DOMAIN tasks \ {d} /\ Live(e)
      BY <3>1, GoToEffect DEF Live
    <3>3. \A e \in DOMAIN tasks \ {d} :
              Live(e) => unacked'[tasks[e].worker] = unacked[tasks[e].worker]
      <4>1. \A e \in DOMAIN tasks : tasks[e] \in Task
        BY DEF TypeOK
      <4>2. \A e \in DOMAIN tasks : tasks[e].worker \in Worker
        BY <4>1 DEF Task
      <4> QED
        BY <2>1, <2>3, <4>2 DEF Settle, LiveIsAlone, Live, TypeOK
    <3> QED
      BY <3>1, <3>2, <3>3, GoToEffect, LiveKept DEF StaysLive
  <2> QED
    BY <1>4, <2>2, <2>3, ExecuteMoves
<1>5. ASSUME NEW j \in Job, create_report_job(j) \/ Publish(j)
      PROVE  UNCHANGED <<tasks, unacked>>
  BY <1>5 DEF create_report_job, Publish
<1>6. ASSUME NEW w \in Worker, Start(w) PROVE UNCHANGED <<tasks, unacked>>
  BY <1>6 DEF Start
<1>7. CASE UNCHANGED vars
  BY <1>1, <1>7 DEF vars
<1> QED
  BY <1>1, <1>2, <1>3, <1>4, <1>5, <1>6, <1>7 DEF Next

-----------------------------------------------------------------------------
(* A job is held until its row exists.                                     *)

\* TakeBack() moves the message from the connection to the queue.
LEMMA TakeBackHolds ==
    ASSUME TypeOK, NEW w \in Worker, TakeBack(w), NEW j \in Job, Queued(j) \/ Delivered(j)
    PROVE  Queued(j)' \/ Delivered(j)'
<1>1. CASE unacked[w] = NoJob
  <2>1. queue' = queue /\ \A v \in Worker : unacked'[v] = unacked[v]
    BY <1>1 DEF TakeBack, TypeOK
  <2> QED
    BY <2>1 DEF Queued, Delivered
<1>2. CASE unacked[w] # NoJob
  <2>1. <<unacked[w]>> \in Seq(Job) /\ queue \in Seq(Job) /\ Len(<<unacked[w]>>) = 1
    BY <1>2 DEF TypeOK
  <2>2. queue' = <<unacked[w]>> \o queue
    BY <1>2 DEF TakeBack
  <2>3. /\ queue' \in Seq(Job) /\ Len(queue') = 1 + Len(queue) /\ Len(queue) \in Nat
        /\ DOMAIN queue' = 1..Len(queue') /\ DOMAIN queue = 1..Len(queue)
        /\ queue'[1] = unacked[w]
        /\ \A k \in 1..Len(queue) : queue'[k + 1] = queue[k]
    BY <2>1, <2>2
  <2>4. ASSUME unacked[w] = j PROVE Queued(j)'
    BY <2>3, <2>4 DEF Queued
  <2>5. ASSUME Queued(j) PROVE Queued(j)'
    <3>1. PICK k \in 1..Len(queue) : queue[k] = j
      BY <2>3, <2>5 DEF Queued
    <3>2. k + 1 \in DOMAIN queue' /\ queue'[k + 1] = j
      BY <2>3, <3>1
    <3> QED
      BY <3>2 DEF Queued
  <2>6. ASSUME NEW v \in Worker \ {w}, unacked[v] = j PROVE Delivered(j)'
    BY <2>6 DEF TakeBack, TypeOK, Delivered
  <2> QED
    BY <2>4, <2>5, <2>6 DEF Delivered
<1> QED
  BY <1>1, <1>2

\* Deliver() moves it the other way.
LEMMA DeliverHolds ==
    ASSUME TypeOK, NEW w \in Worker, Deliver(w), NEW j \in Job, Queued(j) \/ Delivered(j)
    PROVE  Queued(j)' \/ Delivered(j)'
<1>1. /\ queue \in Seq(Job) /\ queue # <<>> /\ queue' = Tail(queue)
      /\ DOMAIN queue = 1..Len(queue)
  BY DEF TypeOK, Deliver
<1>2. ASSUME NEW v \in Worker, unacked[v] = j PROVE Delivered(j)'
  <2>1. v # w
    BY <1>2, ReportJobsAssumption DEF Deliver
  <2> QED
    BY <1>2, <2>1 DEF Deliver, TypeOK, Delivered
<1>3. ASSUME NEW k \in 1..Len(queue), queue[k] = j PROVE Queued(j)' \/ Delivered(j)'
  <2>1. CASE k = 1
    BY <1>1, <1>3, <2>1 DEF Deliver, TypeOK, Delivered
  <2>2. CASE k # 1
    <3>1. k - 1 \in DOMAIN queue' /\ queue'[k - 1] = j
      BY <1>1, <1>3, <2>2
    <3> QED
      BY <3>1 DEF Queued
  <2> QED
    BY <2>1, <2>2
<1> QED
  BY <1>1, <1>2, <1>3 DEF Queued, Delivered

\* A handler that settles a message while the database answers leaves a row behind, and
\* the message is its own.
LEMMA SettleHolds ==
    ASSUME ReportInv, NEW d \in DOMAIN tasks, Execute(d), Settle(d), faults' = 0,
           NEW j \in Job, row'[j] = "none", Delivered(j)
    PROVE  Delivered(j)'
<1> USE DEF ReportInv
<1>1. faults' # faults + 1
  BY DEF TypeOK
<1>2. tasks[d].at \in {"insert", "ack"}
  BY <1>1, GoToEffect DEF Execute, Insert, InsertFails, Generate, Complete, Fail, Ack, Fault,
     Settle
<1>3. row[tasks[d].job] # "none"
  <2>1. CASE tasks[d].at = "ack"
    BY <2>1 DEF GeneratingHasRow, Generating
  <2>2. CASE tasks[d].at = "insert"
    <3>1. ~ GoTo(d, "generate")
      BY GoToEffect DEF Settle
    <3>2. InsertFails(d)
      BY <2>2, <3>1 DEF Execute, Insert, Generate, Complete, Fail, Ack
    <3> QED
      BY <1>1, <3>2 DEF InsertFails, Fault
  <2> QED
    BY <1>2, <2>1, <2>2
<1>4. row' = row
  BY <1>1, <1>2, <1>3 DEF Execute, Insert, InsertFails, Generate, Complete, Fail, Ack, Fault
<1>5. tasks[d].job # j
  BY <1>3, <1>4
<1>6. PICK v \in Worker : unacked[v] = j
  BY DEF Delivered
<1>7. ~ tasks[d].live \/ v # tasks[d].worker
  BY <1>2, <1>5, <1>6 DEF LiveHoldsMessage, Live
<1>8. unacked'[v] = j
  BY <1>6, <1>7 DEF Settle, TypeOK
<1> QED
  BY <1>8 DEF Delivered

LEMMA StepHeldUntilStarted ==
    ASSUME ReportInv, [Next]_vars
    PROVE  HeldUntilStarted'
<1> SUFFICES ASSUME NEW j \in requested', row'[j] = "none", faults' = 0
             PROVE  j \in publishing' \/ Queued(j)' \/ Delivered(j)'
  BY DEF HeldUntilStarted
<1> USE DEF ReportInv
<1>1. faults = 0 /\ ~ Fault
  <2>1. faults' = faults \/ Fault
    BY DEF Next, vars, create_report_job, Publish, Deliver, ConnectionLost, Crash, Start,
       Execute, Insert, InsertFails, Generate, Complete, Fail, Ack
  <2> QED
    BY <2>1 DEF Fault, TypeOK
<1>2. j \in Job
  BY StepTypeOK DEF TypeOK
<1>3. row[j] = "none"
  BY <1>2, StepKeepsRow DEF RowKept
<1>4. j \in requested => j \in publishing \/ Queued(j) \/ Delivered(j)
  BY <1>1, <1>3 DEF HeldUntilStarted
<1>5. CASE UNCHANGED <<requested, publishing, queue, unacked>>
  BY <1>4, <1>5 DEF Queued, Delivered
<1>6. ASSUME NEW i \in Job, create_report_job(i)
      PROVE  j \in publishing' \/ Queued(j)' \/ Delivered(j)'
  BY <1>4, <1>6 DEF create_report_job, Queued, Delivered
<1>7. ASSUME NEW i \in Job, Publish(i)
      PROVE  j \in publishing' \/ Queued(j)' \/ Delivered(j)'
  <2>1. queue' = Append(queue, i) /\ UNCHANGED <<requested, unacked>>
    BY <1>1, <1>7 DEF Publish
  <2>2. /\ DOMAIN queue = 1..Len(queue) /\ DOMAIN queue' = 1..(Len(queue) + 1)
        /\ Len(queue) \in Nat
        /\ queue'[Len(queue) + 1] = i
        /\ \A k \in 1..Len(queue) : queue'[k] = queue[k]
    BY <2>1, AppendProperties DEF TypeOK
  <2>3. Queued(i)'
    BY <2>2 DEF Queued
  <2>4. Queued(j) => Queued(j)'
    BY <2>2 DEF Queued
  <2> QED
    BY <1>4, <1>7, <2>1, <2>3, <2>4 DEF Publish, Delivered
<1>8. ASSUME NEW w \in Worker, Deliver(w)
      PROVE  j \in publishing' \/ Queued(j)' \/ Delivered(j)'
  <2>1. UNCHANGED <<requested, publishing>>
    BY <1>8 DEF Deliver
  <2> QED
    BY <1>2, <1>4, <1>8, <2>1, DeliverHolds
<1>9. ASSUME NEW w \in Worker, ConnectionLost(w) \/ Crash(w)
      PROVE  j \in publishing' \/ Queued(j)' \/ Delivered(j)'
  <2>1. UNCHANGED <<requested, publishing>> /\ TakeBack(w)
    BY <1>9 DEF ConnectionLost, Crash
  <2> QED
    BY <1>2, <1>4, <2>1, TakeBackHolds
<1>10. ASSUME NEW d \in DOMAIN tasks, Execute(d)
       PROVE  j \in publishing' \/ Queued(j)' \/ Delivered(j)'
  <2>1. UNCHANGED <<requested, publishing, queue>> /\ (Settle(d) \/ UNCHANGED unacked)
    BY <1>10, ExecuteMoves
  <2>2. CASE UNCHANGED unacked
    BY <1>5, <2>1, <2>2
  <2>3. CASE Settle(d)
    BY <1>2, <1>4, <1>10, <2>1, <2>3, SettleHolds DEF Queued
  <2> QED
    BY <2>1, <2>2, <2>3
<1>11. ASSUME NEW w \in Worker, Start(w)
       PROVE  UNCHANGED <<requested, publishing, queue, unacked>>
  BY <1>11 DEF Start
<1>12. CASE UNCHANGED vars
  BY <1>5, <1>12 DEF vars
<1> QED
  BY <1>5, <1>6, <1>7, <1>8, <1>9, <1>10, <1>11, <1>12 DEF Next

LEMMA Invariance == Spec => []ReportInv
<1>1. ReportInv /\ [Next]_vars => ReportInv'
  BY StepTypeOK, StepGeneratingHasRow, StepGeneratedOnce, StepLive, StepHeldUntilStarted
     DEF ReportInv
<1> QED
  BY <1>1, InitReportInv, PTL DEF Spec

\* Whatever is redelivered, and although the handler of a lost connection runs on, one
\* handler at most generates a report: the INSERT of its row is the lock.
THEOREM OneGenerator == Spec => []GeneratedOnce
<1>1. ReportInv => GeneratedOnce
  BY DEF ReportInv
<1> QED
  BY <1>1, Invariance, PTL

\* While calls succeed, a requested job without a row is held by the gateway's task, the
\* queue or a connection, through any number of crashes and lost connections.
THEOREM NoJobLost == Spec => []HeldUntilStarted
<1>1. ReportInv => HeldUntilStarted
  BY DEF ReportInv
<1> QED
  BY <1>1, Invariance, PTL

-----------------------------------------------------------------------------
(* A settled report does not change while the database answers.            *)

Unsettled == {"generate", "complete", "fail"}

\* While calls succeed, the row of a job whose handler has yet to settle it is pending.
UnsettledIsPending ==
    faults = 0 =>
        \A d \in DOMAIN tasks : tasks[d].at \in Unsettled => row[tasks[d].job] = "processing"

\* Then a step writes the row of a job only when it was missing or pending, and, unless a
\* call fails, to insert or to settle it.
LEMMA RowWrites ==
    ASSUME ReportInv, UnsettledIsPending, [Next]_vars, faults = 0
    PROVE  \/ row' = row
           \/ \E d \in DOMAIN tasks :
                /\ row[tasks[d].job] \notin Terminal
                /\ \A j \in Job \ {tasks[d].job} : row'[j] = row[j]
                /\ \/ faults' # 0
                   \/ Insert(d)
                   \/ tasks[d].at \in Unsettled /\ GoTo(d, "ack")
<1> USE DEF ReportInv
<1>1. Fault => faults' # 0
  BY DEF Fault
<1>2. ASSUME NEW d \in DOMAIN tasks, Execute(d), row' # row
      PROVE  /\ row[tasks[d].job] \notin Terminal
             /\ \A j \in Job \ {tasks[d].job} : row'[j] = row[j]
             /\ \/ faults' # 0
                \/ Insert(d)
                \/ tasks[d].at \in Unsettled /\ GoTo(d, "ack")
  <2>1. row \in [Job -> Status] /\ tasks[d].job \in Job
    <3>1. row \in [Job -> Status] /\ tasks[d] \in Task
      BY DEF TypeOK
    <3> QED
      BY <3>1 DEF Task
  <2>2. CASE Insert(d)
    BY <2>1, <2>2 DEF Insert, Terminal
  <2>3. CASE Complete(d) \/ Fail(d)
    <3>1. tasks[d].at \in Unsettled /\ (faults' # 0 \/ GoTo(d, "ack"))
      BY <1>1, <2>3 DEF Complete, Fail, Unsettled
    <3>2. \A j \in Job \ {tasks[d].job} : row'[j] = row[j]
      BY <2>1, <2>3 DEF Complete, Fail
    <3> QED
      BY <3>1, <3>2 DEF UnsettledIsPending, Terminal
  <2>4. CASE InsertFails(d)
    <3>1. faults' # 0 /\ row' = [row EXCEPT ![tasks[d].job] = IF @ = "none"
                                                             THEN "processing" ELSE @]
      BY <1>1, <1>2, <2>4 DEF InsertFails
    <3>2. row[tasks[d].job] = "none"
      BY <1>2, <2>1, <3>1
    <3> QED
      BY <2>1, <3>1, <3>2 DEF Terminal
  <2>5. CASE Generate(d) \/ Ack(d)
    BY <1>2, <2>5 DEF Generate, Ack
  <2> QED
    BY <1>2, <2>2, <2>3, <2>4, <2>5 DEF Execute
<1>3. row' = row \/ \E d \in DOMAIN tasks : Execute(d)
  BY DEF Next, vars, create_report_job, Publish, Deliver, ConnectionLost, Crash, Start
<1> QED
  BY <1>2, <1>3

LEMMA StepUnsettledIsPending ==
    ASSUME ReportInv, UnsettledIsPending, [Next]_vars
    PROVE  UnsettledIsPending'
<1> SUFFICES ASSUME faults' = 0, NEW e \in DOMAIN tasks', tasks'[e].at \in Unsettled
             PROVE  row'[tasks'[e].job] = "processing"
  BY DEF UnsettledIsPending
<1> USE DEF ReportInv
<1>1. faults = 0
  <2>1. faults' = faults \/ Fault
    BY DEF Next, vars, create_report_job, Publish, Deliver, ConnectionLost, Crash, Start,
       Execute, Insert, InsertFails, Generate, Complete, Fail, Ack
  <2> QED
    BY <2>1 DEF Fault, TypeOK
<1>2. CASE GeneratesOn(e) /\ tasks[e].at \in Unsettled
  <2>1. tasks[e] \in Task
    BY <1>2 DEF GeneratesOn, TypeOK
  <2>2. tasks[e].job \in Job /\ row[tasks[e].job] = "processing"
    BY <1>1, <1>2, <2>1 DEF GeneratesOn, UnsettledIsPending, Task
  <2>3. ASSUME NEW d \in DOMAIN tasks, tasks[d].job = tasks[e].job,
               tasks[d].at \in Unsettled, GoTo(d, "ack")
        PROVE  FALSE
    <3>1. d = e
      BY <1>2, <2>2, <2>3 DEF GeneratesOn, GeneratedOnce, IsGenerating, Unsettled, Generating
    <3> QED
      BY <2>3, <3>1, GoToEffect DEF Unsettled
  <2>4. ASSUME NEW d \in DOMAIN tasks, tasks[d].job = tasks[e].job, Insert(d) PROVE FALSE
    BY <2>2, <2>4 DEF Insert
  <2>5. row'[tasks[e].job] = row[tasks[e].job]
    BY <1>1, <2>2, <2>3, <2>4, RowWrites
  <2> QED
    BY <1>2, <2>2, <2>5 DEF GeneratesOn
<1>3. CASE GeneratesOn(e) /\ tasks[e].at \notin Unsettled
  <2>1. tasks[e].at = "ack" /\ tasks[e].live \in BOOLEAN
    <3>1. tasks[e] \in Task
      BY <1>3 DEF GeneratesOn, TypeOK
    <3> QED
      BY <1>3, <3>1 DEF GeneratesOn, Unsettled, Generating, Task
  <2>2. tasks'[e].at \in {"ack", "ended"}
    <3>1. CASE tasks' = tasks
      BY <2>1, <3>1
    <3>2. ASSUME NEW w \in Worker, Deliver(w) PROVE tasks'[e].at = "ack"
      BY <1>3, <2>1, <3>2, DeliverEffect DEF GeneratesOn
    <3>3. ASSUME NEW w \in Worker, ConnectionLost(w) \/ Crash(w)
          PROVE  tasks'[e].at \in {"ack", "ended"}
      BY <1>3, <2>1, <3>3, ConnectionGoneEffect DEF GeneratesOn
    <3>4. ASSUME NEW d \in DOMAIN tasks, Execute(d) PROVE tasks'[e].at \in {"ack", "ended"}
      <4>1. CASE d = e
        <5>1. GoTo(d, "ended")
          BY <2>1, <3>4, <4>1 DEF Execute, Insert, InsertFails, Generate, Complete, Fail, Ack,
             Settle
        <5> QED
          BY <1>3, <4>1, <5>1, GoToEffect DEF GeneratesOn
      <4>2. CASE d # e
        <5>1. \E where : GoTo(d, where)
          BY <3>4, ExecuteMoves DEF Settle
        <5> QED
          BY <1>3, <2>1, <4>2, <5>1, GoToEffect DEF GeneratesOn
      <4> QED
        BY <4>1, <4>2
    <3>5. ASSUME NEW j \in Job, create_report_job(j) \/ Publish(j) PROVE tasks' = tasks
      BY <3>5 DEF create_report_job, Publish
    <3>6. ASSUME NEW w \in Worker, Start(w) PROVE tasks' = tasks
      BY <3>6 DEF Start
    <3>7. CASE UNCHANGED vars
      BY <3>1, <3>7 DEF vars
    <3> QED
      BY <3>1, <3>2, <3>3, <3>4, <3>5, <3>6, <3>7 DEF Next
  <2> QED
    BY <2>2 DEF Unsettled
<1>4. ASSUME NEW d \in DOMAIN tasks, Insert(d), ~ GeneratesOn(e)
      PROVE  row'[tasks'[e].job] = "processing"
  <2>1. e = d
    BY <1>4, InsertEffect DEF Generating, Unsettled
  <2>2. tasks[d] \in Task
    BY DEF TypeOK
  <2>3. row'[tasks[d].job] = "processing"
    BY <1>4, <2>2 DEF Insert, TypeOK, Task
  <2> QED
    BY <1>4, <2>1, <2>3, InsertEffect
<1>5. tasks'[e].at \in Generating
  BY DEF Unsettled, Generating
<1> QED
  BY <1>2, <1>3, <1>4, <1>5, StepGenerators

\* What a client has seen completed stays completed while the database answers: the
\* FAILED of the except branch comes only before a terminal status is written.
THEOREM SettledIsFinal == Spec => TerminalIsFinal
<1> DEFINE Inv == ReportInv /\ UnsettledIsPending
<1>1. Init => Inv
  BY InitReportInv DEF Init, UnsettledIsPending
<1>2. Inv /\ [Next]_vars => Inv'
  BY StepTypeOK, StepGeneratingHasRow, StepGeneratedOnce, StepLive, StepHeldUntilStarted,
     StepUnsettledIsPending DEF ReportInv
<1>3. Inv /\ [Next]_vars
      => [\A j \in Job : row[j] \in Terminal /\ faults = 0 => row'[j] = row[j]]_vars
  BY RowWrites
<1> QED
  BY <1>1, <1>2, <1>3, PTL DEF Spec, TerminalIsFinal
=============================================================================
