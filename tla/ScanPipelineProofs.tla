------------------------- MODULE ScanPipelineProofs -------------------------
(***************************************************************************)
(* Proofs about ScanPipeline for any sets of jobs, replicas and slots, any *)
(* retry limit and any fault budget.                                       *)
(***************************************************************************)
EXTENDS ScanPipeline, JobQueueProofs

LEMMA PhasesAreBusy == Phases \cap {"idle", "done", "error"} = {}
BY DEF Phases, ScanPhases

(* A handler that is not idle works on a job.                              *)
LEMMA BusyHasJob ==
  ASSUME TypeOK, NEW h \in Handlers, pc[h] # "idle"
  PROVE  Job(h) \in Jobs
BY BusyHasMessage, TypeParts DEF TypeOK

-----------------------------------------------------------------------------
(* Type correctness: every action of the pipeline, faults included, leaves *)
(* tables, broker and goroutines in states they can have.                  *)
THEOREM TypeCorrect == Spec => []TypeOK
<1> DEFINE TablesOK == /\ stale \in [Jobs -> BOOLEAN]
                       /\ persisted \in [Jobs -> Nat]
                       /\ failedEvents \in [Jobs -> Nat]
           SweepsOK == /\ sweepTodo \in [Workers -> SUBSET Jobs]
                       /\ sweepMarked \in [Workers -> SUBSET Jobs]
           QueueOK  == JobQueueTypeOK(Phases)
<1>a. TypeOK <=> QueueOK /\ TablesOK /\ SweepsOK
  BY DEF TypeOK
<1>b. TypeOK' <=> QueueOK' /\ TablesOK' /\ SweepsOK'
  BY DEF TypeOK
<1>1. Init => TypeOK
  BY TypedAtFirst DEF Init, TypeOK
<1>2. TypeOK /\ [Next]_vars => TypeOK'
  <2> SUFFICES ASSUME TypeOK, TablesOK, SweepsOK, [Next]_vars
               PROVE  QueueOK' /\ TablesOK' /\ SweepsOK'
    BY <1>a, <1>b
  <2> DEFINE Good == QueueOK' /\ TablesOK' /\ SweepsOK'
  <2>0. /\ JobQueueTypeOK(Phases) /\ status \in [Jobs -> JobState]
        /\ faults \in [FaultKinds -> Nat] /\ "idle" \notin Phases
    BY PhasesAreBusy DEF TypeOK, JobQueueTypeOK, QueueTypeOK
  <2>dlt. ASSUME NEW j \in Jobs, DeadLetterTx(j)
          PROVE  /\ status' \in [Jobs -> JobState] /\ failedEvents' \in [Jobs -> Nat]
                 /\ UNCHANGED status \/ \E to \in Status : SetStatus(j, to)
    BY <2>0, <2>dlt DEF DeadLetterTx, SetStatus, JobState, Status
  <2>1. ASSUME NEW j \in Jobs, CreateScanJob(j) \/ PublishEvent(j) \/ PublishEventTwice(j)
                               \/ PublishEventFails(j)
        PROVE  Good
    <3>1. QueueOK'
      BY <2>0, <2>1, PublisherTyped
         DEF CreateScanJob, PublishEvent, PublishEventTwice, PublishEventFails
    <3>2. QED
      BY <2>1, <3>1
         DEF CreateScanJob, PublishEvent, PublishEventTwice, PublishEventFails, jobVars, sweepVars
  <2>2. ASSUME NEW j \in Jobs, BecomeStale(j) PROVE Good
    <3>1. faults' \in [FaultKinds -> Nat]
      BY <2>0, <2>2, FaultCounted DEF BecomeStale, FaultKinds
    <3>2. QED
      BY <2>0, <2>2, <3>1, TablesTyped DEF BecomeStale, requestVars, sweepVars
  <2>3. ASSUME NEW h \in Handlers, NEW m \in Messages, DeliverWork(h, m) \/ DeliverDead(h, m)
        PROVE  Good
    <3>1. QueueOK'
      BY <2>0, <2>3, ConsumerTyped DEF DeliverWork, DeliverDead, jobVars, Phases, ScanPhases
    <3>2. QED
      BY <2>3, <3>1 DEF DeliverWork, DeliverDead, jobVars, sweepVars
  <2>4. ASSUME NEW h \in Handlers, LoadJob(h) \/ ProcessFails(h) \/ DeadLetterFails(h)
        PROVE  Good
    <3>1. QueueOK'
      BY <2>0, <2>4, HandlerTyped
         DEF LoadJob, ProcessFails, DeadLetterFails, DropDeadLetter, jobVars, Phases, ScanPhases
    <3>2. QED
      BY <2>4, <3>1 DEF LoadJob, ProcessFails, DeadLetterFails, DropDeadLetter, jobVars, sweepVars
  <2>5. ASSUME NEW h \in Handlers, BeginProcessing(h) \/ RecordFailed(h) \/ RecordCompleted(h)
        PROVE  Good
    <3>1. QueueOK'
      BY <2>0, <2>5, HandlerTyped
         DEF BeginProcessing, RecordFailed, RecordCompleted, Transition, Phases, ScanPhases,
             Status
    <3>2. QED
      BY <2>5, <3>1 DEF BeginProcessing, RecordFailed, RecordCompleted, Transition, sweepVars
  <2>6. ASSUME NEW h \in Handlers, PersistCompletion(h) PROVE Good
    <3>1. QueueOK'
      BY <2>0, <2>6, HandlerTyped DEF PersistCompletion
    <3>2. QED
      BY <2>6, <3>1, BusyHasJob DEF PersistCompletion, sweepVars
  <2>7. ASSUME NEW h \in Handlers, CommitInDoubt(h) PROVE Good
    <3>1. pc[h] # "idle" /\ Job(h) \in Jobs
      BY <2>7, BusyHasJob DEF CommitInDoubt
    <3>2. QueueOK'
      BY <2>0, <2>7, <3>1, HandlerTyped DEF CommitInDoubt, Status
    <3>3. QED
      BY <2>7, <3>1, <3>2 DEF CommitInDoubt, sweepVars
  <2>8. ASSUME NEW h \in Handlers, HandleScanDeadLetter(h) PROVE Good
    <3>1. Job(h) \in Jobs /\ DeadLetterTx(Job(h))
      BY <2>8, BusyHasJob DEF HandleScanDeadLetter
    <3>2. QueueOK'
      BY <2>0, <2>8, <2>dlt, <3>1, HandlerTyped DEF HandleScanDeadLetter
    <3>3. QED
      BY <2>8, <2>dlt, <3>1, <3>2 DEF HandleScanDeadLetter, sweepVars
  <2>9. ASSUME NEW h \in Handlers, Consumer(h) PROVE Good
    <3>1. QueueOK'
      BY <2>0, <2>9, ConsumerTyped DEF Consumer, jobVars
    <3>2. QED
      BY <2>9, <3>1 DEF Consumer, jobVars, sweepVars
  <2>10. ASSUME NEW w \in Workers, SelectStale(w) PROVE Good
    <3>1. QueueOK'
      BY <2>0, <2>10, TablesTyped DEF SelectStale, queueVars, jobVars
    <3>2. QED
      BY <2>10, <3>1 DEF SelectStale, StaleJobs, jobVars
  <2>11. ASSUME NEW w \in Workers, NEW j \in Jobs, SweepMarkFailed(w, j) PROVE Good
    <3>1. QueueOK'
      BY <2>0, <2>11, TablesTyped DEF SweepMarkFailed, SetStatus, JobState, Status, queueVars
    <3>2. QED
      BY <2>11, <3>1 DEF SweepMarkFailed, SweepPop
  <2>12. ASSUME NEW w \in Workers, NEW j \in Jobs, SweepSkip(w, j) \/ SweepGiveUpFails(w, j)
         PROVE  Good
    <3>1. faults' \in [FaultKinds -> Nat]
      BY <2>0, <2>12, TxFailsCounted DEF SweepSkip, SweepGiveUpFails
    <3>2. QueueOK'
      BY <2>0, <2>12, <3>1, TablesTyped DEF SweepSkip, SweepGiveUpFails, jobVars
    <3>3. QED
      BY <2>12, <3>2 DEF SweepSkip, SweepPop, SweepGiveUpFails, jobVars
  <2>13. ASSUME NEW w \in Workers, NEW j \in Jobs, SweepGiveUp(w, j) PROVE Good
    <3>1. QueueOK'
      BY <2>0, <2>13, <2>dlt, TablesTyped DEF SweepGiveUp, queueVars
    <3>2. QED
      BY <2>13, <2>dlt, <3>1 DEF SweepGiveUp
  <2>14. ASSUME NEW w \in Workers, Crash(w) \/ Replica(w) PROVE Good
    <3>1. QueueOK'
      BY <2>0, <2>14, ReplicaTyped DEF Crash, Replica, jobVars
    <3>2. QED
      BY <2>14, <3>1 DEF Crash, Replica, jobVars, sweepVars
  <2>15. ASSUME UNCHANGED vars PROVE Good
    <3>1. QueueOK'
      BY <2>0, <2>15, TablesTyped DEF vars, queueVars, jobVars
    <3>2. QED
      BY <2>15, <3>1 DEF vars, jobVars, sweepVars
  <2>16. QED
    BY <2>1, <2>2, <2>3, <2>4, <2>5, <2>6, <2>7, <2>8, <2>9, <2>10, <2>11, <2>12, <2>13,
       <2>14, <2>15
       DEF Next, ProcessScanJob, Sweep
<1>3. QED
  BY <1>1, <1>2, PTL DEF Spec

-----------------------------------------------------------------------------
(* The steps that touch neither the outcome of a job nor a running scan:   *)
(* handlers may leave "scan" and "persist" but none gets there, jobs may   *)
(* become stale, and a sweep selects only stale jobs.                      *)
NoNewScan ==
  \A h \in Handlers : pc'[h] \in {"scan", "persist"} => pc[h] = pc'[h] /\ msg'[h] = msg[h]

SweepsStale ==
  /\ \A j \in Jobs : stale[j] => stale'[j]
  /\ \A w \in Workers : sweepTodo'[w] \subseteq sweepTodo[w] \cup StaleJobs

Quiet == UNCHANGED <<status, persisted, failedEvents>> /\ NoNewScan /\ SweepsStale

(* Every step is quiet or one of the actions below, which write the tables.*)
LEMMA StepKinds ==
  ASSUME TypeOK, [Next]_vars
  PROVE  \/ Quiet
         \/ \E j \in Jobs : CreateScanJob(j)
         \/ \E h \in Handlers : \/ BeginProcessing(h) \/ RecordFailed(h) \/ RecordCompleted(h)
                                \/ PersistCompletion(h) \/ CommitInDoubt(h)
                                \/ HandleScanDeadLetter(h)
         \/ \E w \in Workers, j \in Jobs : SweepMarkFailed(w, j) \/ SweepGiveUp(w, j)
<1> USE DEF TypeOK, JobQueueTypeOK, QueueTypeOK, Quiet, NoNewScan, SweepsStale
<1>1. ASSUME NEW j \in Jobs, PublishEvent(j) \/ PublishEventTwice(j) \/ PublishEventFails(j)
      PROVE  Quiet
  BY <1>1 DEF PublishEvent, PublishEventTwice, PublishEventFails, Publish, PublishTwice,
         PublishFails, jobVars, sweepVars
<1>2. ASSUME NEW j \in Jobs, BecomeStale(j) PROVE Quiet
  BY <1>2 DEF BecomeStale, sweepVars
<1>3. ASSUME NEW h \in Handlers, NEW m \in Messages, DeliverWork(h, m) \/ DeliverDead(h, m)
      PROVE  Quiet
  BY <1>3 DEF DeliverWork, DeliverDead, Deliver, Goto, jobVars, sweepVars
<1>4. ASSUME NEW h \in Handlers, LoadJob(h) \/ ProcessFails(h) \/ DeadLetterFails(h)
      PROVE  Quiet
  BY <1>4 DEF LoadJob, ProcessFails, DeadLetterFails, DropDeadLetter, Goto, jobVars, sweepVars
<1>5. ASSUME NEW h \in Handlers, Consumer(h) PROVE Quiet
  BY <1>5 DEF Consumer, ConsumerStep, Ack, RefuseToDlq, Republish, Requeue,
         RepublishFails,
              Release, Goto, jobVars, sweepVars
<1>6. ASSUME NEW w \in Workers, SelectStale(w) PROVE Quiet
  BY <1>6 DEF SelectStale, queueVars, jobVars
<1>7. ASSUME NEW w \in Workers, NEW j \in Jobs, SweepSkip(w, j) \/ SweepGiveUpFails(w, j)
      PROVE  Quiet
  BY <1>7 DEF SweepSkip, SweepPop, SweepGiveUpFails, jobVars
<1>8. ASSUME NEW w \in Workers, Crash(w) PROVE Quiet
  BY <1>8 DEF Crash, WorkerCrash, jobVars
<1>9. ASSUME NEW w \in Workers, Replica(w) PROVE Quiet
  BY <1>9 DEF Replica, Shutdown, WorkerExit, Restart, ChannelLost, jobVars,
         sweepVars
<1>10. ASSUME UNCHANGED vars PROVE Quiet
  BY <1>10 DEF vars, queueVars, jobVars, sweepVars
<1>11. QED
  BY <1>1, <1>2, <1>3, <1>4, <1>5, <1>6, <1>7, <1>8, <1>9, <1>10
     DEF Next, ProcessScanJob, Sweep

-----------------------------------------------------------------------------
(* The inductive invariant behind the outcome of a job.                    *)
OutcomeInv == TypeOK /\ OutcomeOnce /\ OutcomeMatchesStatus /\ OneRecorder

(* No handler gets to "persist".                                           *)
Recorders ==
  \A h \in Handlers : pc'[h] = "persist" => pc[h] = "persist" /\ msg'[h] = msg[h]

(* The invariant depends on the tables and on the handlers in "persist".   *)
LEMMA OutcomeFrame ==
  ASSUME OutcomeInv, TypeOK', UNCHANGED <<status, persisted, failedEvents>>,
         Recorders
  PROVE  OutcomeInv'
BY DEF OutcomeInv, OutcomeOnce, OutcomeMatchesStatus, OneRecorder, Recorders, Job

(* Giving up on a job that has an edge to dead_letter: nothing has been    *)
(* stored and nothing has been announced for it.                           *)
LEMMA OutcomeGiveUp ==
  ASSUME OutcomeInv, TypeOK', NEW j \in Jobs, DeadLetterTx(j), UNCHANGED persisted,
         Recorders
  PROVE  OutcomeInv'
<1>1. CASE UNCHANGED <<status, failedEvents>>
  BY <1>1, OutcomeFrame
<1>2. CASE /\ CanTransition(status[j], "dead_letter")
           /\ SetStatus(j, "dead_letter")
           /\ failedEvents' = [failedEvents EXCEPT ![j] = @ + 1]
  <2>1. status[j] \in Unfinished
    BY <1>2, EdgeEnds
  <2>2. persisted[j] = 0 /\ failedEvents[j] = 0
    BY <2>1 DEF OutcomeInv, TypeOK, OutcomeMatchesStatus, Unfinished, Terminal
  <2>3. OutcomeOnce' /\ OutcomeMatchesStatus'
    BY <1>2, <2>2 DEF OutcomeInv, TypeOK, JobQueueTypeOK, OutcomeOnce,
           OutcomeMatchesStatus, SetStatus
  <2>4. OneRecorder'
    <3>1. \A h \in Handlers : pc[h] = "persist" => Job(h) # j
      BY <2>1 DEF OutcomeInv, OneRecorder, Unfinished, Terminal
    <3>2. QED
      BY <1>2, <3>1 DEF OutcomeInv, TypeOK, JobQueueTypeOK, QueueTypeOK,
             OneRecorder, Recorders, SetStatus, Job
  <2>5. QED
    BY <2>3, <2>4 DEF OutcomeInv
<1>3. QED
  BY <1>1, <1>2 DEF DeadLetterTx

(* A status change other than giving up.                                   *)
LEMMA OutcomeAdvance ==
  ASSUME OutcomeInv, TypeOK', NEW j \in Jobs, NEW to \in {"processing", "failed", "completed"},
         CanTransition(status[j], to), SetStatus(j, to),
         UNCHANGED <<persisted, failedEvents>>,
         Recorders
  PROVE  OutcomeInv'
<1>1. status[j] \in Unfinished
  BY EdgeEnds
<1>2. persisted[j] = 0 /\ failedEvents[j] = 0
  BY <1>1 DEF OutcomeInv, TypeOK, OutcomeMatchesStatus, Unfinished, Terminal
<1>3. \A h \in Handlers : pc[h] = "persist" => Job(h) # j
  BY <1>1 DEF OutcomeInv, OneRecorder, Unfinished, Terminal
<1>4. QED
  BY <1>2, <1>3 DEF OutcomeInv, TypeOK, JobQueueTypeOK, QueueTypeOK,
         OutcomeOnce, OutcomeMatchesStatus,
                    OneRecorder, Recorders, SetStatus, Job

(* Findings are stored at most once and only for completed jobs, giving up *)
(* on a job and announcing it are one, and a job never gets both outcomes. *)
THEOREM OutcomeSafe == Spec => [](OutcomeOnce /\ OutcomeMatchesStatus /\ OneRecorder)
<1>1. Init /\ TypeOK => OutcomeInv
  BY DEF Init, JobQueueInit, QueueInit, OutcomeInv, OutcomeOnce,
         OutcomeMatchesStatus, OneRecorder, NotCreated
<1>2. OutcomeInv /\ TypeOK' /\ [Next]_vars => OutcomeInv'
  <2> SUFFICES ASSUME OutcomeInv, TypeOK', [Next]_vars PROVE OutcomeInv'
    OBVIOUS
  <2>0. TypeOK /\ \A h \in Handlers : pc[h] # "idle" => Job(h) \in Jobs
    BY BusyHasJob DEF OutcomeInv
  <2>1. CASE Quiet
    BY <2>1, OutcomeFrame DEF Quiet, NoNewScan, Recorders
  <2>2. ASSUME NEW j \in Jobs, CreateScanJob(j) PROVE OutcomeInv'
    <3>1. \A h \in Handlers : pc[h] = "persist" => Job(h) # j
      BY <2>2 DEF CreateScanJob, CreateJob, OutcomeInv, OneRecorder, NotCreated
    <3>2. QED
      BY <2>2, <3>1
         DEF CreateScanJob, CreateJob, OutcomeInv, TypeOK, JobQueueTypeOK,
                QueueTypeOK, OutcomeOnce, OutcomeMatchesStatus,
             OneRecorder, SetStatus, Job, NotCreated, queueVars
  <2>3. ASSUME NEW h \in Handlers, NEW to \in {"processing", "failed"}, NEW next,
               pc[h] # "idle", pc[h] # "persist", next # "persist",
               Transition(h, to, next), TypeOK'
        PROVE  OutcomeInv'
    <3>1. Recorders
      BY <2>0, <2>3 DEF Transition, Goto, Recorders, TypeOK, JobQueueTypeOK,
             QueueTypeOK
    <3>2. QED
      BY <2>0, <2>3, <3>1, OutcomeFrame, OutcomeAdvance DEF Transition
  <2>4. ASSUME NEW h \in Handlers, BeginProcessing(h) \/ RecordFailed(h) PROVE OutcomeInv'
    BY <2>3, <2>4 DEF BeginProcessing, RecordFailed
  <2>5. ASSUME NEW h \in Handlers, RecordCompleted(h) PROVE OutcomeInv'
    <3> DEFINE j == Job(h)
    <3>0. pc[h] = "scan" /\ j \in Jobs /\ msg' = msg /\ UNCHANGED <<persisted, failedEvents>>
      BY <2>0, <2>5 DEF RecordCompleted, Transition
    <3>1. CASE ~CanTransition(status[j], "completed")
      <4>1. Recorders /\ UNCHANGED status
        BY <2>0, <2>5, <3>0, <3>1 DEF RecordCompleted, Transition, Goto,
               Recorders, TypeOK, JobQueueTypeOK, QueueTypeOK
      <4>2. QED
        BY <3>0, <4>1, OutcomeFrame
    <3>2. CASE CanTransition(status[j], "completed")
      <4>1. SetStatus(j, "completed") /\ Goto(h, "persist")
        BY <2>5, <3>2 DEF RecordCompleted, Transition
      <4>2. status[j] \in Unfinished
        BY <3>2, EdgeEnds
      <4>3. persisted[j] = 0 /\ failedEvents[j] = 0
        BY <3>0, <4>2 DEF OutcomeInv, TypeOK, OutcomeMatchesStatus, Unfinished,
               Terminal
      <4>4. \A g \in Handlers : pc[g] = "persist" => Job(g) # j
        BY <4>2 DEF OutcomeInv, OneRecorder, Unfinished, Terminal
      <4>5. OutcomeOnce' /\ OutcomeMatchesStatus'
        BY <3>0, <4>1, <4>3
           DEF OutcomeInv, TypeOK, OutcomeOnce, OutcomeMatchesStatus, SetStatus
      <4>6. OneRecorder'
        BY <3>0, <4>1, <4>3, <4>4
           DEF OutcomeInv, TypeOK, JobQueueTypeOK, QueueTypeOK, OneRecorder,
                  SetStatus, Goto, Job
      <4>7. QED
        BY <4>5, <4>6 DEF OutcomeInv
    <3>3. QED
      BY <3>1, <3>2
  <2>6. ASSUME NEW h \in Handlers, PersistCompletion(h) PROVE OutcomeInv'
    <3> DEFINE j == Job(h)
    <3>1. /\ pc[h] = "persist" /\ j \in Jobs /\ UNCHANGED <<msg, status, failedEvents>>
          /\ persisted' = [persisted EXCEPT ![j] = @ + 1] /\ Goto(h, "done")
      BY <2>0, <2>6 DEF PersistCompletion
    <3>2. status[j] = "completed" /\ persisted[j] = 0 /\ failedEvents[j] = 0
      BY <3>1 DEF OutcomeInv, TypeOK, OneRecorder, OutcomeMatchesStatus
    <3>3. OutcomeOnce' /\ OutcomeMatchesStatus'
      BY <3>1, <3>2 DEF OutcomeInv, TypeOK, OutcomeOnce, OutcomeMatchesStatus
    <3>4. OneRecorder'
      BY <3>1 DEF OutcomeInv, TypeOK, JobQueueTypeOK, QueueTypeOK, OneRecorder,
             Goto, Job
    <3>5. QED
      BY <3>3, <3>4 DEF OutcomeInv
  <2>7. ASSUME NEW h \in Handlers, HandleScanDeadLetter(h) PROVE OutcomeInv'
    <3>1. Recorders
      BY <2>0, <2>7 DEF HandleScanDeadLetter, Goto, Recorders, TypeOK,
             JobQueueTypeOK, QueueTypeOK
    <3>2. QED
      BY <2>0, <2>7, <3>1, OutcomeGiveUp DEF HandleScanDeadLetter
  <2>8. ASSUME NEW w \in Workers, NEW j \in Jobs, SweepMarkFailed(w, j) PROVE OutcomeInv'
    BY <2>8, OutcomeAdvance DEF SweepMarkFailed, Recorders, queueVars
  <2>9. ASSUME NEW w \in Workers, NEW j \in Jobs, SweepGiveUp(w, j) PROVE OutcomeInv'
    BY <2>9, OutcomeGiveUp DEF SweepGiveUp, Recorders, queueVars
  <2>10. ASSUME NEW h \in Handlers, CommitInDoubt(h) PROVE OutcomeInv'
    <3> DEFINE j == Job(h)
    <3>1. j \in Jobs /\ Goto(h, "error") /\ UNCHANGED <<msg, failedEvents>> /\ Recorders
      BY <2>0, <2>10 DEF CommitInDoubt, Goto, Recorders, TypeOK,
             JobQueueTypeOK, QueueTypeOK
    <3>2. CASE pc[h] # "persist"
      BY <2>10, <3>1, <3>2, OutcomeAdvance DEF CommitInDoubt
    <3>3. CASE pc[h] = "persist"
      <4>1. persisted' = [persisted EXCEPT ![j] = @ + 1] /\ UNCHANGED status
        BY <2>10, <3>3 DEF CommitInDoubt
      <4>2. status[j] = "completed" /\ persisted[j] = 0 /\ failedEvents[j] = 0
        BY <3>1, <3>3 DEF OutcomeInv, TypeOK, OneRecorder, OutcomeMatchesStatus
      <4>3. OutcomeOnce' /\ OutcomeMatchesStatus'
        BY <3>1, <4>1, <4>2 DEF OutcomeInv, TypeOK, OutcomeOnce,
               OutcomeMatchesStatus
      <4>4. OneRecorder'
        BY <3>1, <3>3, <4>1 DEF OutcomeInv, TypeOK, JobQueueTypeOK,
               QueueTypeOK, OneRecorder, Goto, Job
      <4>5. QED
        BY <4>3, <4>4 DEF OutcomeInv
    <3>4. QED
      BY <3>2, <3>3
  <2>11. QED
    BY <2>0, <2>1, <2>2, <2>4, <2>5, <2>6, <2>7, <2>8, <2>9, <2>10, StepKinds
<1>3. QED
  BY <1>1, <1>2, TypeCorrect, PTL DEF Spec, OutcomeInv

-----------------------------------------------------------------------------
(* The pipeline implements JobLifecycle: whatever handlers, sweeps, faults *)
(* and retries do to a job is one of its moves or invisible.               *)
THEOREM PipelineImplementsLifecycle == Spec => LifecycleSpec
<1>1. Init => Lifecycle!Init
  BY DEF Init, JobQueueInit, NotCreated, Lifecycle!Init, Lifecycle!NotCreated
<1>2. OutcomeInv /\ [Next]_vars => [Lifecycle!Next]_(Lifecycle!vars)
  <2> SUFFICES ASSUME OutcomeInv, [Next]_vars
               PROVE  Lifecycle!Next \/ UNCHANGED <<status, persisted, failedEvents>>
    BY DEF Lifecycle!vars
  <2> DEFINE Stutter == UNCHANGED <<status, persisted, failedEvents>>
  <2>0. TypeOK /\ \A h \in Handlers : pc[h] # "idle" => Job(h) \in Jobs
    BY BusyHasJob DEF OutcomeInv
  <2>1. CASE Quiet
    BY <2>1 DEF Quiet
  <2>2. ASSUME NEW j \in Jobs, CreateScanJob(j) PROVE Lifecycle!Create(j)
    BY <2>2 DEF CreateScanJob, CreateJob, SetStatus, NotCreated,
           Lifecycle!Create, Lifecycle!Move,
                Lifecycle!NotCreated
  <2>3. ASSUME NEW j \in Jobs, NEW to \in {"processing", "failed", "completed"},
               CanTransition(status[j], to), SetStatus(j, to),
               UNCHANGED <<persisted, failedEvents>>
        PROVE  Lifecycle!Advance(j)
    BY <2>3 DEF SetStatus, Lifecycle!Advance, Lifecycle!Move,
           Lifecycle!CanTransition,
                Lifecycle!validTransitions, CanTransition, validTransitions
  <2>4. ASSUME NEW j \in Jobs, DeadLetterTx(j), UNCHANGED persisted
        PROVE  Lifecycle!GiveUp(j) \/ Stutter
    BY <2>4 DEF DeadLetterTx, SetStatus, Lifecycle!GiveUp, Lifecycle!Move,
                Lifecycle!CanTransition, Lifecycle!validTransitions,
                CanTransition, validTransitions
  <2>5. ASSUME NEW h \in Handlers, BeginProcessing(h) \/ RecordFailed(h) \/ RecordCompleted(h)
        PROVE  (\E j \in Jobs : Lifecycle!Advance(j)) \/ Stutter
    <3>1. Job(h) \in Jobs
      BY <2>0, <2>5 DEF BeginProcessing, RecordFailed, RecordCompleted
    <3>2. QED
      BY <2>3, <2>5, <3>1 DEF BeginProcessing, RecordFailed, RecordCompleted,
             Transition
  <2>6. ASSUME NEW h \in Handlers, PersistCompletion(h)
        PROVE  \E j \in Jobs : Lifecycle!PublishOutcome(j)
    <3>1. Job(h) \in Jobs /\ status[Job(h)] = "completed" /\ persisted[Job(h)] = 0
      BY <2>0, <2>6 DEF PersistCompletion, OutcomeInv, OneRecorder
    <3>2. Lifecycle!PublishOutcome(Job(h))
      BY <2>6, <3>1 DEF PersistCompletion, Lifecycle!PublishOutcome
    <3>3. QED
      BY <3>1, <3>2
  <2>7. ASSUME NEW h \in Handlers, HandleScanDeadLetter(h)
        PROVE  (\E j \in Jobs : Lifecycle!GiveUp(j)) \/ Stutter
    BY <2>0, <2>4, <2>7 DEF HandleScanDeadLetter
  <2>8. ASSUME NEW w \in Workers, NEW j \in Jobs, SweepMarkFailed(w, j)
        PROVE  Lifecycle!Advance(j)
    BY <2>3, <2>8 DEF SweepMarkFailed
  <2>9. ASSUME NEW w \in Workers, NEW j \in Jobs, SweepGiveUp(w, j)
        PROVE  Lifecycle!GiveUp(j) \/ Stutter
    BY <2>4, <2>9 DEF SweepGiveUp
  <2>10. ASSUME NEW h \in Handlers, CommitInDoubt(h)
         PROVE  \E j \in Jobs : Lifecycle!Advance(j) \/ Lifecycle!PublishOutcome(j)
    <3>1. Job(h) \in Jobs
      BY <2>0, <2>10 DEF CommitInDoubt
    <3>2. CASE pc[h] = "persist"
      <4>1. status[Job(h)] = "completed" /\ persisted[Job(h)] = 0
        BY <3>2 DEF OutcomeInv, OneRecorder
      <4>2. Lifecycle!PublishOutcome(Job(h))
        BY <2>10, <3>2, <4>1 DEF CommitInDoubt, Lifecycle!PublishOutcome
      <4>3. QED
        BY <3>1, <4>2
    <3>3. CASE pc[h] # "persist"
      BY <2>3, <2>10, <3>1, <3>3 DEF CommitInDoubt
    <3>4. QED
      BY <3>2, <3>3
  <2>11. QED
    BY <2>0, <2>1, <2>2, <2>5, <2>6, <2>7, <2>8, <2>9, <2>10,
           StepKinds DEF Lifecycle!Next
<1>3. Spec => []OutcomeInv
  BY TypeCorrect, OutcomeSafe, PTL DEF OutcomeInv
<1>4. QED
  BY <1>1, <1>2, <1>3, PTL DEF Spec, LifecycleSpec, Lifecycle!Spec

-----------------------------------------------------------------------------
(* While a job is not stale, a handler that runs its scanners finds it     *)
(* processing, or given up on by the dead-letter consumer; sweeps hold     *)
(* only stale jobs.                                                        *)
ScannerOwnsJob ==
  \A h \in Handlers : pc[h] = "scan" /\ ~stale[Job(h)] =>
     status[Job(h)] \in {"processing", "dead_letter"}

SweepsOnlyStale == \A w \in Workers : \A j \in sweepTodo[w] : stale[j]

ScanInv == SecondScanOnlyIfStale /\ ScannerOwnsJob /\ SweepsOnlyStale

(* Duplicates, retries and redeliveries never run the scanners of a job    *)
(* twice at the same time, unless the sweeper took the job for stale.      *)
THEOREM OneScanAtATime == Spec => []SecondScanOnlyIfStale
<1>1. Init => ScanInv
  BY DEF Init, JobQueueInit, QueueInit, ScanInv, SecondScanOnlyIfStale,
         ScannerOwnsJob, SweepsOnlyStale
<1>2. TypeOK /\ TypeOK' /\ ScanInv /\ [Next]_vars => ScanInv'
  <2> SUFFICES ASSUME TypeOK, TypeOK', ScanInv, [Next]_vars PROVE ScanInv'
    OBVIOUS
  <2> USE DEF ScanInv, SecondScanOnlyIfStale, ScannerOwnsJob, SweepsOnlyStale, Job
  <2>0. \A h \in Handlers : pc[h] # "idle" => Job(h) \in Jobs
    BY BusyHasJob
  <2>1. CASE Quiet
    BY <2>0, <2>1 DEF Quiet, NoNewScan, SweepsStale, StaleJobs, TypeOK
  <2> DEFINE Scanning == \A h \in Handlers : pc'[h] = "scan" => pc[h] = "scan" /\ msg'[h] = msg[h]
             Sweeping == \A w \in Workers : sweepTodo'[w] \subseteq sweepTodo[w]
  <2>2. ASSUME Scanning, Sweeping, UNCHANGED <<stale, status>> PROVE ScanInv'
    BY <2>0, <2>2
  <2>3. ASSUME Scanning, Sweeping, UNCHANGED stale,
               NEW j \in Jobs, NEW to \in Status, SetStatus(j, to),
               status[j] \notin {"processing", "dead_letter"} \/ to = "dead_letter" \/ stale[j]
        PROVE  ScanInv'
    BY <2>0, <2>3 DEF SetStatus, TypeOK
  <2>4. ASSUME NEW j \in Jobs, CreateScanJob(j) PROVE ScanInv'
    BY <2>3, <2>4 DEF CreateScanJob, CreateJob, NotCreated, Status, queueVars,
           sweepVars
  <2>5. ASSUME NEW h \in Handlers, BeginProcessing(h) PROVE ScanInv'
    <3> DEFINE j == Job(h)
    <3>1. /\ pc[h] = "begin" /\ j \in Jobs /\ pc'[h] \in {"scan", "error"}
          /\ \A g \in Handlers \ {h} : pc'[g] = pc[g]
          /\ UNCHANGED <<msg, stale, sweepTodo>>
      BY <2>0, <2>5 DEF BeginProcessing, Transition, Goto, sweepVars, TypeOK,
             JobQueueTypeOK, QueueTypeOK
    <3>2. CASE ~CanTransition(status[j], "processing")
      BY <2>2, <2>5, <3>1, <3>2 DEF BeginProcessing, Transition, Goto, TypeOK,
             JobQueueTypeOK, QueueTypeOK
    <3>3. CASE CanTransition(status[j], "processing")
      <4>1. SetStatus(j, "processing") /\ status[j] \in {"queued", "failed"}
        BY <2>5, <3>3 DEF BeginProcessing, Transition, CanTransition,
               validTransitions
      <4>2. \A g \in Handlers : pc[g] = "scan" /\ Job(g) = j => stale[j]
        BY <4>1
      <4>3. QED
        BY <2>0, <3>1, <4>1, <4>2 DEF SetStatus, TypeOK, JobQueueTypeOK
    <3>4. QED
      BY <3>2, <3>3
  <2>6. ASSUME NEW h \in Handlers, NEW to \in {"failed", "completed"}, NEW next \in {"error", "persist"},
               pc[h] = "scan", Goto(h, next), UNCHANGED <<msg, stale, sweepTodo>>,
               UNCHANGED status \/ SetStatus(Job(h), to)
        PROVE  ScanInv'
    <3> DEFINE j == Job(h)
    <3>1. /\ j \in Jobs /\ pc'[h] # "scan"
          /\ \A g \in Handlers \ {h} : pc'[g] = pc[g]
      BY <2>0, <2>6 DEF Goto, TypeOK, JobQueueTypeOK, QueueTypeOK
    <3>2. CASE UNCHANGED status
      BY <2>2, <2>6, <3>1, <3>2
    <3>3. CASE SetStatus(j, to)
      <4>1. \A g \in Handlers : pc'[g] = "scan" /\ Job(g) = j => stale[j]
        BY <2>6, <3>1
      <4>2. QED
        BY <2>0, <2>6, <3>1, <3>3, <4>1 DEF SetStatus, TypeOK
    <3>4. QED
      BY <2>6, <3>2, <3>3
  <2>7. ASSUME NEW h \in Handlers, RecordFailed(h) \/ RecordCompleted(h) PROVE ScanInv'
    BY <2>6, <2>7 DEF RecordFailed, RecordCompleted, Transition, sweepVars
  <2>13. ASSUME NEW h \in Handlers, CommitInDoubt(h) PROVE ScanInv'
    <3>1. /\ Job(h) \in Jobs /\ UNCHANGED <<msg, stale, sweepTodo>> /\ Goto(h, "error")
      BY <2>0, <2>13 DEF CommitInDoubt, sweepVars
    <3>2. Scanning /\ Sweeping
      BY <3>1 DEF Goto, TypeOK, JobQueueTypeOK, QueueTypeOK
    <3>3. CASE pc[h] = "scan"
      BY <2>6, <2>13, <3>1, <3>3 DEF CommitInDoubt
    <3>4. CASE pc[h] = "begin"
      BY <2>3, <2>13, <3>1, <3>2, <3>4
         DEF CommitInDoubt, CanTransition, validTransitions, Status
    <3>5. CASE pc[h] = "persist"
      BY <2>2, <2>13, <3>1, <3>2, <3>5 DEF CommitInDoubt
    <3>6. QED
      BY <2>13, <3>3, <3>4, <3>5 DEF CommitInDoubt
  <2>8. ASSUME NEW h \in Handlers, PersistCompletion(h) PROVE ScanInv'
    BY <2>2, <2>8 DEF PersistCompletion, Goto, sweepVars, TypeOK,
           JobQueueTypeOK, QueueTypeOK
  <2>9. ASSUME NEW h \in Handlers, HandleScanDeadLetter(h) PROVE ScanInv'
    <3>1. Scanning /\ Sweeping /\ UNCHANGED stale /\ Job(h) \in Jobs
      BY <2>0, <2>9 DEF HandleScanDeadLetter, Goto, sweepVars, TypeOK,
             JobQueueTypeOK, QueueTypeOK
    <3>2. QED
      BY <2>2, <2>3, <2>9, <3>1 DEF HandleScanDeadLetter, DeadLetterTx, Status
  <2>10. ASSUME NEW w \in Workers, NEW j \in Jobs, SweepMarkFailed(w, j) PROVE ScanInv'
    <3>1. Scanning /\ Sweeping /\ UNCHANGED stale /\ stale[j]
      BY <2>10 DEF SweepMarkFailed, SweepPop, queueVars, TypeOK
    <3>2. QED
      BY <2>3, <2>10, <3>1 DEF SweepMarkFailed, Status
  <2>11. ASSUME NEW w \in Workers, NEW j \in Jobs, SweepGiveUp(w, j) PROVE ScanInv'
    <3>1. Scanning /\ Sweeping /\ UNCHANGED stale
      BY <2>11 DEF SweepGiveUp, queueVars
    <3>2. QED
      BY <2>2, <2>3, <2>11, <3>1 DEF SweepGiveUp, DeadLetterTx, Status
  <2>12. QED
    BY <2>1, <2>4, <2>5, <2>7, <2>8, <2>9, <2>10, <2>11, <2>13, StepKinds
<1>3. QED
  BY <1>1, <1>2, TypeCorrect, PTL DEF Spec, ScanInv

-----------------------------------------------------------------------------
(* Findings are stored for completed jobs only, and a job is in dead_letter*)
(* exactly when its failure was announced.                                 *)
THEOREM StatusTellsOutcome == Spec => []OutcomeMatchesStatus
BY OutcomeSafe, PTL

-----------------------------------------------------------------------------
(* Whatever happens, a job that is to be driven on is carried on.          *)
LEMMA CarryInvariant == Spec => []CarryInv
<1>1. Init => CarryInv
  BY CarriedAtFirst DEF Init
<1>2. OutcomeInv /\ CarryInv /\ [Next]_vars => CarryInv'
  <2> SUFFICES ASSUME OutcomeInv, CarryInv, [Next]_vars PROVE CarryInv'
    OBVIOUS
  <2>0. /\ TypeOK /\ JobQueueTypeOK(Phases) /\ status \in [Jobs -> JobState]
        /\ faults \in [FaultKinds -> Nat] /\ Phases \cap {"idle", "done", "error"} = {}
    BY PhasesAreBusy DEF OutcomeInv, TypeOK, JobQueueTypeOK, QueueTypeOK
  <2>dlt. ASSUME NEW j \in Jobs, DeadLetterTx(j), status[j] # NotCreated
          PROVE  /\ status'[j] \in Terminal
                 /\ \/ UNCHANGED status
                    \/ status[j] \in Unfinished /\ SetStatus(j, "dead_letter")
    BY <2>0, <2>dlt, EdgeEnds
       DEF DeadLetterTx, SetStatus, CanTransition, validTransitions, JobState, Status, Terminal
  <2>1. ASSUME NEW j \in Jobs, CreateScanJob(j) \/ PublishEvent(j) \/ PublishEventTwice(j)
                               \/ PublishEventFails(j)
        PROVE  CarryInv'
    BY <2>0, <2>1, PublisherCarries
       DEF CreateScanJob, PublishEvent, PublishEventTwice, PublishEventFails
  <2>2. ASSUME NEW j \in Jobs, BecomeStale(j) PROVE CarryInv'
    BY <2>0, <2>2, TablesCarry DEF BecomeStale
  <2>3. ASSUME NEW h \in Handlers, NEW m \in Messages, DeliverWork(h, m) \/ DeliverDead(h, m)
        PROVE  CarryInv'
    BY <2>0, <2>3, ConsumerCarries DEF DeliverWork, DeliverDead, jobVars, Phases, ScanPhases
  <2>4. ASSUME NEW h \in Handlers, LoadJob(h) \/ ProcessFails(h) PROVE CarryInv'
    BY <2>0, <2>4, HandlerCarries DEF LoadJob, ProcessFails, jobVars, ScanPhases
  <2>5. ASSUME NEW h \in Handlers, DeadLetterFails(h) PROVE CarryInv'
    BY <2>0, <2>5, HandlerCarries DEF DeadLetterFails, DropDeadLetter
  <2>6. ASSUME NEW h \in Handlers, BeginProcessing(h) \/ RecordFailed(h) \/ RecordCompleted(h)
                                    \/ CommitInDoubt(h)
        PROVE  CarryInv'
    <3>1. pc[h] # "idle"
      BY <2>6 DEF BeginProcessing, RecordFailed, RecordCompleted, CommitInDoubt
    <3>2. \/ UNCHANGED status
          \/ \E to \in Status : status[Job(h)] \in Unfinished /\ SetStatus(Job(h), to)
      BY <2>6, EdgeEnds DEF BeginProcessing, RecordFailed, RecordCompleted, Transition, CommitInDoubt
    <3>3. \E phase \in {"scan", "persist", "error"} : Goto(h, phase)
      BY <2>6
         DEF BeginProcessing, RecordFailed, RecordCompleted, Transition, CommitInDoubt
    <3>4. UNCHANGED <<queue, worker, msg, held, requestVars>>
      BY <2>6
         DEF BeginProcessing, RecordFailed, RecordCompleted, Transition, CommitInDoubt
    <3>5. QED
      BY <2>0, <3>1, <3>2, <3>3, <3>4, HandlerCarries
  <2>7. ASSUME NEW h \in Handlers, PersistCompletion(h) PROVE CarryInv'
    <3>1. status[Job(h)] \in Terminal
      BY <2>7 DEF PersistCompletion, OutcomeInv, OneRecorder, Terminal
    <3>2. QED
      BY <2>0, <2>7, <3>1, HandlerCarries DEF PersistCompletion
  <2>8. ASSUME NEW h \in Handlers, HandleScanDeadLetter(h) PROVE CarryInv'
    <3>1. Job(h) \in Jobs /\ DeadLetterTx(Job(h)) /\ status[Job(h)] # NotCreated
      BY <2>0, <2>8, BusyHasJob, BusyIsCreated DEF HandleScanDeadLetter
    <3>2. QED
      BY <2>0, <2>8, <2>dlt, <3>1, HandlerCarries DEF HandleScanDeadLetter, Status
  <2>9. ASSUME NEW h \in Handlers, Consumer(h) PROVE CarryInv'
    BY <2>0, <2>9, ConsumerCarries DEF Consumer, jobVars
  <2>10. ASSUME NEW w \in Workers, SelectStale(w) PROVE CarryInv'
    BY <2>0, <2>10, TablesCarry DEF SelectStale, queueVars, jobVars
  <2>11. ASSUME NEW w \in Workers, NEW j \in Jobs, SweepMarkFailed(w, j) \/ SweepGiveUp(w, j)
         PROVE  CarryInv'
    BY <2>0, <2>11, TablesCarry
       DEF SweepMarkFailed, SweepGiveUp, DeadLetterTx, queueVars
  <2>12. ASSUME NEW w \in Workers, NEW j \in Jobs, SweepSkip(w, j) \/ SweepGiveUpFails(w, j)
         PROVE  CarryInv'
    BY <2>0, <2>12, TablesCarry DEF SweepSkip, SweepGiveUpFails, jobVars
  <2>13. ASSUME NEW w \in Workers, Crash(w) \/ Replica(w) PROVE CarryInv'
    BY <2>0, <2>13, ReplicaCarries DEF Crash, Replica, jobVars
  <2>14. ASSUME UNCHANGED vars PROVE CarryInv'
    BY <2>0, <2>14, TablesCarry DEF vars, queueVars, jobVars
  <2>15. QED
    BY <2>1, <2>2, <2>3, <2>4, <2>5, <2>6, <2>7, <2>8, <2>9, <2>10, <2>11, <2>12, <2>13, <2>14
       DEF Next, ProcessScanJob, Sweep
<1>3. Spec => []OutcomeInv
  BY TypeCorrect, OutcomeSafe, PTL DEF OutcomeInv
<1>4. QED
  BY <1>1, <1>2, <1>3, PTL DEF Spec

(* Whatever fails, an unfinished job has a message or a handler to drive it*)
(* on, unless its dead letter was acknowledged unrecorded or the outbox    *)
(* gave up before any copy of its event got through.                       *)
THEOREM NoJobIsOrphaned == Spec => []NoOrphan
<1>1. TypeOK => outbox \in [Jobs -> {"none", "pending", "published", "failed"}]
  BY DEF TypeOK, JobQueueTypeOK
<1>2. QED
  BY <1>1, TypeCorrect, CarryInvariant, CarriedIsDriven, PTL

-----------------------------------------------------------------------------
(* Faults are counted and nothing that was refused is taken back.          *)
LEMMA RefusalsLast ==
  ASSUME TypeOK, StopsAreCounted, [Next]_vars
  PROVE  /\ \A k \in FaultKinds : faults'[k] \in Nat /\ faults'[k] >= faults[k]
         /\ StopsAreCounted'
         /\ NothingRefused' => NothingRefused
<1> DEFINE Counted == \/ UNCHANGED faults \/ \E k \in FaultKinds : Fault(k)
                      \/ \E w \in Workers : TxFails(w)
           Told == \A w \in Workers :
                     worker'[w] = "stopping" => worker[w] = "stopping" \/ Fault("shutdown")
<1>0. /\ faults \in [FaultKinds -> Nat]
      /\ worker \in [Workers -> {"up", "stopping", "down"}]
  BY DEF TypeOK, JobQueueTypeOK, QueueTypeOK
<1>1. ASSUME NEW j \in Jobs, CreateScanJob(j) \/ PublishEvent(j) \/ PublishEventTwice(j)
                             \/ PublishEventFails(j)
      PROVE  Counted /\ Told
  BY <1>1
     DEF CreateScanJob, CreateJob, PublishEvent, Publish, PublishEventTwice, PublishTwice,
         PublishEventFails, PublishFails, queueVars, FaultKinds
<1>2. ASSUME NEW j \in Jobs, BecomeStale(j) PROVE Counted /\ Told
  BY <1>2 DEF BecomeStale, FaultKinds
<1>3. ASSUME NEW h \in Handlers, NEW m \in Messages, DeliverWork(h, m) \/ DeliverDead(h, m)
      PROVE  Counted /\ Told
  BY <1>3 DEF DeliverWork, DeliverDead, Deliver
<1>4. ASSUME NEW h \in Handlers,
             \/ ProcessScanJob(h) \/ ProcessFails(h) \/ CommitInDoubt(h)
             \/ HandleScanDeadLetter(h) \/ DeadLetterFails(h)
      PROVE  Counted /\ Told
  <2>1. UNCHANGED worker /\ (UNCHANGED faults \/ TxFails(h[1]))
    BY <1>4 DEF ProcessScanJob, LoadJob, BeginProcessing, RecordFailed, RecordCompleted,
                Transition, PersistCompletion, ProcessFails, CommitInDoubt,
                HandleScanDeadLetter, DeadLetterFails, DropDeadLetter
  <2>2. QED
    BY <2>1 DEF Handlers
<1>5. ASSUME NEW h \in Handlers, Consumer(h) PROVE Counted /\ Told
  BY <1>5
     DEF Consumer, ConsumerStep, Ack, RefuseToDlq, Republish, Requeue, RepublishFails,
         FaultKinds
<1>6. ASSUME NEW w \in Workers, Sweep(w) PROVE Counted /\ Told
  BY <1>6
     DEF Sweep, SelectStale, SweepMarkFailed, SweepSkip, SweepGiveUp, SweepGiveUpFails,
         queueVars
<1>7. ASSUME NEW w \in Workers, Crash(w) \/ Replica(w) PROVE Counted /\ Told
  BY <1>0, <1>7
     DEF Crash, WorkerCrash, Replica, Shutdown, WorkerExit, Restart, ChannelLost, FaultKinds
<1>8. ASSUME UNCHANGED vars PROVE Counted /\ Told
  BY <1>8 DEF vars, queueVars
<1>9. Counted /\ Told
  BY <1>1, <1>2, <1>3, <1>4, <1>5, <1>6, <1>7, <1>8 DEF Next
<1>10. QED
  BY <1>0, <1>9, RefusalLasts

LEMMA StopsInvariant == Spec => []StopsAreCounted
<1>1. Init => StopsAreCounted
  BY DEF Init, JobQueueInit, QueueInit, StopsAreCounted
<1>2. QED
  BY <1>1, RefusalsLast, TypeCorrect, PTL DEF Spec

(* The completion of a job that nothing was refused to is stored, or the   *)
(* handler that will store it is there.                                    *)
Follows(j) == persisted[j] = 1 \/ \E h \in Handlers : pc[h] = "persist" /\ Job(h) = j

(* No transaction of a completed job is refused and no replica dies:       *)
(* then its findings are stored or about to be.                            *)
THEOREM FindingsFollow == Spec => []CompletionFollows
<1>1. Init => CompletionFollows
  BY DEF Init, JobQueueInit, CompletionFollows, NotCreated
<1>2. OutcomeInv /\ StopsAreCounted /\ CompletionFollows /\ [Next]_vars
        => CompletionFollows'
  <2> SUFFICES ASSUME OutcomeInv, StopsAreCounted, CompletionFollows, [Next]_vars,
                      NEW j \in Jobs,
                      status'[j] = "completed", NothingRefused', faults'["crash"] = 0
               PROVE  Follows(j)'
    BY DEF CompletionFollows, Follows
  <2>0. /\ TypeOK /\ JobQueueTypeOK(Phases) /\ status \in [Jobs -> JobState]
        /\ persisted \in [Jobs -> Nat] /\ faults \in [FaultKinds -> Nat]
        /\ pc \in [Handlers -> {"idle", "done", "error"} \cup Phases]
        /\ \A h \in Handlers : pc[h] # "idle" => Job(h) \in Jobs
    BY BusyHasJob DEF OutcomeInv, TypeOK, JobQueueTypeOK, QueueTypeOK
  <2>r. \A w \in Workers : ~TxFails(w)
    BY <2>0, TxFailsRefuses
  <2>c. \A w \in Workers : ~Crash(w)
    <3>1. ASSUME NEW w \in Workers, Crash(w) PROVE FALSE
      BY <2>0, <3>1, FaultCounted DEF Crash, WorkerCrash, FaultKinds
    <3>2. QED
      BY <3>1
  <2>f. status[j] = "completed" => Follows(j)
    <3>1. /\ faults["crash"] \in Nat /\ faults'["crash"] >= faults["crash"]
          /\ NothingRefused
      BY <2>0, RefusalsLast DEF FaultKinds
    <3>2. QED
      BY <3>1 DEF CompletionFollows, Follows
  (* Whoever is about to store stays there, and what is stored stays.      *)
  <2> DEFINE Stays == /\ persisted'[j] = persisted[j]
                      /\ \A h \in Handlers : pc[h] = "persist" => pc'[h] = "persist" /\ msg'[h] = msg[h]
  <2>s. Stays /\ status[j] = "completed" => Follows(j)'
    BY <2>f DEF Follows, Job
  <2>1. ASSUME NEW i \in Jobs, CreateScanJob(i) \/ PublishEvent(i) \/ PublishEventTwice(i)
                               \/ PublishEventFails(i) \/ BecomeStale(i)
        PROVE  Follows(j)'
    <3>1. status[j] = "completed" /\ Stays
      BY <2>0, <2>1
         DEF CreateScanJob, CreateJob, SetStatus, PublishEvent, Publish, PublishEventTwice,
             PublishTwice, PublishEventFails, PublishFails, BecomeStale, queueVars, jobVars
    <3>2. QED
      BY <2>s, <3>1
  <2>2. ASSUME NEW h \in Handlers, NEW m \in Messages, DeliverWork(h, m) \/ DeliverDead(h, m)
        PROVE  Follows(j)'
    <3>1. status[j] = "completed" /\ persisted'[j] = persisted[j]
      BY <2>2 DEF DeliverWork, DeliverDead, jobVars
    <3>2. \A g \in Handlers : pc[g] = "persist" => pc'[g] = "persist" /\ msg'[g] = msg[g]
      BY <2>0, <2>2 DEF DeliverWork, DeliverDead, Deliver, Goto, TypeOK, JobQueueTypeOK,
             QueueTypeOK
    <3>3. QED
      BY <2>s, <3>1, <3>2
  <2>3. ASSUME NEW h \in Handlers, LoadJob(h) \/ BeginProcessing(h) \/ RecordFailed(h)
                                   \/ HandleScanDeadLetter(h)
        PROVE  Follows(j)'
    <3>1. Job(h) \in Jobs /\ pc[h] # "persist" /\ UNCHANGED <<persisted, msg>>
          /\ \E phase : Goto(h, phase)
      BY <2>0, <2>3
         DEF LoadJob, BeginProcessing, RecordFailed, HandleScanDeadLetter, Transition, jobVars
    <3>2. Stays
      BY <2>0, <3>1 DEF Goto
    <3>3. status[j] = "completed"
      BY <2>0, <2>3, <3>1
         DEF LoadJob, BeginProcessing, RecordFailed, HandleScanDeadLetter, Transition, jobVars,
             DeadLetterTx, SetStatus
    <3>4. QED
      BY <2>s, <3>2, <3>3
  <2>4. ASSUME NEW h \in Handlers, RecordCompleted(h) PROVE Follows(j)'
    <3>1. Job(h) \in Jobs /\ pc[h] = "scan" /\ UNCHANGED <<persisted, msg>>
          /\ \E phase : Goto(h, phase)
      BY <2>0, <2>4 DEF RecordCompleted, Transition
    <3>2. Stays
      BY <2>0, <3>1 DEF Goto
    <3>3. CASE status[j] = "completed"
      BY <2>s, <3>2, <3>3
    <3>4. CASE status[j] # "completed"
      <4>1. Job(h) = j /\ Goto(h, "persist")
        BY <2>0, <2>4, <3>1, <3>4 DEF RecordCompleted, Transition, SetStatus
      <4>2. QED
        BY <2>0, <3>1, <4>1 DEF Goto, Follows, Job
    <3>5. QED
      BY <3>3, <3>4
  <2>5. ASSUME NEW h \in Handlers, PersistCompletion(h) PROVE Follows(j)'
    <3>1. /\ Job(h) \in Jobs /\ pc[h] = "persist" /\ Goto(h, "done") /\ UNCHANGED <<status, msg>>
          /\ persisted' = [persisted EXCEPT ![Job(h)] = @ + 1] /\ persisted[Job(h)] = 0
      BY <2>0, <2>5 DEF PersistCompletion, OutcomeInv, OneRecorder
    <3>2. CASE Job(h) = j
      BY <2>0, <3>1, <3>2 DEF Follows
    <3>3. CASE Job(h) # j
      BY <2>0, <2>f, <3>1, <3>3 DEF Follows, Job, Goto
    <3>4. QED
      BY <3>2, <3>3
  <2>6. ASSUME NEW h \in Handlers, ProcessFails(h) \/ CommitInDoubt(h) \/ DeadLetterFails(h)
        PROVE  FALSE
    BY <2>6, <2>r DEF ProcessFails, CommitInDoubt, DeadLetterFails, DropDeadLetter, Handlers
  <2>7. ASSUME NEW h \in Handlers, Consumer(h) PROVE Follows(j)'
    <3>1. pc[h] \in {"done", "error"} /\ UNCHANGED <<status, persisted>>
      BY <2>7
         DEF Consumer, ConsumerStep, Ack, RefuseToDlq, Republish, Requeue, RepublishFails,
             jobVars
    <3>2. \A g \in Handlers \ {h} : pc'[g] = pc[g] /\ msg'[g] = msg[g]
      BY <2>0, <2>7
         DEF Consumer, ConsumerStep, Ack, RefuseToDlq, Republish, Requeue, RepublishFails,
             Release, Goto, TypeOK, JobQueueTypeOK, QueueTypeOK
    <3>3. Stays /\ status[j] = "completed"
      BY <3>1, <3>2
    <3>4. QED
      BY <2>s, <3>3
  <2>8. ASSUME NEW w \in Workers, Sweep(w) PROVE Follows(j)'
    <3>1. UNCHANGED <<persisted, pc, msg>>
      BY <2>8
         DEF Sweep, SelectStale, SweepMarkFailed, SweepSkip, SweepGiveUp, SweepGiveUpFails,
             queueVars, jobVars
    <3>2. status[j] = "completed"
      BY <2>0, <2>8
         DEF Sweep, SelectStale, SweepMarkFailed, SweepSkip, SweepGiveUp, SweepGiveUpFails,
             DeadLetterTx, SetStatus, jobVars
    <3>3. QED
      BY <2>s, <3>1, <3>2
  <2>9. ASSUME NEW w \in Workers, Replica(w) PROVE Follows(j)'
    <3>1. UNCHANGED <<status, persisted, pc, msg>>
      BY <2>9 DEF Replica, Shutdown, WorkerExit, Restart, ChannelLost, jobVars
    <3>2. QED
      BY <2>s, <3>1
  <2>10. CASE UNCHANGED vars
    <3>1. UNCHANGED <<status, persisted, pc, msg>>
      BY <2>10 DEF vars, queueVars, jobVars
    <3>2. QED
      BY <2>s, <3>1
  <2>11. QED
    BY <2>1, <2>2, <2>3, <2>4, <2>5, <2>6, <2>7, <2>8, <2>9, <2>10, <2>c
       DEF Next, ProcessScanJob
<1>3. Spec => [](OutcomeInv /\ StopsAreCounted)
  BY TypeCorrect, OutcomeSafe, StopsInvariant, PTL DEF OutcomeInv
<1>4. QED
  BY <1>1, <1>2, <1>3, PTL DEF Spec
=============================================================================
