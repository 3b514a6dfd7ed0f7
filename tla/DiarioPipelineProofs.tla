------------------------ MODULE DiarioPipelineProofs ------------------------
(***************************************************************************)
(* Proofs about DiarioPipeline for any sets of jobs, replicas and slots,   *)
(* any retry limit and any fault budget.                                   *)
(***************************************************************************)
EXTENDS DiarioPipeline, JobQueueProofs

LEMMA PhasesAreBusy == Phases \cap {"idle", "done", "error"} = {}
BY DEF Phases, JobPhases

(* A handler that is not idle works on a job.                              *)
LEMMA BusyHasJob ==
  ASSUME TypeOK, NEW h \in Handlers, pc[h] # "idle"
  PROVE  Job(h) \in Jobs
BY BusyHasMessage, TypeParts DEF TypeOK

-----------------------------------------------------------------------------
(* What a step of a handler is made of: it goes on to another phase, a     *)
(* transaction of its own fails or none does, and the job changes its      *)
(* status along edges or not at all.                                       *)
Moves(h, phase) ==
  /\ pc[h] # "idle" /\ Goto(h, phase)
  /\ UNCHANGED <<queue, worker, msg, held>>
  /\ UNCHANGED requestVars \/ DropDeadLetter(h)
  /\ UNCHANGED faults \/ TxFails(h[1])

Acts(h) ==
  \/ ProcessJob(h) \/ ProcessFails(h) \/ CommitInDoubt(h)
  \/ HandleDeadLetter(h) \/ DeadLetterFails(h)

LEMMA HandlerSteps ==
  ASSUME TypeOK, NEW h \in Handlers, Acts(h)
  PROVE  /\ Job(h) \in Jobs
         /\ \E phase \in {"done", "error"} \cup Phases : Moves(h, phase)
         /\ \/ UNCHANGED status
            \/ \E to \in {"failed", "completed"} : CanRecord(Job(h), to) /\ SetStatus(Job(h), to)
            \/ CanTransition(status[Job(h)], "dead_letter") /\ SetStatus(Job(h), "dead_letter")
<1>1. pc[h] # "idle"
  BY DEF Acts, ProcessJob, LoadJob, Check, RecordFailed, RecordCompleted, AnnounceCompletion,
         ProcessFails, CommitInDoubt, HandleDeadLetter, DeadLetterFails,
         DropDeadLetter, JobPhases
<1>2. UNCHANGED faults \/ TxFails(h[1])
  BY DEF Acts, ProcessJob, LoadJob, Check, RecordFailed, RecordCompleted, RecordOutcome,
         AnnounceCompletion, ProcessFails, CommitInDoubt, HandleDeadLetter, DeadLetterFails,
         DropDeadLetter
<1>3. /\ \E phase \in {"done", "error"} \cup Phases : Goto(h, phase)
      /\ UNCHANGED <<queue, worker, msg, held>>
      /\ UNCHANGED requestVars \/ DropDeadLetter(h)
  BY DEF Acts, ProcessJob, LoadJob, Check, RecordFailed, RecordCompleted, RecordOutcome,
         AnnounceCompletion, ProcessFails, CommitInDoubt, HandleDeadLetter, DeadLetterFails,
         DropDeadLetter, Proceed, Phases, JobPhases
<1>4. \/ UNCHANGED status
      \/ \E to \in {"failed", "completed"} : CanRecord(Job(h), to) /\ SetStatus(Job(h), to)
      \/ CanTransition(status[Job(h)], "dead_letter") /\ SetStatus(Job(h), "dead_letter")
  BY DEF Acts, ProcessJob, LoadJob, Check, RecordFailed, RecordCompleted, RecordOutcome,
         AnnounceCompletion, ProcessFails, CommitInDoubt, HandleDeadLetter, DeadLetterFails,
         DropDeadLetter, DeadLetterTx
<1>5. QED
  BY <1>1, <1>2, <1>3, <1>4, BusyHasJob DEF Moves

-----------------------------------------------------------------------------
EventsOK ==
  /\ completedEvents \in [Jobs -> Nat]
  /\ failedEvents \in [Jobs -> Nat]
  /\ integration \in IntegrationStatus
  /\ announced \in IntegrationStatus

(* Type correctness: every action of the pipeline, faults included, leaves *)
(* tables, broker and goroutines in states they can have.                  *)
THEOREM TypeCorrect == Spec => []TypeOK
<1>a. (TypeOK <=> JobQueueTypeOK(Phases) /\ EventsOK)
      /\ (TypeOK' <=> JobQueueTypeOK(Phases)' /\ EventsOK')
  BY DEF TypeOK, EventsOK
<1>1. Init => TypeOK
  BY TypedAtFirst DEF Init, TypeOK, IntegrationStatus
<1>2. TypeOK /\ [Next]_vars => TypeOK'
  <2> SUFFICES ASSUME TypeOK, JobQueueTypeOK(Phases), EventsOK, [Next]_vars
               PROVE  JobQueueTypeOK(Phases)' /\ EventsOK'
    BY <1>a
  <2> DEFINE Good == JobQueueTypeOK(Phases)' /\ EventsOK'
  <2>0. "idle" \notin Phases
    BY PhasesAreBusy
  <2>e. UNCHANGED <<eventVars, integrationVars>> => EventsOK'
    BY DEF EventsOK, eventVars, integrationVars
  <2>1. ASSUME NEW j \in Jobs, CreateTestJob(j) \/ PublishEvent(j) \/ PublishEventTwice(j)
                               \/ PublishEventFails(j)
        PROVE  Good
    BY <2>1, <2>e, PublisherTyped
       DEF CreateTestJob, PublishEvent, PublishEventTwice, PublishEventFails
  <2>2. ASSUME NEW h \in Handlers, NEW m \in Messages, DeliverWork(h, m) \/ DeliverDead(h, m)
        PROVE  Good
    BY <2>0, <2>2, <2>e, ConsumerTyped DEF DeliverWork, DeliverDead, Phases, JobPhases
  <2>3. ASSUME NEW h \in Handlers, Acts(h) PROVE Good
    <3>1. PICK phase \in {"done", "error"} \cup Phases : Moves(h, phase)
      BY <2>3, HandlerSteps
    <3>2. Job(h) \in Jobs /\ (UNCHANGED status \/ \E to \in Status : SetStatus(Job(h), to))
      BY <2>3, HandlerSteps DEF Status
    <3>3. JobQueueTypeOK(Phases)'
      BY <2>0, <3>1, <3>2, HandlerTyped DEF Moves
    <3>4. EventsOK'
      BY <2>3, <3>2
         DEF Acts, ProcessJob, LoadJob, Check, RecordFailed, RecordCompleted, RecordOutcome,
             AnnounceCompletion, ProcessFails, CommitInDoubt, HandleDeadLetter, DeadLetterFails,
             DeadLetterTx, CompletionTx, RecordCheckResult, EventsOK, IntegrationStatus,
             eventVars, integrationVars
    <3>5. QED
      BY <3>3, <3>4
  <2>4. ASSUME NEW h \in Handlers, Consumer(h) PROVE Good
    BY <2>0, <2>4, <2>e, ConsumerTyped DEF Consumer
  <2>5. ASSUME NEW w \in Workers, Replica(w) PROVE Good
    BY <2>5, <2>e, ReplicaTyped DEF Replica
  <2>6. CASE UNCHANGED vars
    <3>1. status' \in [Jobs -> JobState] /\ faults' \in [FaultKinds -> Nat]
      BY <2>6 DEF vars, queueVars, JobQueueTypeOK, QueueTypeOK
    <3>2. QED
      BY <2>6, <2>e, <3>1, TablesTyped DEF vars, queueVars
  <2>7. QED
    BY <2>1, <2>2, <2>3, <2>4, <2>5, <2>6 DEF Next, Acts
<1>3. QED
  BY <1>1, <1>2, PTL DEF Spec

-----------------------------------------------------------------------------
(* The handlers on their way to announcing a success, and the steps by what*)
(* they do to the outcome of a job.                                        *)
NoNewAnnouncer(hs) ==
  \A g \in Handlers \ hs : pc'[g] = "announce" => pc[g] = "announce" /\ msg'[g] = msg[g]

OutcomeStays == UNCHANGED <<status, eventVars, integrationVars>>

Quiet == OutcomeStays /\ NoNewAnnouncer({})

Records(h, to) ==
  /\ CanRecord(Job(h), to) /\ SetStatus(Job(h), to)
  /\ UNCHANGED <<msg, eventVars, integrationVars>>
  /\ NoNewAnnouncer({h})
  /\ pc[h] # "announce" /\ (pc'[h] = "announce" => to = "completed")

Announces(h) ==
  /\ pc[h] = "announce" /\ pc'[h] # "announce" /\ NoNewAnnouncer({})
  /\ CompletionTx(Job(h)) /\ UNCHANGED status

GivesUp(h) ==
  /\ NoNewAnnouncer({})
  /\ CanTransition(status[Job(h)], "dead_letter")
  /\ SetStatus(Job(h), "dead_letter")
  /\ failedEvents' = [failedEvents EXCEPT ![Job(h)] = @ + 1]
  /\ RecordCheckResult("offline")
  /\ UNCHANGED completedEvents

LEMMA StepKinds ==
  ASSUME TypeOK, [Next]_vars
  PROVE  \/ Quiet
         \/ \E j \in Jobs : CreateTestJob(j)
         \/ \E h \in Handlers :
               /\ Job(h) \in Jobs
               /\ \/ \E to \in {"failed", "completed"} : Records(h, to)
                  \/ Announces(h) \/ GivesUp(h)
<1> DEFINE Kinds(h) == \/ Quiet
                       \/ \E to \in {"failed", "completed"} : Records(h, to)
                       \/ Announces(h) \/ GivesUp(h)
<1>0. /\ pc \in [Handlers -> {"idle", "done", "error"} \cup Phases]
      /\ msg \in [Handlers -> Messages \cup {NoMessage}]
  BY DEF TypeOK, JobQueueTypeOK, QueueTypeOK
<1>g. ASSUME NEW h \in Handlers, NEW phase, Goto(h, phase)
      PROVE  pc'[h] = phase /\ \A g \in Handlers \ {h} : pc'[g] = pc[g]
  BY <1>0, <1>g DEF Goto
<1>1. ASSUME NEW j \in Jobs, PublishEvent(j) \/ PublishEventTwice(j) \/ PublishEventFails(j)
      PROVE  Quiet
  BY <1>1
     DEF PublishEvent, Publish, PublishEventTwice, PublishTwice, PublishEventFails,
         PublishFails, Quiet, OutcomeStays, NoNewAnnouncer
<1>2. ASSUME NEW h \in Handlers, NEW m \in Messages, DeliverWork(h, m) \/ DeliverDead(h, m)
      PROVE  Quiet
  BY <1>0, <1>2 DEF DeliverWork, DeliverDead, Deliver, Goto, Quiet, OutcomeStays, NoNewAnnouncer
<1>3. ASSUME NEW h \in Handlers, LoadJob(h) \/ Check(h) \/ ProcessFails(h) \/ DeadLetterFails(h)
      PROVE  Quiet
  BY <1>g, <1>3
     DEF LoadJob, Check, ProcessFails, DeadLetterFails, DropDeadLetter, Proceed, Quiet,
         OutcomeStays, NoNewAnnouncer
<1>4. ASSUME NEW h \in Handlers, RecordFailed(h) \/ RecordCompleted(h) PROVE Kinds(h)
  <2>1. PICK to \in {"failed", "completed"} :
          /\ RecordOutcome(h, to, IF to = "failed" THEN "error" ELSE "announce")
          /\ pc[h] # "announce"
    BY <1>4 DEF RecordFailed, RecordCompleted
  <2>2. CASE CanRecord(Job(h), to)
    BY <1>g, <2>1, <2>2 DEF RecordOutcome, Proceed, Records, NoNewAnnouncer
  <2>3. CASE ~CanRecord(Job(h), to)
    BY <1>g, <2>1, <2>3 DEF RecordOutcome, Proceed, Quiet, OutcomeStays, NoNewAnnouncer
  <2>4. QED
    BY <2>2, <2>3
<1>5. ASSUME NEW h \in Handlers, AnnounceCompletion(h) PROVE Announces(h)
  BY <1>g, <1>5 DEF AnnounceCompletion, Proceed, Announces, NoNewAnnouncer
<1>6. ASSUME NEW h \in Handlers, CommitInDoubt(h) PROVE Kinds(h)
  <2>1. pc'[h] = "error" /\ UNCHANGED msg /\ \A g \in Handlers \ {h} : pc'[g] = pc[g]
    BY <1>g, <1>6 DEF CommitInDoubt, Proceed
  <2>2. ASSUME NEW to \in {"failed", "completed"},
               pc[h] = IF to = "failed" THEN "failing" ELSE "completing",
               CanRecord(Job(h), to), SetStatus(Job(h), to),
               UNCHANGED <<eventVars, integrationVars>>
        PROVE  Records(h, to)
    BY <2>1, <2>2 DEF Records, NoNewAnnouncer
  <2>3. ASSUME pc[h] = "announce", CompletionTx(Job(h)), UNCHANGED status PROVE Announces(h)
    BY <2>1, <2>3 DEF Announces, NoNewAnnouncer
  <2>4. QED
    BY <1>6, <2>2, <2>3 DEF CommitInDoubt
<1>7. ASSUME NEW h \in Handlers, HandleDeadLetter(h) PROVE Kinds(h)
  BY <1>g, <1>7
     DEF HandleDeadLetter, DeadLetterTx, Proceed, GivesUp, Quiet, OutcomeStays, NoNewAnnouncer
<1>8. ASSUME NEW h \in Handlers, Consumer(h) PROVE Quiet
  BY <1>0, <1>8
     DEF Consumer, ConsumerStep, Ack, RefuseToDlq, Republish, Requeue, RepublishFails,
         Release, Goto, Quiet, OutcomeStays, NoNewAnnouncer
<1>9. ASSUME NEW w \in Workers, Replica(w) PROVE Quiet
  BY <1>0, <1>9
     DEF Replica, WorkerCrash, Shutdown, WorkerExit, Restart, ChannelLost, Quiet, OutcomeStays,
         NoNewAnnouncer
<1>10. CASE UNCHANGED vars
  BY <1>10 DEF vars, queueVars, Quiet, OutcomeStays, NoNewAnnouncer
<1>11. \A h \in Handlers : Acts(h) => Job(h) \in Jobs
  BY HandlerSteps
<1>12. QED
  BY <1>1, <1>2, <1>3, <1>4, <1>5, <1>6, <1>7, <1>8, <1>9, <1>10, <1>11
     DEF Next, Acts, ProcessJob

-----------------------------------------------------------------------------
(* A success is announced once and only for a completed job, and a job is  *)
(* in dead_letter exactly when its failure was announced.                  *)
OutcomeOnce ==
  \A j \in Jobs : /\ completedEvents[j] <= 1
                  /\ completedEvents[j] > 0 => status[j] = "completed"
                  /\ status[j] = "dead_letter" <=> failedEvents[j] > 0

(* At most one handler is on its way to announcing the success of a job,   *)
(* the job is completed and nothing was announced yet.                     *)
OneAnnouncer ==
  \A h \in Handlers : pc[h] = "announce" =>
     /\ status[Job(h)] = "completed"
     /\ completedEvents[Job(h)] = 0
     /\ \A g \in Handlers : pc[g] = "announce" /\ Job(g) = Job(h) => g = h

OutcomeInv == TypeOK /\ OutcomeOnce /\ OneAnnouncer

LEMMA OutcomeInvariant == Spec => []OutcomeInv
<1>1. Init /\ TypeOK => OutcomeInv
  BY DEF Init, JobQueueInit, QueueInit, OutcomeInv, OutcomeOnce, OneAnnouncer, NotCreated
<1>2. OutcomeInv /\ TypeOK' /\ [Next]_vars => OutcomeInv'
  <2> SUFFICES ASSUME OutcomeInv, TypeOK', [Next]_vars PROVE OutcomeOnce' /\ OneAnnouncer'
    BY DEF OutcomeInv
  <2>0. /\ TypeOK /\ OutcomeOnce /\ OneAnnouncer
        /\ status \in [Jobs -> JobState]
        /\ completedEvents \in [Jobs -> Nat] /\ failedEvents \in [Jobs -> Nat]
        /\ \A h \in Handlers : pc[h] # "idle" => Job(h) \in Jobs
    BY BusyHasJob DEF OutcomeInv, TypeOK, JobQueueTypeOK
  <2>1. CASE Quiet
    BY <2>0, <2>1
       DEF Quiet, OutcomeStays, NoNewAnnouncer, OutcomeOnce, OneAnnouncer, eventVars, Job
  <2>2. ASSUME NEW j \in Jobs, CreateTestJob(j) PROVE OutcomeOnce' /\ OneAnnouncer'
    BY <2>0, <2>2
       DEF CreateTestJob, CreateJob, SetStatus, OutcomeOnce, OneAnnouncer, eventVars, queueVars,
           Job, NotCreated
  (* The status of an unfinished job changes and nothing is announced.     *)
  <2>3. ASSUME NEW h \in Handlers, Job(h) \in Jobs, NEW to \in {"failed", "completed"},
               Records(h, to)
        PROVE  OutcomeOnce' /\ OneAnnouncer'
    <3>1. status[Job(h)] \in Unfinished
      BY <2>3, EdgeEnds DEF Records, CanRecord
    <3>2. completedEvents[Job(h)] = 0 /\ failedEvents[Job(h)] = 0
      BY <2>0, <2>3, <3>1 DEF OutcomeOnce, Unfinished, Terminal
    <3>3. \A g \in Handlers : pc[g] = "announce" => Job(g) # Job(h)
      BY <2>0, <3>1 DEF OneAnnouncer, Unfinished, Terminal
    <3>4. OutcomeOnce'
      BY <2>0, <2>3, <3>2 DEF Records, SetStatus, OutcomeOnce, eventVars
    <3>5. OneAnnouncer'
      BY <2>0, <2>3, <3>2, <3>3
         DEF Records, SetStatus, OneAnnouncer, NoNewAnnouncer, eventVars, Job
    <3>6. QED
      BY <3>4, <3>5
  <2>4. ASSUME NEW h \in Handlers, Job(h) \in Jobs, Announces(h)
        PROVE  OutcomeOnce' /\ OneAnnouncer'
    <3>1. status[Job(h)] = "completed" /\ completedEvents[Job(h)] = 0
      BY <2>0, <2>4 DEF Announces, OneAnnouncer
    <3>2. OutcomeOnce'
      BY <2>0, <2>4, <3>1 DEF Announces, CompletionTx, OutcomeOnce
    <3>3. OneAnnouncer'
      BY <2>0, <2>4 DEF Announces, CompletionTx, OneAnnouncer, NoNewAnnouncer, Job
    <3>4. QED
      BY <3>2, <3>3
  <2>5. ASSUME NEW h \in Handlers, Job(h) \in Jobs, GivesUp(h)
        PROVE  OutcomeOnce' /\ OneAnnouncer'
    <3>1. status[Job(h)] \in Unfinished
      BY <2>5, EdgeEnds DEF GivesUp
    <3>2. completedEvents[Job(h)] = 0 /\ failedEvents[Job(h)] = 0
      BY <2>0, <2>5, <3>1 DEF OutcomeOnce, Unfinished, Terminal
    <3>3. \A g \in Handlers : pc[g] = "announce" => Job(g) # Job(h)
      BY <2>0, <3>1 DEF OneAnnouncer, Unfinished, Terminal
    <3>4. OutcomeOnce'
      BY <2>0, <2>5, <3>2 DEF GivesUp, SetStatus, OutcomeOnce
    <3>5. OneAnnouncer'
      BY <2>0, <2>5, <3>3 DEF GivesUp, SetStatus, OneAnnouncer, NoNewAnnouncer, Job
    <3>6. QED
      BY <3>4, <3>5
  <2>6. QED
    BY <2>0, <2>1, <2>2, <2>3, <2>4, <2>5, StepKinds
<1>3. QED
  BY <1>1, <1>2, TypeCorrect, PTL DEF Spec, OutcomeInv

-----------------------------------------------------------------------------
(* The status of the integration is one that a finished job gave it with   *)
(* its own event, no finished job left it unset, and the last event about  *)
(* the integration names its status.                                       *)
THEOREM IntegrationIsTold == Spec => []IntegrationTellsOutcome
<1>1. Init => IntegrationTellsOutcome
  BY DEF Init, JobQueueInit, IntegrationTellsOutcome, NotCreated
<1>2. TypeOK /\ IntegrationTellsOutcome /\ [Next]_vars => IntegrationTellsOutcome'
  <2> SUFFICES ASSUME TypeOK, IntegrationTellsOutcome, [Next]_vars
               PROVE  IntegrationTellsOutcome'
    OBVIOUS
  <2>0. /\ status \in [Jobs -> JobState]
        /\ completedEvents \in [Jobs -> Nat] /\ failedEvents \in [Jobs -> Nat]
    BY DEF TypeOK, JobQueueTypeOK
  <2>1. CASE Quiet
    BY <2>1 DEF Quiet, OutcomeStays, IntegrationTellsOutcome, eventVars, integrationVars
  <2>2. ASSUME NEW j \in Jobs, CreateTestJob(j) PROVE IntegrationTellsOutcome'
    BY <2>0, <2>2
       DEF CreateTestJob, CreateJob, SetStatus, IntegrationTellsOutcome, eventVars,
           integrationVars
  <2>3. ASSUME NEW h \in Handlers, Job(h) \in Jobs, NEW to \in {"failed", "completed"},
               Records(h, to)
        PROVE  IntegrationTellsOutcome'
    BY <2>0, <2>3
       DEF Records, SetStatus, IntegrationTellsOutcome, eventVars, integrationVars
  <2>4. ASSUME NEW h \in Handlers, Job(h) \in Jobs, Announces(h) PROVE IntegrationTellsOutcome'
    <3>1. integration' = "online" /\ announced' = "online"
      BY <2>4 DEF Announces, CompletionTx, RecordCheckResult, IntegrationTellsOutcome
    <3>2. completedEvents'[Job(h)] > 0
      BY <2>0, <2>4 DEF Announces, CompletionTx
    <3>3. QED
      BY <2>4, <3>1, <3>2 DEF IntegrationTellsOutcome
  <2>5. ASSUME NEW h \in Handlers, Job(h) \in Jobs, GivesUp(h) PROVE IntegrationTellsOutcome'
    <3>1. integration' = "offline" /\ announced' = "offline"
      BY <2>5 DEF GivesUp, RecordCheckResult, IntegrationTellsOutcome
    <3>2. failedEvents'[Job(h)] > 0
      BY <2>0, <2>5 DEF GivesUp
    <3>3. QED
      BY <2>5, <3>1, <3>2 DEF IntegrationTellsOutcome
  <2>6. QED
    BY <2>1, <2>2, <2>3, <2>4, <2>5, StepKinds
<1>3. QED
  BY <1>1, <1>2, TypeCorrect, PTL DEF Spec

-----------------------------------------------------------------------------
(* ProcessJob and HandleDeadLetter implement JobLifecycle: an attempt is   *)
(* recorded as a whole, its success is announced in a step of its own, and *)
(* giving up and announcing it are one.                                    *)
THEOREM PipelineImplementsLifecycle == Spec => LifecycleSpec
<1>1. Init => Lifecycle!Init
  BY DEF Init, JobQueueInit, NotCreated, Lifecycle!Init, Lifecycle!NotCreated
<1>2. OutcomeInv /\ [Next]_vars => [Lifecycle!Next]_(Lifecycle!vars)
  <2> SUFFICES ASSUME OutcomeInv, [Next]_vars
               PROVE  Lifecycle!Next \/ UNCHANGED <<status, completedEvents, failedEvents>>
    BY DEF Lifecycle!vars
  <2>0. TypeOK /\ OutcomeOnce /\ OneAnnouncer
        /\ completedEvents \in [Jobs -> Nat]
    BY DEF OutcomeInv, TypeOK
  <2>1. CASE Quiet
    BY <2>1 DEF Quiet, OutcomeStays, eventVars
  <2>2. ASSUME NEW j \in Jobs, CreateTestJob(j) PROVE Lifecycle!Create(j)
    BY <2>2
       DEF CreateTestJob, CreateJob, SetStatus, NotCreated, eventVars, Lifecycle!Create,
           Lifecycle!Move, Lifecycle!NotCreated
  <2>3. ASSUME NEW h \in Handlers, NEW to \in {"failed", "completed"}, Records(h, to)
        PROVE  Lifecycle!RunAttempt(Job(h))
    BY <2>3
       DEF Records, CanRecord, SetStatus, eventVars, CanTransition, validTransitions,
           Lifecycle!RunAttempt, Lifecycle!Move, Lifecycle!CanTransition,
           Lifecycle!validTransitions
  <2>4. ASSUME NEW h \in Handlers, Job(h) \in Jobs, Announces(h)
        PROVE  Lifecycle!PublishOutcome(Job(h))
    <3>1. status[Job(h)] = "completed" /\ completedEvents[Job(h)] = 0
      BY <2>0, <2>4 DEF Announces, OneAnnouncer
    <3>2. QED
      BY <2>0, <2>4, <3>1 DEF Announces, CompletionTx, Lifecycle!PublishOutcome
  <2>5. ASSUME NEW h \in Handlers, GivesUp(h) PROVE Lifecycle!GiveUp(Job(h))
    BY <2>5
       DEF GivesUp, SetStatus, CanTransition, validTransitions, Lifecycle!GiveUp,
           Lifecycle!Move, Lifecycle!CanTransition, Lifecycle!validTransitions
  <2>6. QED
    BY <2>0, <2>1, <2>2, <2>3, <2>4, <2>5, StepKinds DEF Lifecycle!Next
<1>3. QED
  BY <1>1, <1>2, OutcomeInvariant, PTL DEF Spec, LifecycleSpec, Lifecycle!Spec

-----------------------------------------------------------------------------
(* As for scans: an unfinished job is carried on, unless it was lost with  *)
(* its dead letter or with its request.                                    *)
LEMMA CarryInvariant == Spec => []CarryInv
<1>1. Init => CarryInv
  BY CarriedAtFirst DEF Init
<1>2. OutcomeInv /\ CarryInv /\ [Next]_vars => CarryInv'
  <2> SUFFICES ASSUME OutcomeInv, CarryInv, [Next]_vars PROVE CarryInv'
    OBVIOUS
  <2>0. /\ TypeOK /\ JobQueueTypeOK(Phases) /\ status \in [Jobs -> JobState]
        /\ faults \in [FaultKinds -> Nat] /\ Phases \cap {"idle", "done", "error"} = {}
    BY PhasesAreBusy DEF OutcomeInv, TypeOK, JobQueueTypeOK, QueueTypeOK
  <2>1. ASSUME NEW j \in Jobs, CreateTestJob(j) \/ PublishEvent(j) \/ PublishEventTwice(j)
                               \/ PublishEventFails(j)
        PROVE  CarryInv'
    BY <2>0, <2>1, PublisherCarries
       DEF CreateTestJob, PublishEvent, PublishEventTwice, PublishEventFails
  <2>2. ASSUME NEW h \in Handlers, NEW m \in Messages, DeliverWork(h, m) \/ DeliverDead(h, m)
        PROVE  CarryInv'
    BY <2>0, <2>2, ConsumerCarries DEF DeliverWork, DeliverDead, Phases, JobPhases
  <2>3. ASSUME NEW h \in Handlers, Acts(h) PROVE CarryInv'
    <3>1. PICK phase \in {"done", "error"} \cup Phases : Moves(h, phase)
      BY <2>0, <2>3, HandlerSteps
    <3>2. \/ UNCHANGED status
          \/ \E to \in Status : status[Job(h)] \in Unfinished /\ SetStatus(Job(h), to)
      BY <2>0, <2>3, HandlerSteps, EdgeEnds DEF CanRecord, Status
    <3>3. pc'[h] = phase
      BY <2>0, <3>1 DEF Moves, Goto, JobQueueTypeOK, QueueTypeOK
    <3>4. pc'[h] = "done" => DropDeadLetter(h) \/ status'[Job(h)] \in Terminal
      <4>1. CASE ProcessJob(h)
        <5>1. CASE LoadJob(h)
          BY <2>0, <5>1
             DEF LoadJob, Proceed, Goto, JobQueueTypeOK, QueueTypeOK
        <5>2. CASE Check(h) \/ RecordFailed(h) \/ RecordCompleted(h)
          <6>1. \E q \in {"failing", "completing", "error", "announce"} : Goto(h, q)
            BY <5>2 DEF Check, RecordFailed, RecordCompleted, RecordOutcome, Proceed
          <6>2. QED
            BY <2>0, <6>1 DEF Goto, JobQueueTypeOK, QueueTypeOK
        <5>3. CASE AnnounceCompletion(h)
          BY <5>3 DEF AnnounceCompletion, OutcomeInv, OneAnnouncer, Terminal
        <5>4. QED
          BY <4>1, <5>1, <5>2, <5>3 DEF ProcessJob
      <4>2. CASE ProcessFails(h) \/ CommitInDoubt(h) \/ DeadLetterFails(h)
        BY <2>0, <4>2
           DEF ProcessFails, CommitInDoubt, DeadLetterFails, Proceed, Goto, JobQueueTypeOK,
               QueueTypeOK
      <4>3. CASE HandleDeadLetter(h)
        <5>1. Job(h) \in Jobs /\ status[Job(h)] # NotCreated
          BY <2>0, <2>3, <4>3, HandlerSteps, BusyIsCreated DEF HandleDeadLetter
        <5>2. QED
          BY <2>0, <4>3, <5>1
             DEF HandleDeadLetter, DeadLetterTx, SetStatus, CanTransition, validTransitions,
                 JobState, Status, Terminal
      <4>4. QED
        BY <2>3, <4>1, <4>2, <4>3 DEF Acts
    <3>5. QED
      BY <2>0, <3>1, <3>2, <3>3, <3>4, HandlerCarries DEF Moves
  <2>4. ASSUME NEW h \in Handlers, Consumer(h) PROVE CarryInv'
    BY <2>0, <2>4, ConsumerCarries DEF Consumer
  <2>5. ASSUME NEW w \in Workers, Replica(w) PROVE CarryInv'
    BY <2>0, <2>5, ReplicaCarries DEF Replica
  <2>6. CASE UNCHANGED vars
    BY <2>0, <2>6, TablesCarry DEF vars, queueVars
  <2>7. QED
    BY <2>1, <2>2, <2>3, <2>4, <2>5, <2>6 DEF Next, Acts
<1>3. QED
  BY <1>1, <1>2, OutcomeInvariant, PTL DEF Spec

(* A connectivity test is never left with nobody to drive it on either.    *)
THEOREM NoJobIsOrphaned == Spec => []NoOrphan
<1>1. TypeOK => outbox \in [Jobs -> {"none", "pending", "published", "failed"}]
  BY DEF TypeOK, JobQueueTypeOK
<1>2. QED
  BY <1>1, TypeCorrect, CarryInvariant, CarriedIsDriven, PTL

-----------------------------------------------------------------------------
(* Faults are counted and nothing that was refused is taken back.          *)
LEMMA RefusalsLast ==
  ASSUME TypeOK, StopsAreCounted, [Next]_vars
  PROVE  /\ \A k \in FaultKinds : faults'[k] \in Nat /\ faults'[k] >= faults[k]
         /\ StopsAreCounted'
         /\ NothingRefused' => NothingRefused
<1> DEFINE Counted == \/ UNCHANGED faults \/ \E k \in FaultKinds : Fault(k)
                      \/ \E w \in Workers : TxFails(w)
           Told == \A w \in Workers :
                     worker'[w] = "stopping" => worker[w] = "stopping" \/ Fault("shutdown")
<1>0. /\ faults \in [FaultKinds -> Nat]
      /\ worker \in [Workers -> {"up", "stopping", "down"}]
  BY DEF TypeOK, JobQueueTypeOK, QueueTypeOK
<1>1. ASSUME NEW j \in Jobs, CreateTestJob(j) \/ PublishEvent(j) \/ PublishEventTwice(j)
                             \/ PublishEventFails(j)
      PROVE  Counted /\ Told
  BY <1>1
     DEF CreateTestJob, CreateJob, PublishEvent, Publish, PublishEventTwice, PublishTwice,
         PublishEventFails, PublishFails, queueVars, FaultKinds
<1>2. ASSUME NEW h \in Handlers, NEW m \in Messages, DeliverWork(h, m) \/ DeliverDead(h, m)
      PROVE  Counted /\ Told
  BY <1>2 DEF DeliverWork, DeliverDead, Deliver
<1>3. ASSUME NEW h \in Handlers, Acts(h) PROVE Counted /\ Told
  BY <1>3, HandlerSteps DEF Moves, Handlers
<1>4. ASSUME NEW h \in Handlers, Consumer(h) PROVE Counted /\ Told
  BY <1>4
     DEF Consumer, ConsumerStep, Ack, RefuseToDlq, Republish, Requeue, RepublishFails,
         FaultKinds
<1>5. ASSUME NEW w \in Workers, Replica(w) PROVE Counted /\ Told
  BY <1>0, <1>5
     DEF Replica, WorkerCrash, Shutdown, WorkerExit, Restart, ChannelLost, FaultKinds
<1>6. ASSUME UNCHANGED vars PROVE Counted /\ Told
  BY <1>6 DEF vars, queueVars
<1>7. Counted /\ Told
  BY <1>1, <1>2, <1>3, <1>4, <1>5, <1>6 DEF Next, Acts
<1>8. QED
  BY <1>0, <1>7, RefusalLasts

LEMMA StopsInvariant == Spec => []StopsAreCounted
<1>1. Init => StopsAreCounted
  BY DEF Init, JobQueueInit, QueueInit, StopsAreCounted
<1>2. QED
  BY <1>1, RefusalsLast, TypeCorrect, PTL DEF Spec

(* While no transaction fails and no replica stops or dies, a completed    *)
(* job is announced, or the handler that will announce it is still there.  *)
Follows(j) == completedEvents[j] = 1 \/ \E h \in Handlers : pc[h] = "announce" /\ Job(h) = j

(* The handlers that are about to announce a success go on to do so, unless*)
(* a transaction is refused or their replica dies.                         *)
LEMMA AnnouncersStay ==
  ASSUME TypeOK, [Next]_vars, NEW g \in Handlers, pc[g] = "announce",
         \A w \in Workers : ~TxFails(w) /\ ~WorkerCrash(w)
  PROVE  (pc'[g] = "announce" /\ msg'[g] = msg[g]) \/ AnnounceCompletion(g)
<1>0. /\ pc \in [Handlers -> {"idle", "done", "error"} \cup Phases]
      /\ msg \in [Handlers -> Messages \cup {NoMessage}]
  BY DEF TypeOK, JobQueueTypeOK, QueueTypeOK
<1>1. ASSUME NEW j \in Jobs, CreateTestJob(j) \/ PublishEvent(j) \/ PublishEventTwice(j)
                             \/ PublishEventFails(j)
      PROVE  UNCHANGED <<pc, msg>>
  BY <1>1
     DEF CreateTestJob, CreateJob, PublishEvent, Publish, PublishEventTwice, PublishTwice,
         PublishEventFails, PublishFails, queueVars
<1>2. ASSUME NEW h \in Handlers, NEW m \in Messages, DeliverWork(h, m) \/ DeliverDead(h, m)
      PROVE  pc'[g] = pc[g] /\ msg'[g] = msg[g]
  BY <1>0, <1>2 DEF DeliverWork, DeliverDead, Deliver, Goto
<1>3. ASSUME NEW h \in Handlers, Acts(h)
      PROVE  (pc'[g] = pc[g] /\ msg'[g] = msg[g]) \/ AnnounceCompletion(g)
  <2>1. CASE g # h
    BY <1>0, <1>3, <2>1, HandlerSteps DEF Moves, Goto
  <2>2. CASE g = h
    BY <1>3, <2>2
       DEF Acts, ProcessJob, LoadJob, Check, RecordFailed, RecordCompleted, ProcessFails,
           CommitInDoubt, HandleDeadLetter, DeadLetterFails, DropDeadLetter, Handlers
  <2>3. QED
    BY <2>1, <2>2
<1>4. ASSUME NEW h \in Handlers, Consumer(h) PROVE pc'[g] = pc[g] /\ msg'[g] = msg[g]
  BY <1>0, <1>4
     DEF Consumer, ConsumerStep, Ack, RefuseToDlq, Republish, Requeue, RepublishFails, Release,
         Goto
<1>5. ASSUME NEW w \in Workers, Replica(w) PROVE UNCHANGED <<pc, msg>>
  BY <1>5 DEF Replica, Shutdown, WorkerExit, Restart, ChannelLost
<1>6. CASE UNCHANGED vars
  BY <1>6 DEF vars, queueVars
<1>7. QED
  BY <1>1, <1>2, <1>3, <1>4, <1>5, <1>6 DEF Next, Acts

(* A job becomes completed by the transaction of RecordCompleted, unless   *)
(* the answer to a transaction is lost.                                    *)
LEMMA CompletedByHandler ==
  ASSUME TypeOK, [Next]_vars, \A w \in Workers : ~TxFails(w),
         NEW j \in Jobs, status[j] # "completed", status'[j] = "completed"
  PROVE  \E h \in Handlers : /\ RecordCompleted(h) /\ Job(h) = j /\ Job(h) \in Jobs
                             /\ SetStatus(j, "completed") /\ CanRecord(j, "completed")
<1>0. status \in [Jobs -> JobState]
  BY DEF TypeOK, JobQueueTypeOK
<1>1. ASSUME NEW h \in Handlers, Acts(h)
      PROVE  /\ RecordCompleted(h) /\ Job(h) = j /\ Job(h) \in Jobs
             /\ SetStatus(j, "completed") /\ CanRecord(j, "completed")
  <2>1. Job(h) \in Jobs
    BY <1>1, HandlerSteps
  <2>2. CASE RecordCompleted(h)
    BY <1>0, <2>1, <2>2 DEF RecordCompleted, RecordOutcome, SetStatus
  <2>3. CASE ~RecordCompleted(h)
    BY <1>0, <1>1, <2>1, <2>3
       DEF Acts, ProcessJob, LoadJob, Check, RecordFailed, RecordOutcome, AnnounceCompletion,
           ProcessFails, CommitInDoubt, HandleDeadLetter, DeadLetterTx, DeadLetterFails,
           DropDeadLetter, SetStatus, Handlers
  <2>4. QED
    BY <2>2, <2>3
<1>2. ASSUME NEW i \in Jobs, CreateTestJob(i) PROVE FALSE
  BY <1>0, <1>2 DEF CreateTestJob, CreateJob, SetStatus
<1>3. QED
  BY <1>1, <1>2
     DEF Next, Acts, PublishEvent, Publish, PublishEventTwice, PublishTwice, PublishEventFails,
         PublishFails, DeliverWork, DeliverDead, Consumer, Replica, vars

(* While no transaction is refused, a job that completes is announced, or  *)
(* the handler that will announce it is there.                             *)
THEOREM AnnouncementFollows == Spec => []CompletionFollows
<1>1. Init => CompletionFollows
  BY DEF Init, JobQueueInit, CompletionFollows, NotCreated
<1>2. OutcomeInv /\ StopsAreCounted /\ CompletionFollows /\ [Next]_vars
        => CompletionFollows'
  <2> SUFFICES ASSUME OutcomeInv, StopsAreCounted, CompletionFollows, [Next]_vars,
                      NEW j \in Jobs,
                      status'[j] = "completed", NothingRefused', faults'["crash"] = 0
               PROVE  Follows(j)'
    BY DEF CompletionFollows, Follows
  <2>0. /\ TypeOK /\ OneAnnouncer /\ JobQueueTypeOK(Phases) /\ status \in [Jobs -> JobState]
        /\ completedEvents \in [Jobs -> Nat] /\ faults \in [FaultKinds -> Nat]
    BY DEF OutcomeInv, TypeOK, JobQueueTypeOK, QueueTypeOK
  <2>1. \A w \in Workers : ~TxFails(w) /\ ~WorkerCrash(w)
    <3>1. ASSUME NEW w \in Workers, WorkerCrash(w) PROVE FALSE
      BY <2>0, <3>1, FaultCounted DEF WorkerCrash, FaultKinds
    <3>2. QED
      BY <2>0, <3>1, TxFailsRefuses
  <2>2. status[j] = "completed" => Follows(j)
    <3>1. /\ faults["crash"] \in Nat /\ faults'["crash"] >= faults["crash"]
          /\ NothingRefused
      BY <2>0, RefusalsLast DEF FaultKinds
    <3>2. QED
      BY <3>1 DEF CompletionFollows, Follows
  (* An announcement that was made stays, and one to be made is made.      *)
  <2>3. ASSUME NEW h \in Handlers, AnnounceCompletion(h), Job(h) = j PROVE completedEvents'[j] = 1
    BY <2>0, <2>3 DEF AnnounceCompletion, CompletionTx, OneAnnouncer
  <2>4. ASSUME NEW h \in Handlers, pc[h] = "announce", Job(h) = j PROVE Follows(j)'
    <3>1. (pc'[h] = "announce" /\ msg'[h] = msg[h]) \/ AnnounceCompletion(h)
      BY <2>0, <2>1, <2>4, AnnouncersStay
    <3>2. QED
      BY <2>3, <2>4, <3>1 DEF Follows, Job
  <2>5. ASSUME completedEvents[j] = 1 PROVE Follows(j)'
    <3>1. completedEvents'[j] = 1
      <4>1. CASE Quiet \/ \E i \in Jobs : CreateTestJob(i)
        BY <2>5, <4>1 DEF Quiet, OutcomeStays, CreateTestJob, eventVars
      <4>2. ASSUME NEW h \in Handlers, Job(h) \in Jobs,
                   \/ \E to \in {"failed", "completed"} : Records(h, to)
                   \/ Announces(h) \/ GivesUp(h)
            PROVE  completedEvents'[j] = 1
        BY <2>0, <2>5, <4>2
           DEF Records, Announces, GivesUp, CompletionTx, OneAnnouncer, eventVars
      <4>3. QED
        BY <2>0, <4>1, <4>2, StepKinds
    <3>2. QED
      BY <3>1 DEF Follows
  <2>6. CASE status[j] = "completed"
    BY <2>2, <2>4, <2>5, <2>6 DEF Follows
  <2>7. CASE status[j] # "completed"
    <3>1. PICK h \in Handlers : RecordCompleted(h) /\ Job(h) = j /\ SetStatus(j, "completed")
      BY <2>0, <2>1, <2>7, CompletedByHandler
    <3>2. pc'[h] = "announce" /\ msg' = msg
      BY <2>0, <2>7, <3>1
         DEF RecordCompleted, RecordOutcome, Proceed, Goto, JobQueueTypeOK, QueueTypeOK
    <3>3. QED
      BY <3>1, <3>2 DEF Follows, Job
  <2>8. QED
    BY <2>6, <2>7
<1>3. Spec => [](OutcomeInv /\ StopsAreCounted)
  BY OutcomeInvariant, StopsInvariant, PTL
<1>4. QED
  BY <1>1, <1>2, <1>3, PTL DEF Spec
=============================================================================
