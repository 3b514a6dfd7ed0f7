---------------------------- MODULE ScanPipeline ----------------------------
(***************************************************************************)
(* A security scan from the API request to its terminal state: the API     *)
(* stores the job and the event that triggers it, the outbox publisher     *)
(* hands the event to the broker, a worker replica runs the scanners and   *)
(* records what they found, the dead-letter consumer gives up on what was  *)
(* retried in vain, and the stale-job sweeper of each replica looks for    *)
(* jobs nobody works on any more.  Processes crash, shut down, lose their  *)
(* channels, their transactions and their publisher confirms at any step.  *)
(***************************************************************************)
EXTENDS JobQueue

VARIABLES
  stale,          \* started_at is older than JOB_STALE_AFTER
  persisted,      \* committed persistCompletion transactions of the job
  failedEvents,   \* EventScanFailed rows written for the job
  sweepTodo,      \* jobs a replica's sweep selected and has not handled yet
  sweepMarked     \* the job it has marked failed and not yet given up on

jobVars == <<status, stale, persisted, failedEvents>>
sweepVars == <<sweepTodo, sweepMarked>>
vars == <<queueVars, jobVars, requestVars, sweepVars>>

(* ProcessScanJob: about to read the job, to mark it processing, running   *)
(* the scanners, about to store their findings.  "giveup" is               *)
(* HandleScanDeadLetter, the only phase of a dead-letter handler.          *)
ScanPhases == {"load", "begin", "scan", "persist"}
Phases == ScanPhases \cup {"giveup"}

Init ==
  /\ JobQueueInit
  /\ stale = [j \in Jobs |-> FALSE]
  /\ persisted = [j \in Jobs |-> 0]
  /\ failedEvents = [j \in Jobs |-> 0]
  /\ sweepTodo = [w \in Workers |-> {}]
  /\ sweepMarked = [w \in Workers |-> {}]

(***************************************************************************)
(* Transactions                                                            *)
(***************************************************************************)
(* Mutant: the status is written whatever it was.                          *)
TransitionUnchecked(h, to, next) ==
  /\ DbUp(h[1])
  /\ SetStatus(Job(h), to)
  /\ Goto(h, next)
  /\ UNCHANGED <<queue, worker, msg, held, faults>>
  /\ UNCHANGED <<stale, persisted, failedEvents, requestVars, sweepVars>>

(* Repository.transition in a transaction of its own: the handler goes on  *)
(* with phase next, or fails because the edge is refused.                  *)
Transition(h, to, next) ==
  /\ DbUp(h[1])
  /\ \/ /\ CanTransition(status[Job(h)], to)
        /\ SetStatus(Job(h), to)
        /\ Goto(h, next)
     \/ /\ ~CanTransition(status[Job(h)], to)
        /\ Goto(h, "error")
        /\ UNCHANGED status
  /\ UNCHANGED <<queue, worker, msg, held, faults>>
  /\ UNCHANGED <<stale, persisted, failedEvents, requestVars, sweepVars>>

(* Mutant: the failure is announced although the job could not be given up.*)
DeadLetterUnchecked(j) ==
  /\ IF CanTransition(status[j], "dead_letter") THEN SetStatus(j, "dead_letter")
                                                ELSE UNCHANGED status
  /\ failedEvents' = [failedEvents EXCEPT ![j] = @ + 1]

(* Mutant: the failure event is not written.                               *)
DeadLetterUnannounced(j) ==
  /\ IF CanTransition(status[j], "dead_letter") THEN SetStatus(j, "dead_letter")
                                                ELSE UNCHANGED status
  /\ UNCHANGED failedEvents

(* The transaction of HandleScanDeadLetter: give up and announce it.       *)
DeadLetterTx(j) ==
  \/ /\ CanTransition(status[j], "dead_letter")
     /\ SetStatus(j, "dead_letter")
     /\ failedEvents' = [failedEvents EXCEPT ![j] = @ + 1]
  \/ /\ ~CanTransition(status[j], "dead_letter")
     /\ UNCHANGED <<status, failedEvents>>

(***************************************************************************)
(* API and outbox publisher                                                *)
(***************************************************************************)

CreateScanJob(j) ==
  CreateJob(j) /\ UNCHANGED <<stale, persisted, failedEvents, sweepVars>>

PublishEvent(j) == Publish(j) /\ UNCHANGED <<jobVars, sweepVars>>
PublishEventTwice(j) == PublishTwice(j) /\ UNCHANGED <<jobVars, sweepVars>>
PublishEventFails(j) == PublishFails(j) /\ UNCHANGED <<jobVars, sweepVars>>

(***************************************************************************)
(* Scan worker                                                             *)
(***************************************************************************)
DeliverWork(h, m) ==
  /\ Source(h) = "work"
  /\ Deliver(h, m, "load")
  /\ UNCHANGED <<jobVars, requestVars, sweepVars>>

(* GetByID, outside any transaction: a finished job needs no work.         *)
LoadJob(h) ==
  /\ pc[h] = "load"
  /\ DbUp(h[1])
  /\ Goto(h, IF status[Job(h)] \in Terminal THEN "done" ELSE "begin")
  /\ UNCHANGED <<queue, worker, msg, held, faults, jobVars, requestVars, sweepVars>>

BeginProcessing(h) == pc[h] = "begin" /\ Transition(h, "processing", "scan")

(* Every scanner failed: the attempt is recorded and the delivery retried. *)
RecordFailed(h) == pc[h] = "scan" /\ Transition(h, "failed", "error")

(* Mutant: the findings are not stored.                                    *)
RecordCompletedOnly(h) == pc[h] = "scan" /\ Transition(h, "completed", "done")

(* At least one scanner succeeded: the job is completed at once, the       *)
(* findings and EventScanCompleted follow in a second transaction.         *)
RecordCompleted(h) == pc[h] = "scan" /\ Transition(h, "completed", "persist")

PersistCompletion(h) ==
  /\ pc[h] = "persist"
  /\ DbUp(h[1])
  /\ persisted' = [persisted EXCEPT ![Job(h)] = @ + 1]
  /\ Goto(h, "done")
  /\ UNCHANGED <<queue, worker, msg, held, faults>>
  /\ UNCHANGED <<status, stale, failedEvents, requestVars, sweepVars>>

(* Any database access of ProcessScanJob may fail; the handler returns the *)
(* error and leaves the job as the last commit left it.                    *)
ProcessFails(h) ==
  /\ pc[h] \in ScanPhases
  /\ TxFails(h[1])
  /\ Goto(h, "error")
  /\ UNCHANGED <<queue, worker, msg, held, jobVars, requestVars, sweepVars>>

(* A transaction of ProcessScanJob is committed and the answer is lost:    *)
(* the handler takes it for failed, the tables do not.  (A dead-letter     *)
(* handler acts the same either way.)                                      *)
CommitInDoubt(h) ==
  /\ TxFails(h[1])
  /\ \/ \E to \in {"processing", "failed", "completed"} :
           /\ pc[h] = IF to = "processing" THEN "begin" ELSE "scan"
           /\ CanTransition(status[Job(h)], to)
           /\ SetStatus(Job(h), to)
           /\ UNCHANGED persisted
     \/ /\ pc[h] = "persist"
        /\ persisted' = [persisted EXCEPT ![Job(h)] = @ + 1]
        /\ UNCHANGED status
  /\ Goto(h, "error")
  /\ UNCHANGED <<queue, worker, msg, held, stale, failedEvents, requestVars, sweepVars>>

(***************************************************************************)
(* Dead-letter consumer                                                    *)
(***************************************************************************)
DeliverDead(h, m) ==
  /\ Source(h) = "dlq"
  /\ Deliver(h, m, "giveup")
  /\ UNCHANGED <<jobVars, requestVars, sweepVars>>

HandleScanDeadLetter(h) ==
  /\ pc[h] = "giveup"
  /\ DbUp(h[1])
  /\ DeadLetterTx(Job(h))
  /\ Goto(h, "done")
  /\ UNCHANGED <<queue, worker, msg, held, faults>>
  /\ UNCHANGED <<stale, persisted, requestVars, sweepVars>>

DeadLetterFails(h) == DropDeadLetter(h) /\ UNCHANGED <<stale, persisted, failedEvents, sweepVars>>

(***************************************************************************)
(* Stale-job sweeper                                                       *)
(***************************************************************************)

(* Time passes.  started_at is set by the first attempt and kept by the    *)
(* later ones, so a job that has become stale stays so.                    *)
BecomeStale(j) ==
  /\ status[j] \in {"processing", "failed"}
  /\ ~stale[j]
  /\ Fault("aging")
  /\ stale' = [stale EXCEPT ![j] = TRUE]
  /\ UNCHANGED <<queue, worker, pc, msg, held>>
  /\ UNCHANGED <<status, persisted, failedEvents, requestVars, sweepVars>>

SweepIdle(w) == sweepTodo[w] = {} /\ sweepMarked[w] = {}

StaleJobs == {j \in Jobs : status[j] = "processing" /\ stale[j]}

SelectStale(w) ==
  /\ DbUp(w)
  /\ SweepIdle(w)
  /\ StaleJobs # {}
  /\ sweepTodo' = [sweepTodo EXCEPT ![w] = StaleJobs]
  /\ UNCHANGED <<queueVars, jobVars, requestVars, sweepMarked>>

SweepPop(w, j) ==
  /\ sweepMarked[w] = {}
  /\ j \in sweepTodo[w]
  /\ sweepTodo' = [sweepTodo EXCEPT ![w] = @ \ {j}]

(* First transaction of the handler: MarkFailed with the stale reason.     *)
SweepMarkFailed(w, j) ==
  /\ SweepPop(w, j)
  /\ DbUp(w)
  /\ CanTransition(status[j], "failed")
  /\ SetStatus(j, "failed")
  /\ sweepMarked' = [sweepMarked EXCEPT ![w] = {j}]
  /\ UNCHANGED <<queueVars, stale, persisted, failedEvents, requestVars>>

(* The first transaction fails or the edge is refused: the sweep goes on.  *)
SweepSkip(w, j) ==
  /\ SweepPop(w, j)
  /\ \/ DbUp(w) /\ ~CanTransition(status[j], "failed") /\ UNCHANGED faults
     \/ TxFails(w)
  /\ UNCHANGED <<queue, worker, pc, msg, held, jobVars, requestVars, sweepMarked>>

(* Second transaction: HandleScanDeadLetter.                               *)
SweepGiveUp(w, j) ==
  /\ j \in sweepMarked[w]
  /\ DbUp(w)
  /\ DeadLetterTx(j)
  /\ sweepMarked' = [sweepMarked EXCEPT ![w] = {}]
  /\ UNCHANGED <<queueVars, stale, persisted, requestVars, sweepTodo>>

SweepGiveUpFails(w, j) ==
  /\ j \in sweepMarked[w]
  /\ TxFails(w)
  /\ sweepMarked' = [sweepMarked EXCEPT ![w] = {}]
  /\ UNCHANGED <<queue, worker, pc, msg, held, jobVars, requestVars, sweepTodo>>

(***************************************************************************)
(* Replicas                                                                *)
(***************************************************************************)
Consumer(h) ==
  /\ ConsumerStep(h) \/ RepublishFails(h)
  /\ UNCHANGED <<jobVars, requestVars, sweepVars>>

Crash(w) ==
  /\ WorkerCrash(w)
  /\ sweepTodo' = [sweepTodo EXCEPT ![w] = {}]
  /\ sweepMarked' = [sweepMarked EXCEPT ![w] = {}]
  /\ UNCHANGED <<jobVars, requestVars>>

Replica(w) ==
  /\ \/ Shutdown(w)
     \/ WorkerExit(w) /\ SweepIdle(w)
     \/ Restart(w)
     \/ \E source \in {"work", "dlq"} : ChannelLost(w, source)
  /\ UNCHANGED <<jobVars, requestVars, sweepVars>>
-----------------------------------------------------------------------------
(* ProcessScanJob, without the failures of its transactions.               *)
ProcessScanJob(h) ==
  \/ LoadJob(h) \/ BeginProcessing(h) \/ RecordFailed(h) \/ RecordCompleted(h)
  \/ PersistCompletion(h)

Sweep(w) ==
  \/ SelectStale(w)
  \/ \E j \in Jobs : SweepMarkFailed(w, j) \/ SweepSkip(w, j)
                       \/ SweepGiveUp(w, j) \/ SweepGiveUpFails(w, j)

Next ==
  \/ \E j \in Jobs : \/ CreateScanJob(j) \/ PublishEvent(j) \/ PublishEventTwice(j)
                     \/ PublishEventFails(j) \/ BecomeStale(j)
  \/ \E h \in Handlers : \/ \E m \in Messages : DeliverWork(h, m) \/ DeliverDead(h, m)
                         \/ ProcessScanJob(h) \/ ProcessFails(h) \/ CommitInDoubt(h)
                         \/ HandleScanDeadLetter(h) \/ DeadLetterFails(h)
                         \/ Consumer(h)
  \/ \E w \in Workers : Sweep(w) \/ Crash(w) \/ Replica(w)

Spec == Init /\ [][Next]_vars

(* Goroutines run: scanners end by their own timeouts, the broker delivers *)
(* what is ready, the publisher and the sweeper tick, and a replica that   *)
(* went down is started again (restart: unless-stopped).  Faults and the   *)
(* passing of time are never owed.                                         *)
Fairness ==
  /\ \A j \in Jobs : WF_vars(PublishEvent(j))
  /\ \A m \in Messages :
        WF_vars(\E h \in Handlers : DeliverWork(h, m) \/ DeliverDead(h, m))
  /\ \A h \in Handlers :
        /\ WF_vars(ProcessScanJob(h) \/ HandleScanDeadLetter(h))
        /\ WF_vars(worker[h[1]] = "stopping" /\ (ProcessFails(h) \/ DeadLetterFails(h)))
        /\ WF_vars(ConsumerStep(h) /\ UNCHANGED <<jobVars, requestVars, sweepVars>>)
  /\ \A w \in Workers : /\ WF_vars(Sweep(w))
                        /\ WF_vars((WorkerExit(w) \/ Restart(w)) /\ Replica(w))

FairSpec == Spec /\ Fairness
-----------------------------------------------------------------------------
(* Every variable keeps the values the tables, the broker and the          *)
(* goroutines can have.                                                    *)
TypeOK ==
  /\ JobQueueTypeOK(Phases)
  /\ stale \in [Jobs -> BOOLEAN]
  /\ persisted \in [Jobs -> Nat]
  /\ failedEvents \in [Jobs -> Nat]
  /\ sweepTodo \in [Workers -> SUBSET Jobs]
  /\ sweepMarked \in [Workers -> SUBSET Jobs]

(* However often a request is delivered, retried, taken over by another    *)
(* replica or swept, its findings and completion event are stored at most  *)
(* once, its failure is announced at most once, and never both.            *)
OutcomeOnce == \A j \in Jobs : persisted[j] + failedEvents[j] <= 1

(* Findings belong to completed jobs, and a job is in dead_letter exactly  *)
(* when its failure was announced: the transaction of                      *)
(* HandleScanDeadLetter and the order of ProcessScanJob see to it.         *)
OutcomeMatchesStatus ==
  \A j \in Jobs : /\ persisted[j] > 0 => status[j] = "completed"
                  /\ status[j] = "dead_letter" <=> failedEvents[j] > 0

(* At most one handler is on its way to storing the findings of a job, the *)
(* job is completed and nothing has been stored for it: a redelivery       *)
(* between the two transactions of ProcessScanJob cannot get there too.    *)
OneRecorder ==
  \A h \in Handlers : pc[h] = "persist" =>
     /\ status[Job(h)] = "completed"
     /\ persisted[Job(h)] = 0
     /\ \A g \in Handlers : pc[g] = "persist" /\ Job(g) = Job(h) => g = h

(* The row lock and CanTransition let one handler at a time run the        *)
(* scanners of a job, duplicates of its message or not; only the sweeper   *)
(* opens the door to a second one, for a job that is stale.                *)
SecondScanOnlyIfStale ==
  \A g, h \in Handlers :
     pc[g] = "scan" /\ pc[h] = "scan" /\ Job(g) = Job(h) /\ g # h => stale[Job(g)]

(* The pipeline implements the promise of JobLifecycle.                    *)
Lifecycle == INSTANCE JobLifecycle WITH completions <- persisted, failures <- failedEvents
LifecycleSpec == Lifecycle!Spec

(* While no transaction fails and no replica stops, a completed job has    *)
(* its findings, or the handler that will store them is still there: what  *)
(* becomes of the channel or of duplicates does not matter.                *)
CompletionFollows ==
  \A j \in Jobs :
    status[j] = "completed" /\ NothingRefused /\ faults["crash"] = 0 =>
      persisted[j] = 1 \/ \E h \in Handlers : pc[h] = "persist" /\ Job(h) = j

(***************************************************************************)
(* What the documentation says and the code does not keep to               *)
(***************************************************************************)

(* docs/openapi.yaml: the frontend is notified when the job completes.     *)
CompletionIsAnnounced ==
  \A j \in Jobs : status[j] = "completed" ~> persisted[j] = 1
=============================================================================
