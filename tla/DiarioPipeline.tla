--------------------------- MODULE DiarioPipeline ---------------------------
(***************************************************************************)
(* A connectivity test of the Diário Oficial from the API request to its   *)
(* terminal state.  The worker asks the external system outside any        *)
(* transaction, records the whole attempt in one transaction and announces *)
(* a success in a second one; the dead-letter consumer gives up in one.    *)
(* Announcing includes the status of the integration, one row that all     *)
(* jobs write.  The stale-job sweeper never selects these jobs: no commit  *)
(* leaves one processing.                                                  *)
(***************************************************************************)
EXTENDS JobQueue

VARIABLES
  completedEvents,  \* EventJobCompleted rows written for the job
  failedEvents,     \* EventJobFailed rows written for the job
  integration,      \* integrations.status of the Diário Oficial
  announced         \* the status in the last EventIntegrationStatusChanged

eventVars == <<completedEvents, failedEvents>>
integrationVars == <<integration, announced>>
vars == <<queueVars, status, requestVars, eventVars, integrationVars>>

(* ProcessJob: about to read the job, asking the external system, about to *)
(* record a failed or a successful check, about to announce the success.   *)
JobPhases == {"load", "check", "failing", "completing", "announce"}
Phases == JobPhases \cup {"giveup"}

IntegrationStatus == {"unknown", "online", "offline"}

Init ==
  /\ JobQueueInit
  /\ completedEvents = [j \in Jobs |-> 0]
  /\ failedEvents = [j \in Jobs |-> 0]
  /\ integration = "unknown"
  /\ announced = "unknown"

(* Mutant: the change is not announced.                                    *)
RecordCheckSilently(to) == integration' = to /\ UNCHANGED announced

(* UpdateStatusTx: under the lock of the row; an event only for a change.  *)
RecordCheckResult(to) ==
  /\ integration' = to
  /\ announced' = IF integration # to THEN to ELSE announced

(***************************************************************************)
(* API and outbox publisher                                                *)
(***************************************************************************)
CreateTestJob(j) == CreateJob(j) /\ UNCHANGED <<eventVars, integrationVars>>

PublishEvent(j) == Publish(j) /\ UNCHANGED <<eventVars, integrationVars>>
PublishEventTwice(j) == PublishTwice(j) /\ UNCHANGED <<eventVars, integrationVars>>
PublishEventFails(j) == PublishFails(j) /\ UNCHANGED <<eventVars, integrationVars>>

(***************************************************************************)
(* ProcessJob                                                              *)
(***************************************************************************)
DeliverWork(h, m) ==
  /\ Source(h) = "work"
  /\ Deliver(h, m, "load")
  /\ UNCHANGED <<status, requestVars, eventVars, integrationVars>>

(* A handler moves on and touches nothing but the tables in its own frame. *)
Proceed(h, phase) ==
  Goto(h, phase) /\ UNCHANGED <<queue, worker, msg, held, requestVars>>

LoadJob(h) ==
  /\ pc[h] = "load"
  /\ DbUp(h[1])
  /\ Proceed(h, IF status[Job(h)] \in Terminal THEN "done" ELSE "check")
  /\ UNCHANGED <<faults, status, eventVars, integrationVars>>

Check(h) ==
  /\ pc[h] = "check"
  /\ \E phase \in {"failing", "completing"} : Proceed(h, phase)
  /\ UNCHANGED <<faults, status, eventVars, integrationVars>>

(* MarkProcessing and the mark that ends the attempt, in one transaction.  *)
CanRecord(j, to) ==
  CanTransition(status[j], "processing") /\ CanTransition("processing", to)

(* The outcome is recorded and the handler goes on with phase next, or the *)
(* job cannot be taken up any more and the handler fails.                  *)
RecordOutcome(h, to, next) ==
  /\ DbUp(h[1])
  /\ \/ CanRecord(Job(h), to) /\ SetStatus(Job(h), to) /\ Proceed(h, next)
     \/ ~CanRecord(Job(h), to) /\ UNCHANGED status /\ Proceed(h, "error")
  /\ UNCHANGED <<faults, eventVars, integrationVars>>

(* The error of a failed check is returned even when it was recorded.      *)
RecordFailed(h) == pc[h] = "failing" /\ RecordOutcome(h, "failed", "error")

(* Mutant: the success is not announced.                                   *)
RecordCompletedOnly(h) == pc[h] = "completing" /\ RecordOutcome(h, "completed", "done")

RecordCompleted(h) == pc[h] = "completing" /\ RecordOutcome(h, "completed", "announce")

(* EventJobCompleted and the status of the integration, in a transaction.  *)
CompletionTx(j) ==
  /\ completedEvents' = [completedEvents EXCEPT ![j] = @ + 1]
  /\ RecordCheckResult("online")
  /\ UNCHANGED failedEvents

AnnounceCompletion(h) ==
  /\ pc[h] = "announce"
  /\ DbUp(h[1])
  /\ CompletionTx(Job(h))
  /\ Proceed(h, "done")
  /\ UNCHANGED <<faults, status>>

(* A query of ProcessJob fails; what was committed before it stays.        *)
ProcessFails(h) ==
  /\ pc[h] \in JobPhases \ {"check"}
  /\ TxFails(h[1])
  /\ Proceed(h, "error")
  /\ UNCHANGED <<status, eventVars, integrationVars>>

(* A transaction of ProcessJob is committed and the answer is lost.        *)
CommitInDoubt(h) ==
  /\ TxFails(h[1])
  /\ \/ \E to \in {"failed", "completed"} :
           /\ pc[h] = IF to = "failed" THEN "failing" ELSE "completing"
           /\ CanRecord(Job(h), to)
           /\ SetStatus(Job(h), to)
           /\ UNCHANGED <<eventVars, integrationVars>>
     \/ pc[h] = "announce" /\ CompletionTx(Job(h)) /\ UNCHANGED status
  /\ Proceed(h, "error")

(***************************************************************************)
(* HandleDeadLetter                                                        *)
(***************************************************************************)
DeliverDead(h, m) ==
  /\ Source(h) = "dlq"
  /\ Deliver(h, m, "giveup")
  /\ UNCHANGED <<status, requestVars, eventVars, integrationVars>>

(* Mutant: a job that is not given up on is announced as failed.           *)
DeadLetterUnchecked(j) ==
  /\ SetStatus(j, IF CanTransition(status[j], "dead_letter") THEN "dead_letter" ELSE status[j])
  /\ failedEvents' = [failedEvents EXCEPT ![j] = @ + 1]
  /\ RecordCheckResult("offline")
  /\ UNCHANGED completedEvents

(* MarkDeadLetter, EventJobFailed and the status of the integration in one *)
(* transaction, which a refused edge rolls back.                           *)
DeadLetterTx(j) ==
  \/ /\ CanTransition(status[j], "dead_letter")
     /\ SetStatus(j, "dead_letter")
     /\ failedEvents' = [failedEvents EXCEPT ![j] = @ + 1]
     /\ RecordCheckResult("offline")
     /\ UNCHANGED completedEvents
  \/ /\ ~CanTransition(status[j], "dead_letter")
     /\ UNCHANGED <<status, eventVars, integrationVars>>

HandleDeadLetter(h) ==
  /\ pc[h] = "giveup"
  /\ DbUp(h[1])
  /\ DeadLetterTx(Job(h))
  /\ Proceed(h, "done")
  /\ UNCHANGED faults

DeadLetterFails(h) == DropDeadLetter(h) /\ UNCHANGED <<eventVars, integrationVars>>
-----------------------------------------------------------------------------
Consumer(h) ==
  /\ ConsumerStep(h) \/ RepublishFails(h)
  /\ UNCHANGED <<status, requestVars, eventVars, integrationVars>>

Replica(w) ==
  /\ \/ WorkerCrash(w) \/ Shutdown(w) \/ WorkerExit(w) \/ Restart(w)
     \/ \E source \in {"work", "dlq"} : ChannelLost(w, source)
  /\ UNCHANGED <<status, requestVars, eventVars, integrationVars>>

(* ProcessJob, without the failures of its transactions.                   *)
ProcessJob(h) ==
  LoadJob(h) \/ Check(h) \/ RecordFailed(h) \/ RecordCompleted(h) \/ AnnounceCompletion(h)

Next ==
  \/ \E j \in Jobs : \/ CreateTestJob(j) \/ PublishEvent(j) \/ PublishEventTwice(j)
                     \/ PublishEventFails(j)
  \/ \E h \in Handlers : \/ \E m \in Messages : DeliverWork(h, m) \/ DeliverDead(h, m)
                         \/ ProcessJob(h) \/ ProcessFails(h) \/ CommitInDoubt(h)
                         \/ HandleDeadLetter(h) \/ DeadLetterFails(h)
                         \/ Consumer(h)
  \/ \E w \in Workers : Replica(w)

Spec == Init /\ [][Next]_vars

(* As for scans: the HTTP client of the check has a timeout, the broker    *)
(* delivers, the publisher ticks and a replica that went down comes back.  *)
Fairness ==
  /\ \A j \in Jobs : WF_vars(PublishEvent(j))
  /\ \A m \in Messages :
        WF_vars(\E h \in Handlers : DeliverWork(h, m) \/ DeliverDead(h, m))
  /\ \A h \in Handlers :
        /\ WF_vars(ProcessJob(h) \/ HandleDeadLetter(h))
        /\ WF_vars(worker[h[1]] = "stopping" /\ (ProcessFails(h) \/ DeadLetterFails(h)))
        /\ WF_vars(ConsumerStep(h) /\ Consumer(h))
  /\ \A w \in Workers : WF_vars((WorkerExit(w) \/ Restart(w)) /\ Replica(w))

FairSpec == Spec /\ Fairness
-----------------------------------------------------------------------------
(* Every variable keeps the values the tables, the broker and the          *)
(* goroutines can have.                                                    *)
TypeOK ==
  /\ JobQueueTypeOK(Phases)
  /\ completedEvents \in [Jobs -> Nat]
  /\ failedEvents \in [Jobs -> Nat]
  /\ integration \in IntegrationStatus
  /\ announced \in IntegrationStatus

(* However deliveries, retries and the two consumers interleave, the       *)
(* status of the integration is one that a finished job gave it together   *)
(* with its own event, no finished job left it unset, and the last event   *)
(* about the integration names its status (RecordCheckResult).             *)
IntegrationTellsOutcome ==
  /\ integration = announced
  /\ integration = "online" => \E j \in Jobs : completedEvents[j] > 0
  /\ integration = "offline" => \E j \in Jobs : failedEvents[j] > 0
  /\ integration = "unknown" =>
       \A j \in Jobs : completedEvents[j] = 0 /\ status[j] # "dead_letter"

(* While no transaction fails and no replica stops, a completed job is     *)
(* announced, or the handler that will announce it is still there.         *)
CompletionFollows ==
  \A j \in Jobs :
    status[j] = "completed" /\ NothingRefused /\ faults["crash"] = 0 =>
      completedEvents[j] = 1 \/ \E h \in Handlers : pc[h] = "announce" /\ Job(h) = j

(* ProcessJob and HandleDeadLetter implement the promise of JobLifecycle.  *)
Lifecycle ==
  INSTANCE JobLifecycle WITH completions <- completedEvents, failures <- failedEvents
LifecycleSpec == Lifecycle!Spec
=============================================================================
