------------------------------ MODULE JobQueue ------------------------------
(***************************************************************************)
(* What every kind of background job shares: its row in the jobs table,    *)
(* the outbox row that asks a worker to process it, the publisher that     *)
(* hands that event to the broker, and the database as its handlers see    *)
(* it.  The modules that extend this one add the handlers.                 *)
(***************************************************************************)
EXTENDS WorkQueue, JobStatus

CONSTANT MaxPublishAttempts   \* Publisher.maxAttempts, 10 in the code

ASSUME PublishAssumption == MaxPublishAttempts \in Nat \ {0}

VARIABLES
  status,         \* jobs.status
  outbox,         \* outbox_events.status of the row that requests the job
  pubAttempts,    \* outbox_events.attempts of that row
  dropped         \* history: jobs whose dead letter was given up unrecorded

requestVars == <<outbox, pubAttempts, dropped>>

JobQueueInit ==
  /\ QueueInit
  /\ status = [j \in Jobs |-> NotCreated]
  /\ outbox = [j \in Jobs |-> "none"]
  /\ pubAttempts = [j \in Jobs |-> 0]
  /\ dropped = {}

JobQueueTypeOK(phases) ==
  /\ QueueTypeOK(phases)
  /\ \A h \in Handlers : pc[h] = "idle" <=> msg[h] = NoMessage
  /\ status \in [Jobs -> JobState]
  /\ outbox \in [Jobs -> {"none", "pending", "published", "failed"}]
  /\ pubAttempts \in [Jobs -> Nat]
  /\ dropped \subseteq Jobs

(***************************************************************************)
(* Transactions                                                            *)
(***************************************************************************)
Job(h) == msg[h].job

(* A query runs under the context of its replica: it can only succeed      *)
(* while the replica is not shutting down.                                 *)
DbUp(w) == worker[w] = "up"

(* A transaction rolls back because its context is cancelled, or because   *)
(* the database or the connection to it failed.                            *)
TxFails(w) ==
  \/ worker[w] = "stopping" /\ UNCHANGED faults
  \/ worker[w] = "up" /\ Fault("db")

SetStatus(j, to) == status' = [status EXCEPT ![j] = to]

(***************************************************************************)
(* API and outbox publisher                                                *)
(***************************************************************************)

(* The job and the event that triggers it are inserted in one transaction. *)
CreateJob(j) ==
  /\ status[j] = NotCreated
  /\ SetStatus(j, "queued")
  /\ outbox' = [outbox EXCEPT ![j] = "pending"]
  /\ UNCHANGED <<queueVars, pubAttempts, dropped>>

Requested(j) == [queue |-> "work", job |-> j, attempt |-> 0]

(* The publisher runs in every replica; the row lock lets one at a time in.*)
CanPublish(j) == outbox[j] = "pending" /\ \E w \in Workers : worker[w] = "up"

Publish(j) ==
  /\ CanPublish(j)
  /\ queue' = Plus(queue, Requested(j))
  /\ outbox' = [outbox EXCEPT ![j] = "published"]
  /\ UNCHANGED <<worker, pc, msg, held, faults, status, pubAttempts, dropped>>

(* The broker has the message, the batch's transaction does not commit.    *)
PublishTwice(j) ==
  /\ CanPublish(j)
  /\ Fault("db")
  /\ queue' = Plus(queue, Requested(j))
  /\ UNCHANGED <<worker, pc, msg, held, status, requestVars>>

(* The broker does not confirm, although it may well have the message: one *)
(* more attempt, and the last one gives up.                                *)
PublishFails(j) ==
  /\ CanPublish(j)
  /\ Fault("broker")
  /\ queue' \in {queue, Plus(queue, Requested(j))}
  /\ pubAttempts' = [pubAttempts EXCEPT ![j] = @ + 1]
  /\ outbox' = IF pubAttempts[j] + 1 >= MaxPublishAttempts
               THEN [outbox EXCEPT ![j] = "failed"] ELSE outbox
  /\ UNCHANGED <<worker, pc, msg, held, status, dropped>>

(***************************************************************************)
(* Dead-letter consumer                                                    *)
(***************************************************************************)

(* A dead-letter handler cannot record the outcome: it logs the error and  *)
(* returns nil, so that the delivery is acknowledged all the same.  What   *)
(* was the last message about the job is lost, unless the channel was, and *)
(* the broker has put the delivery back.                                   *)
DropDeadLetter(h) ==
  /\ pc[h] = "giveup"
  /\ TxFails(h[1])
  /\ Goto(h, "done")
  /\ dropped' = IF held[h] THEN dropped \cup {Job(h)} ELSE dropped
  /\ UNCHANGED <<queue, worker, msg, held, status, outbox, pubAttempts>>

(***************************************************************************)
(* What a job may count on                                                 *)
(***************************************************************************)

(* Somebody will still act on the job: the outbox, a message or a handler  *)
(* of its own.                                                             *)
Driven(j) ==
  \/ outbox[j] = "pending"
  \/ \E m \in Messages : m.job = j /\ queue[m] > 0
  \/ \E h \in Handlers : pc[h] \notin {"idle", "done"} /\ Job(h) = j

(* The two ways in which the code loses a job for good: a dead letter that *)
(* was acknowledged without being recorded, and an outbox that gave up     *)
(* before any copy of its event got through.                               *)
Stranded(j) ==
  \/ j \in dropped
  \/ outbox[j] = "failed" /\ status[j] = "queued" /\ ~Driven(j)

(* However often replicas crash or stop, channels are lost, transactions   *)
(* fail and confirms go missing: an unfinished job has a message or a      *)
(* handler that will drive it on, unless it is lost in one of these two    *)
(* ways (handleDelivery acknowledges only what has been dealt with).       *)
NoOrphan ==
  \A j \in Jobs : status[j] \in Unfinished => Driven(j) \/ Stranded(j)

(* The same promise as progress: a requested job comes to an end, or is    *)
(* lost in one of the two ways (ProcessScanJob, ProcessJob and their       *)
(* dead-letter handlers).                                                  *)
EventuallyTerminal ==
  \A j \in Jobs :
    status[j] = "queued" ~> (status[j] \in Terminal \/ Stranded(j))

(* No transaction was refused by the database and no replica was stopped.  *)
NothingRefused == faults["db"] = 0 /\ faults["shutdown"] = 0
=============================================================================
