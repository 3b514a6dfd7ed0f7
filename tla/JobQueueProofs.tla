--------------------------- MODULE JobQueueProofs ---------------------------
(***************************************************************************)
(* Lemmas about WorkQueue and JobQueue, for any sets of jobs, replicas and *)
(* slots: the proofs about the kinds of jobs rest on them.                 *)
(***************************************************************************)
EXTENDS JobQueue, FiniteSetTheorems, TLAPS

LEMMA HandlersFinite == IsFiniteSet(Handlers)
<1>1. IsFiniteSet(MainSlots \cup DlqSlots)
  BY SlotsAssumption, FS_Union
<1>2. QED
  BY <1>1, SlotsAssumption, FS_Product DEF Handlers

LEMMA MessageShape ==
  /\ \A m \in Messages : /\ m # NoMessage
                         /\ m.job \in Jobs
                         /\ DeadLettered(m) \in Messages
                         /\ DeadLettered(m).job = m.job
                         /\ m.attempt < MaxRetries =>
                              /\ NextAttempt(m) \in Messages
                              /\ NextAttempt(m).job = m.job
  /\ \A j \in Jobs : Requested(j) \in Messages /\ Requested(j).job = j
<1>1. \A m \in Messages : m # NoMessage
  BY DEF Messages, NoMessage
<1>2. QED
  BY <1>1, RetriesAssumption DEF Messages, DeadLettered, NextAttempt, Requested

(* Putting messages back or adding one keeps the broker's counters counters.*)
LEMMA QueueOperators ==
  ASSUME queue \in [Messages -> Nat]
  PROVE  /\ \A m \in Messages : Plus(queue, m) \in [Messages -> Nat]
         /\ \A hs \in SUBSET Handlers : Redelivered(hs) \in [Messages -> Nat]
<1>1. ASSUME NEW hs \in SUBSET Handlers, NEW m \in Messages
      PROVE  Cardinality({h \in hs : held[h] /\ msg[h] = m}) \in Nat
  <2>1. {h \in hs : held[h] /\ msg[h] = m} \subseteq Handlers
    OBVIOUS
  <2>2. QED
    BY <2>1, HandlersFinite, FS_Subset, FS_CardinalityType
<1>2. QED
  BY <1>1 DEF Plus, Redelivered

(* A fault is counted.                                                     *)
LEMMA FaultCounted ==
  ASSUME faults \in [FaultKinds -> Nat], NEW kind \in FaultKinds, Fault(kind)
  PROVE  /\ faults' \in [FaultKinds -> Nat]
         /\ faults'[kind] > 0
         /\ \A k \in FaultKinds : faults'[k] >= faults[k]
<1>1. "any" \in FaultKinds
  BY DEF FaultKinds
<1>2. faults[kind] \in Nat /\ faults["any"] \in Nat
  BY <1>1
<1>3. /\ faults'[kind] >= faults[kind] + 1
      /\ \A k \in FaultKinds : faults'[k] \in {faults[k], faults[k] + 1, faults[k] + 1 + 1}
  BY <1>1, <1>2 DEF Fault
<1>4. QED
  BY <1>1, <1>2, <1>3 DEF Fault

(* A transaction that fails counts at most one fault.                      *)
LEMMA TxFailsCounted ==
  ASSUME faults \in [FaultKinds -> Nat], NEW w, TxFails(w)
  PROVE  faults' \in [FaultKinds -> Nat]
BY FaultCounted DEF TxFails, FaultKinds

-----------------------------------------------------------------------------
(* What the type invariants say of the goroutines: those that are not idle *)
(* have a delivery.                                                        *)
HandlersOK(phases) ==
  /\ pc \in [Handlers -> {"idle", "done", "error"} \cup phases]
  /\ msg \in [Handlers -> Messages \cup {NoMessage}]
  /\ held \in [Handlers -> BOOLEAN]
  /\ \A h \in Handlers : pc[h] = "idle" <=> msg[h] = NoMessage

LEMMA BusyHasMessage ==
  ASSUME NEW phases, HandlersOK(phases), NEW h \in Handlers, pc[h] # "idle"
  PROVE  msg[h] \in Messages /\ Job(h) \in Jobs
BY MessageShape DEF HandlersOK, Job

(* A busy handler keeps its message when it moves on to another phase ...  *)
LEMMA HandlerMoves ==
  ASSUME NEW phases, "idle" \notin phases, HandlersOK(phases),
         NEW h \in Handlers, pc[h] # "idle",
         NEW phase \in {"done", "error"} \cup phases,
         Goto(h, phase), UNCHANGED <<msg, held>>
  PROVE  HandlersOK(phases)'
BY DEF HandlersOK, Goto

(* ... and drops it when it is released.                                   *)
LEMMA HandlerReleased ==
  ASSUME NEW phases, HandlersOK(phases), NEW h \in Handlers, Release(h)
  PROVE  HandlersOK(phases)'
BY DEF HandlersOK, Release, Goto

(* A handler that takes up a delivery holds its message.                   *)
LEMMA HandlerStarts ==
  ASSUME NEW phases, "idle" \notin phases, HandlersOK(phases),
         NEW h \in Handlers, NEW m \in Messages,
         NEW phase \in phases, Deliver(h, m, phase)
  PROVE  HandlersOK(phases)'
BY MessageShape DEF HandlersOK, Deliver, Goto

-----------------------------------------------------------------------------
BrokerOK ==
  /\ queue \in [Messages -> Nat]
  /\ worker \in [Workers -> {"up", "stopping", "down"}]
  /\ faults \in [FaultKinds -> Nat]

JobTablesOK ==
  /\ status \in [Jobs -> JobState]
  /\ outbox \in [Jobs -> {"none", "pending", "published", "failed"}]
  /\ pubAttempts \in [Jobs -> Nat]
  /\ dropped \subseteq Jobs

LEMMA TypeParts ==
  ASSUME NEW phases
  PROVE  /\ JobQueueTypeOK(phases) <=> BrokerOK /\ HandlersOK(phases) /\ JobTablesOK
         /\ JobQueueTypeOK(phases)' <=> BrokerOK' /\ HandlersOK(phases)' /\ JobTablesOK'
BY DEF JobQueueTypeOK, QueueTypeOK, BrokerOK, HandlersOK, JobTablesOK

LEMMA TypedAtFirst ==
  ASSUME NEW phases, JobQueueInit
  PROVE  JobQueueTypeOK(phases)
BY DEF JobQueueInit, QueueInit, JobQueueTypeOK, QueueTypeOK, JobState

(* What API and publisher do leaves queue and tables well typed ...        *)
LEMMA PublisherTyped ==
  ASSUME NEW phases, JobQueueTypeOK(phases), NEW j \in Jobs,
         CreateJob(j) \/ Publish(j) \/ PublishTwice(j) \/ PublishFails(j)
  PROVE  JobQueueTypeOK(phases)'
<1>1. BrokerOK /\ HandlersOK(phases) /\ JobTablesOK
  BY TypeParts
<1>2. UNCHANGED <<pc, msg, held>>
  BY DEF CreateJob, Publish, PublishTwice, PublishFails, queueVars
<1>3. HandlersOK(phases)'
  BY <1>1, <1>2 DEF HandlersOK
<1>4. faults' \in [FaultKinds -> Nat]
  BY <1>1, FaultCounted
     DEF BrokerOK, CreateJob, Publish, PublishTwice, PublishFails, queueVars, FaultKinds
<1>5. queue' \in [Messages -> Nat]
  BY <1>1, QueueOperators, MessageShape
     DEF BrokerOK, CreateJob, Publish, PublishTwice, PublishFails, queueVars
<1>6. BrokerOK'
  BY <1>1, <1>4, <1>5
     DEF BrokerOK, CreateJob, Publish, PublishTwice, PublishFails, queueVars
<1>7. JobTablesOK'
  BY <1>1
     DEF JobTablesOK, CreateJob, Publish, PublishTwice, PublishFails, requestVars,
         SetStatus, JobState, Status
<1>8. QED
  BY <1>3, <1>6, <1>7, TypeParts

(* ... and so does the consumer, whatever a handler did ...                *)
LEMMA ConsumerTyped ==
  ASSUME NEW phases, "idle" \notin phases, JobQueueTypeOK(phases), NEW h \in Handlers,
         \/ ConsumerStep(h) \/ RepublishFails(h)
         \/ \E m \in Messages, phase \in phases : Deliver(h, m, phase),
         UNCHANGED <<status, requestVars>>
  PROVE  JobQueueTypeOK(phases)'
<1>0. BrokerOK /\ HandlersOK(phases) /\ JobTablesOK
  BY TypeParts
<1>1. JobTablesOK'
  BY <1>0 DEF JobTablesOK, requestVars
<1>2. ASSUME NEW m \in Messages, NEW phase \in phases, Deliver(h, m, phase)
      PROVE  BrokerOK' /\ HandlersOK(phases)'
  <2>1. HandlersOK(phases)'
    BY <1>0, <1>2, HandlerStarts
  <2>2. QED
    BY <1>0, <1>2, <2>1 DEF BrokerOK, Deliver
<1>3. ASSUME ConsumerStep(h) \/ RepublishFails(h)
      PROVE  BrokerOK' /\ HandlersOK(phases)'
  <2>1. pc[h] # "idle" /\ msg[h] \in Messages
    BY <1>0, <1>3, BusyHasMessage
       DEF ConsumerStep, Ack, RefuseToDlq, Republish, Requeue, RepublishFails
  <2>2. HandlersOK(phases)'
    BY <1>0, <1>3, <2>1, HandlerMoves, HandlerReleased
       DEF ConsumerStep, Ack, RefuseToDlq, Republish, Requeue, RepublishFails
  <2>3. worker' = worker /\ faults' \in [FaultKinds -> Nat]
    BY <1>0, <1>3, FaultCounted
       DEF BrokerOK, ConsumerStep, Ack, RefuseToDlq, Republish, Requeue, RepublishFails,
           FaultKinds
  <2>4. queue' \in [Messages -> Nat]
    <3>1. CASE ConsumerStep(h)
      BY <1>0, <3>1, <2>1, QueueOperators, MessageShape
         DEF BrokerOK, ConsumerStep, Ack, RefuseToDlq, Republish, Requeue
    <3>2. CASE RepublishFails(h)
      <4>1. NextAttempt(msg[h]) \in Messages
        BY <3>2, <2>1, MessageShape DEF RepublishFails
      <4>2. \A q \in [Messages -> Nat] : Plus(q, msg[h]) \in [Messages -> Nat]
        BY <2>1 DEF Plus
      <4>3. QED
        BY <1>0, <3>2, <4>1, <4>2, QueueOperators DEF BrokerOK, RepublishFails
    <3>3. QED
      BY <1>3, <3>1, <3>2
  <2>5. QED
    BY <1>0, <2>2, <2>3, <2>4 DEF BrokerOK
<1>4. QED
  BY <1>1, <1>2, <1>3, TypeParts

(* ... and the life of replicas and channels.                              *)
LEMMA ReplicaTyped ==
  ASSUME NEW phases, JobQueueTypeOK(phases), NEW w \in Workers,
         \/ WorkerCrash(w) \/ Shutdown(w) \/ WorkerExit(w) \/ Restart(w)
         \/ \E source \in {"work", "dlq"} : ChannelLost(w, source),
         UNCHANGED <<status, requestVars>>
  PROVE  JobQueueTypeOK(phases)'
<1>0. BrokerOK /\ HandlersOK(phases) /\ JobTablesOK
  BY TypeParts
<1>1. JobTablesOK'
  BY <1>0 DEF JobTablesOK, requestVars
<1>2. CASE Shutdown(w) \/ WorkerExit(w) \/ Restart(w)
  <2>1. faults' \in [FaultKinds -> Nat]
    BY <1>0, <1>2, FaultCounted DEF BrokerOK, Shutdown, WorkerExit, Restart, FaultKinds
  <2>2. BrokerOK' /\ HandlersOK(phases)'
    BY <1>0, <1>2, <2>1 DEF BrokerOK, HandlersOK, Shutdown, WorkerExit, Restart
  <2>3. QED
    BY <1>1, <2>2, TypeParts
<1>3. CASE WorkerCrash(w)
  <2>1. faults' \in [FaultKinds -> Nat]
    BY <1>0, <1>3, FaultCounted DEF BrokerOK, WorkerCrash, FaultKinds
  <2>2. queue' \in [Messages -> Nat]
    BY <1>0, <1>3, QueueOperators DEF BrokerOK, WorkerCrash
  <2>3. HandlersOK(phases)'
    BY <1>0, <1>3 DEF HandlersOK, WorkerCrash
  <2>4. QED
    BY <1>0, <1>1, <1>3, <2>1, <2>2, <2>3, TypeParts DEF BrokerOK, WorkerCrash
<1>4. ASSUME NEW source, ChannelLost(w, source) PROVE JobQueueTypeOK(phases)'
  <2>1. faults' \in [FaultKinds -> Nat]
    BY <1>0, <1>4, FaultCounted DEF BrokerOK, ChannelLost, FaultKinds
  <2>2. queue' \in [Messages -> Nat]
    BY <1>0, <1>4, QueueOperators DEF BrokerOK, ChannelLost
  <2>3. HandlersOK(phases)'
    BY <1>0, <1>4 DEF HandlersOK, ChannelLost
  <2>4. QED
    BY <1>0, <1>1, <1>4, <2>1, <2>2, <2>3, TypeParts DEF BrokerOK, ChannelLost
<1>5. QED
  BY <1>2, <1>3, <1>4

(* Steps outside of queue and goroutines, such as those of the sweeper.    *)
LEMMA TablesTyped ==
  ASSUME NEW phases, JobQueueTypeOK(phases),
         UNCHANGED <<queue, worker, pc, msg, held, requestVars>>,
         faults' \in [FaultKinds -> Nat], status' \in [Jobs -> JobState]
  PROVE  JobQueueTypeOK(phases)'
BY DEF JobQueueTypeOK, QueueTypeOK, requestVars

(* What a handler does to the job it works on.                             *)
LEMMA HandlerTyped ==
  ASSUME NEW phases, "idle" \notin phases, JobQueueTypeOK(phases),
         NEW h \in Handlers, pc[h] # "idle",
         NEW phase \in {"done", "error"} \cup phases, Goto(h, phase),
         UNCHANGED <<queue, worker, msg, held>>,
         UNCHANGED requestVars \/ DropDeadLetter(h),
         UNCHANGED faults \/ TxFails(h[1]),
         UNCHANGED status \/ \E to \in Status : SetStatus(Job(h), to)
  PROVE  JobQueueTypeOK(phases)'
<1>1. BrokerOK /\ HandlersOK(phases) /\ JobTablesOK
  BY TypeParts
<1>2. HandlersOK(phases)'
  BY <1>1, HandlerMoves
<1>3. BrokerOK'
  BY <1>1, TxFailsCounted DEF BrokerOK
<1>4. Job(h) \in Jobs
  BY <1>1, BusyHasMessage
<1>5. JobTablesOK'
  BY <1>1, <1>4 DEF JobTablesOK, SetStatus, JobState, requestVars, DropDeadLetter
<1>6. QED
  BY <1>2, <1>3, <1>5, TypeParts

-----------------------------------------------------------------------------
(* No edge leaves a terminal status or the state before creation.          *)
LEMMA EdgeEnds ==
  ASSUME NEW from, NEW to, CanTransition(from, to)
  PROVE  from \in Unfinished /\ to \in Status /\ to # "queued"
BY DEF CanTransition, validTransitions, Unfinished, Status, Terminal

(***************************************************************************)
(* NoOrphan.  Driven counts a handler that has lost its channel, and such a*)
(* handler may end without leaving anything behind; what makes the promise *)
(* inductive is that its delivery went back to the queue when the channel  *)
(* was lost, so that somebody else carries the job.                        *)
(***************************************************************************)
Ready(j) == \E m \in Messages : m.job = j /\ queue[m] > 0

Handled(j) == \E h \in Handlers : held[h] /\ pc[h] \notin {"idle", "done"} /\ Job(h) = j

Carried(j) == Ready(j) \/ Handled(j)

HasWorker(j) == \E h \in Handlers : pc[h] # "idle" /\ Job(h) = j

(* A worker has seen a message about the job.                              *)
Taken(j) == status[j] \notin {NotCreated, "queued"} \/ HasWorker(j)

(* The job has no end yet, is not lost with its dead letter, and the broker*)
(* had a message about it.                                                 *)
Owed(j) ==
  /\ status[j] \notin Terminal
  /\ j \notin dropped
  /\ outbox[j] = "published" \/ Taken(j)

(* Job and outbox row are inserted together, before any message.           *)
CarryInv ==
  \A j \in Jobs : /\ outbox[j] = "none" <=> status[j] = NotCreated
                  /\ Ready(j) \/ HasWorker(j) => status[j] # NotCreated
                  /\ Owed(j) => Carried(j)

LEMMA CarriedIsDriven ==
  ASSUME outbox \in [Jobs -> {"none", "pending", "published", "failed"}], CarryInv
  PROVE  NoOrphan
<1> SUFFICES ASSUME NEW j \in Jobs, status[j] \in Unfinished, ~Driven(j), ~Stranded(j)
             PROVE  FALSE
  BY DEF NoOrphan
<1>1. ~Carried(j) /\ outbox[j] # "pending"
  BY DEF Carried, Ready, Handled, Driven
<1>2. outbox[j] # "none"
  BY DEF CarryInv, NotCreated, Unfinished, Status, Terminal
<1>3. ~Owed(j) /\ status[j] \notin Terminal /\ j \notin dropped
  BY <1>1 DEF CarryInv, Unfinished, Stranded
<1>4. outbox[j] = "failed" /\ status[j] = "queued"
  BY <1>1, <1>2, <1>3 DEF Owed, Taken, NotCreated, Unfinished, Status, Terminal
<1>5. QED
  BY <1>4 DEF Stranded

LEMMA CarriedAtFirst == JobQueueInit => CarryInv
BY DEF JobQueueInit, QueueInit, CarryInv, Ready, HasWorker, Owed, Taken, NotCreated

(* A handler has the job of a request that was made.                       *)
LEMMA BusyIsCreated ==
  ASSUME CarryInv, NEW h \in Handlers, pc[h] # "idle", Job(h) \in Jobs
  PROVE  status[Job(h)] # NotCreated
BY DEF CarryInv, HasWorker

(* The invariant lasts if jobs are created with their request only, no     *)
(* message is about a job that was not created, and whoever carried a job  *)
(* that is still owed an end hands it on.                                  *)
LEMMA CarryFrame ==
  ASSUME CarryInv,
         \A j \in Jobs : /\ outbox'[j] = "none" <=> status'[j] = NotCreated
                         /\ status[j] # NotCreated => status'[j] # NotCreated
                         /\ Ready(j)' => Ready(j) \/ HasWorker(j) \/ status'[j] # NotCreated
                         /\ HasWorker(j)' => Ready(j) \/ HasWorker(j)
                         /\ Owed(j)' => Carried(j)' \/ (Owed(j) /\ (Carried(j) => Carried(j)'))
  PROVE  CarryInv'
BY DEF CarryInv

-----------------------------------------------------------------------------
(* A replica stops only when it is told to.                                *)
StopsAreCounted == faults["shutdown"] = 0 => \A w \in Workers : worker[w] # "stopping"

(* A transaction that failed is a refusal, of the database or a shutdown.  *)
LEMMA TxFailsRefuses ==
  ASSUME faults \in [FaultKinds -> Nat], StopsAreCounted, NEW w \in Workers, TxFails(w)
  PROVE  ~NothingRefused'
<1>1. {"db", "shutdown"} \subseteq FaultKinds
  BY DEF FaultKinds
<1>2. CASE worker[w] = "stopping" /\ UNCHANGED faults
  BY <1>1, <1>2 DEF StopsAreCounted, NothingRefused
<1>3. CASE Fault("db")
  BY <1>1, <1>3, FaultCounted DEF NothingRefused
<1>4. QED
  BY <1>2, <1>3 DEF TxFails

(* Faults are counted, and nothing that was refused is taken back.         *)
LEMMA RefusalLasts ==
  ASSUME faults \in [FaultKinds -> Nat], StopsAreCounted,
         \/ UNCHANGED faults \/ \E k \in FaultKinds : Fault(k)
         \/ \E w \in Workers : TxFails(w),
         \A w \in Workers : worker'[w] = "stopping" => worker[w] = "stopping" \/ Fault("shutdown")
  PROVE  /\ \A k \in FaultKinds : faults'[k] \in Nat /\ faults'[k] >= faults[k]
         /\ StopsAreCounted'
         /\ NothingRefused' => NothingRefused
<1>1. {"db", "shutdown"} \subseteq FaultKinds
  BY DEF FaultKinds
<1>2. faults' \in [FaultKinds -> Nat] /\ \A k \in FaultKinds : faults'[k] >= faults[k]
  BY <1>1, FaultCounted DEF TxFails
<1>3. Fault("shutdown") => faults'["shutdown"] > 0
  BY <1>1, FaultCounted
<1>4. /\ faults["db"] \in Nat /\ faults'["db"] >= faults["db"] /\ faults'["db"] \in Nat
      /\ faults["shutdown"] \in Nat /\ faults'["shutdown"] >= faults["shutdown"]
      /\ faults'["shutdown"] \in Nat
  BY <1>1, <1>2
<1>5. QED
  BY <1>2, <1>3, <1>4 DEF StopsAreCounted, NothingRefused

-----------------------------------------------------------------------------
(* The publisher's event is pending until its message is in the queue.     *)
LEMMA PublisherCarries ==
  ASSUME NEW phases, JobQueueTypeOK(phases), CarryInv, NEW j \in Jobs,
         CreateJob(j) \/ Publish(j) \/ PublishTwice(j) \/ PublishFails(j)
  PROVE  CarryInv'
<1>1. BrokerOK /\ HandlersOK(phases) /\ JobTablesOK
  BY TypeParts
<1>2. UNCHANGED <<pc, msg, held, dropped>>
  BY DEF CreateJob, Publish, PublishTwice, PublishFails, queueVars, requestVars
<1>3. \A i \in Jobs \ {j} : status'[i] = status[i] /\ outbox'[i] = outbox[i]
  BY <1>1 DEF JobTablesOK, CreateJob, SetStatus, Publish, PublishTwice, PublishFails, requestVars
<1>4. \A i \in Jobs : (Carried(i) => Carried(i)') /\ (HasWorker(i)' => HasWorker(i))
  <2>1. \A m \in Messages : queue[m] > 0 => queue'[m] > 0
    BY <1>1, MessageShape
       DEF BrokerOK, CreateJob, Publish, PublishTwice, PublishFails, Plus, queueVars
  <2>2. QED
    BY <1>2, <2>1 DEF Carried, Ready, Handled, HasWorker, Job
<1>5. /\ outbox'[j] # "none" /\ status'[j] # NotCreated
      /\ Owed(j)' => Carried(j)' \/ Owed(j)
  <2>1. CASE CreateJob(j)
    BY <1>1, <1>2, <2>1
       DEF JobTablesOK, CreateJob, SetStatus, NotCreated, Owed, Taken, HasWorker, Terminal, Job
  <2>2. CASE Publish(j)
    <3>1. queue'[Requested(j)] > 0
      BY <1>1, <2>2, MessageShape DEF BrokerOK, Publish, Plus
    <3>2. QED
      BY <1>1, <2>2, <3>1, MessageShape
         DEF JobTablesOK, Publish, CanPublish, CarryInv, Carried, Ready
  <2>3. CASE PublishTwice(j) \/ PublishFails(j)
    <3>1. /\ outbox'[j] \in {"pending", "failed"} /\ UNCHANGED status
          /\ status[j] # NotCreated
      BY <1>1, <2>3
         DEF JobTablesOK, PublishTwice, PublishFails, CanPublish, requestVars, CarryInv
    <3>2. QED
      BY <1>2, <3>1 DEF Owed, Taken, HasWorker, Job
  <2>4. QED
    BY <2>1, <2>2, <2>3
<1>6. ASSUME NEW i \in Jobs \ {j} PROVE (Owed(i)' => Owed(i)) /\ (Ready(i)' => Ready(i))
  <2>1. \A m \in Messages : m.job # j => queue'[m] = queue[m]
    BY <1>1, MessageShape
       DEF BrokerOK, CreateJob, Publish, PublishTwice, PublishFails, Plus, queueVars
  <2>2. QED
    BY <1>2, <1>3, <2>1 DEF Owed, Taken, HasWorker, Ready, Job
<1>7. \A i \in Jobs \ {j} : outbox'[i] = "none" <=> status'[i] = NotCreated
  BY <1>3 DEF CarryInv
<1>8. QED
  BY <1>3, <1>4, <1>5, <1>6, <1>7, CarryFrame

(* The consumer acknowledges a delivery only when it was dealt with: what  *)
(* it gives up is in one of the queues.                                    *)
LEMMA ConsumerCarries ==
  ASSUME NEW phases, phases \cap {"idle", "done"} = {}, JobQueueTypeOK(phases), CarryInv,
         NEW h \in Handlers,
         \/ ConsumerStep(h) \/ RepublishFails(h)
         \/ \E m \in Messages, phase \in phases : Deliver(h, m, phase),
         UNCHANGED <<status, requestVars>>
  PROVE  CarryInv'
<1>1. BrokerOK /\ HandlersOK(phases)
  BY TypeParts
<1>2. ASSUME NEW i \in Jobs, Carried(i) PROVE Ready(i)' \/ Handled(i)'
  <2>1. ASSUME NEW m \in Messages, NEW phase \in phases, Deliver(h, m, phase)
        PROVE  Ready(i)' \/ Handled(i)'
    <3>1. /\ pc[h] = "idle" /\ pc'[h] = phase /\ msg'[h] = m /\ held'[h]
          /\ \A g \in Handlers \ {h} : pc'[g] = pc[g] /\ msg'[g] = msg[g] /\ held'[g] = held[g]
          /\ \A n \in Messages \ {m} : queue'[n] = queue[n]
      BY <1>1, <2>1 DEF BrokerOK, HandlersOK, Deliver, Goto
    <3>2. CASE Handled(i)
      BY <3>1, <3>2 DEF Handled, Job
    <3>3. CASE Ready(i) /\ m.job # i
      BY <3>1, <3>3 DEF Ready
    <3>4. CASE m.job = i
      BY <3>1, <3>4 DEF Handled, Job
    <3>5. QED
      BY <1>2, <3>2, <3>3, <3>4 DEF Carried
  <2>2. ASSUME ConsumerStep(h) \/ RepublishFails(h) PROVE Ready(i)' \/ Handled(i)'
    <3>1. pc[h] # "idle" /\ msg[h] \in Messages
      BY <1>1, <2>2, BusyHasMessage
         DEF ConsumerStep, Ack, RefuseToDlq, Republish, Requeue, RepublishFails
    <3>2. \A g \in Handlers \ {h} : pc'[g] = pc[g] /\ msg'[g] = msg[g] /\ held'[g] = held[g]
      BY <1>1, <2>2
         DEF HandlersOK, ConsumerStep, Ack, RefuseToDlq, Republish, Requeue, RepublishFails,
             Release, Goto
    <3>3. /\ DeadLettered(msg[h]) \in Messages /\ DeadLettered(msg[h]).job = Job(h)
          /\ msg[h].attempt < MaxRetries =>
               NextAttempt(msg[h]) \in Messages /\ NextAttempt(msg[h]).job = Job(h)
      BY <3>1, MessageShape DEF Job
    <3>4. \A m \in Messages : queue[m] > 0 => queue'[m] > 0
      BY <1>1, <2>2, <3>1, <3>3
         DEF BrokerOK, ConsumerStep, Ack, RefuseToDlq, Republish, Requeue, RepublishFails, Plus
    <3>5. pc[h] # "done" /\ held[h] => \E m \in Messages : m.job = Job(h) /\ queue'[m] > 0
      <4>1. CASE Ack(h)
        BY <4>1 DEF Ack
      <4>2. CASE RefuseToDlq(h)
        BY <1>1, <3>3, <4>2 DEF BrokerOK, RefuseToDlq, Plus
      <4>3. CASE Republish(h)
        BY <1>1, <3>3, <4>3 DEF BrokerOK, Republish, Plus
      <4>4. CASE Requeue(h)
        BY <1>1, <3>1, <4>4 DEF BrokerOK, Requeue, Plus, Job
      <4>5. CASE RepublishFails(h)
        <5>1. \A q \in [Messages -> Nat] : Plus(q, msg[h])[msg[h]] > 0
          BY <3>1 DEF Plus
        <5>2. NextAttempt(msg[h]) \in Messages
          BY <3>3, <4>5 DEF RepublishFails
        <5>3. held[h] => queue'[msg[h]] > 0
          BY <1>1, <4>5, <5>1, <5>2, QueueOperators DEF BrokerOK, RepublishFails
        <5>4. QED
          BY <3>1, <5>3 DEF Job
      <4>6. QED
        BY <2>2, <4>1, <4>2, <4>3, <4>4, <4>5 DEF ConsumerStep
    <3>6. CASE Ready(i)
      BY <3>4, <3>6 DEF Ready
    <3>7. CASE Handled(i)
      <4>1. PICK g \in Handlers : held[g] /\ pc[g] \notin {"idle", "done"} /\ Job(g) = i
        BY <3>7 DEF Handled
      <4>2. CASE g = h
        BY <3>5, <4>1, <4>2 DEF Ready
      <4>3. CASE g # h
        BY <3>2, <4>1, <4>3 DEF Handled, Job
      <4>4. QED
        BY <4>2, <4>3
    <3>8. QED
      BY <1>2, <3>6, <3>7 DEF Carried
  <2>3. QED
    BY <2>1, <2>2
<1>3. ASSUME NEW i \in Jobs, Owed(i)', ~Carried(i)' PROVE Owed(i)
  <2>1. ASSUME NEW m \in Messages, NEW phase \in phases, Deliver(h, m, phase)
        PROVE  Owed(i)
    <3>1. /\ pc'[h] = phase /\ msg'[h] = m /\ held'[h]
          /\ \A g \in Handlers \ {h} : pc'[g] = pc[g] /\ msg'[g] = msg[g]
      BY <1>1, <2>1 DEF HandlersOK, Deliver, Goto
    <3>2. m.job # i
      BY <1>3, <3>1 DEF Carried, Handled, Job
    <3>3. QED
      BY <1>3, <3>1, <3>2 DEF Owed, Taken, HasWorker, Job, requestVars
  <2>2. ASSUME ConsumerStep(h) \/ RepublishFails(h) PROVE Owed(i)
    <3>1. pc[h] # "idle" /\ (pc'[h] # "idle" => msg'[h] = msg[h])
      BY <1>1, <2>2
         DEF HandlersOK, ConsumerStep, Ack, RefuseToDlq, Republish, Requeue, RepublishFails,
             Release, Goto
    <3>2. \A g \in Handlers \ {h} : pc'[g] = pc[g] /\ msg'[g] = msg[g]
      BY <1>1, <2>2
         DEF HandlersOK, ConsumerStep, Ack, RefuseToDlq, Republish, Requeue, RepublishFails,
             Release, Goto
    <3>3. QED
      BY <1>3, <3>1, <3>2 DEF Owed, Taken, HasWorker, Job, requestVars
  <2>3. QED
    BY <2>1, <2>2
<1>4. ASSUME NEW i \in Jobs, Ready(i)' \/ HasWorker(i)' PROVE Ready(i) \/ HasWorker(i)
  <2>1. ASSUME NEW m \in Messages, NEW phase \in phases, Deliver(h, m, phase)
        PROVE  Ready(i) \/ HasWorker(i)
    <3>1. /\ queue[m] > 0 /\ msg'[h] = m
          /\ \A g \in Handlers \ {h} : pc'[g] = pc[g] /\ msg'[g] = msg[g]
          /\ \A n \in Messages \ {m} : queue'[n] = queue[n]
      BY <1>1, <2>1 DEF BrokerOK, HandlersOK, Deliver, Goto
    <3>2. QED
      BY <1>4, <3>1 DEF Ready, HasWorker, Job
  <2>2. ASSUME ConsumerStep(h) \/ RepublishFails(h) PROVE Ready(i) \/ HasWorker(i)
    <3>1. pc[h] # "idle" /\ msg[h] \in Messages
      BY <1>1, <2>2, BusyHasMessage
         DEF ConsumerStep, Ack, RefuseToDlq, Republish, Requeue, RepublishFails
    <3>2. \A g \in Handlers : pc'[g] = "idle" \/ g = h \/ (pc'[g] = pc[g] /\ msg'[g] = msg[g])
      BY <1>1, <2>2
         DEF HandlersOK, ConsumerStep, Ack, RefuseToDlq, Republish, Requeue, RepublishFails,
             Release, Goto
    <3>3. pc'[h] # "idle" => msg'[h] = msg[h]
      BY <1>1, <2>2
         DEF HandlersOK, ConsumerStep, Ack, RefuseToDlq, Republish, Requeue, RepublishFails,
             Release, Goto
    <3>4. \A m \in Messages : m.job # Job(h) => queue'[m] = queue[m]
      BY <1>1, <2>2, <3>1, MessageShape
         DEF BrokerOK, ConsumerStep, Ack, RefuseToDlq, Republish, Requeue, RepublishFails, Plus,
             Job
    <3>5. QED
      BY <1>4, <3>1, <3>2, <3>3, <3>4 DEF Ready, HasWorker, Job
  <2>3. QED
    BY <2>1, <2>2
<1>5. \A i \in Jobs : /\ outbox'[i] = "none" <=> status'[i] = NotCreated
                      /\ status[i] # NotCreated => status'[i] # NotCreated
  BY DEF CarryInv, requestVars
<1>6. QED
  BY <1>2, <1>3, <1>4, <1>5, CarryFrame DEF Carried

(* What is given back to the broker is ready again, and nothing else is.   *)
LEMMA RedeliveredIsReady ==
  ASSUME queue \in [Messages -> Nat], NEW hs \in SUBSET Handlers,
         queue' = Redelivered(hs), NEW m \in Messages
  PROVE  queue'[m] > 0 <=> queue[m] > 0 \/ \E h \in hs : held[h] /\ msg[h] = m
<1> DEFINE mine == {h \in hs : held[h] /\ msg[h] = m}
<1>1. IsFiniteSet(mine)
  BY HandlersFinite, FS_Subset
<1>2. Cardinality(mine) \in Nat /\ (mine # {} <=> Cardinality(mine) > 0)
  BY <1>1, FS_CardinalityType, FS_EmptySet
<1>3. queue'[m] = queue[m] + Cardinality(mine)
  BY DEF Redelivered
<1>4. QED
  BY <1>2, <1>3

(* A replica that dies and a channel that is lost give everything back.    *)
LEMMA ReplicaCarries ==
  ASSUME NEW phases, JobQueueTypeOK(phases), CarryInv, NEW w \in Workers,
         \/ WorkerCrash(w) \/ Shutdown(w) \/ WorkerExit(w) \/ Restart(w)
         \/ \E source \in {"work", "dlq"} : ChannelLost(w, source),
         UNCHANGED <<status, requestVars>>
  PROVE  CarryInv'
<1> DEFINE Keeps(i) == /\ Carried(i) => Carried(i)'
                       /\ Ready(i)' => Ready(i) \/ HasWorker(i)
<1>1. BrokerOK /\ HandlersOK(phases)
  BY TypeParts
<1>2. ASSUME NEW hs \in SUBSET Handlers, queue' = Redelivered(hs),
             \A g \in Handlers \ hs : pc'[g] = pc[g] /\ msg'[g] = msg[g] /\ held'[g] = held[g],
             NEW i \in Jobs
      PROVE  Keeps(i)
  <2>1. Ready(i) => Ready(i)'
    BY <1>1, <1>2, RedeliveredIsReady DEF BrokerOK, Ready
  <2>2. ASSUME Handled(i) PROVE Carried(i)'
    <3>1. PICK g \in Handlers : held[g] /\ pc[g] \notin {"idle", "done"} /\ Job(g) = i
      BY <2>2 DEF Handled
    <3>2. CASE g \in hs
      <4>1. msg[g] \in Messages /\ msg[g].job = i
        BY <1>1, <3>1, BusyHasMessage DEF Job
      <4>2. queue'[msg[g]] > 0
        BY <1>1, <1>2, <3>1, <3>2, <4>1, RedeliveredIsReady DEF BrokerOK
      <4>3. QED
        BY <4>1, <4>2 DEF Carried, Ready
    <3>3. CASE g \notin hs
      BY <1>2, <3>1, <3>3 DEF Carried, Handled, Job
    <3>4. QED
      BY <3>2, <3>3
  <2>3. ASSUME Ready(i)' PROVE Ready(i) \/ HasWorker(i)
    <3>1. PICK m \in Messages : m.job = i /\ queue'[m] > 0
      BY <2>3 DEF Ready
    <3>2. queue[m] > 0 \/ \E g \in hs : held[g] /\ msg[g] = m
      BY <1>1, <1>2, <3>1, RedeliveredIsReady DEF BrokerOK
    <3>3. ASSUME NEW g \in hs, msg[g] = m PROVE HasWorker(i)
      BY <1>1, <3>1, <3>3, MessageShape DEF HandlersOK, HasWorker, Job
    <3>4. QED
      BY <3>1, <3>2, <3>3 DEF Ready
  <2>4. QED
    BY <2>1, <2>2, <2>3 DEF Carried
<1>3. ASSUME NEW i \in Jobs PROVE Keeps(i)
  <2>1. CASE Shutdown(w) \/ WorkerExit(w) \/ Restart(w)
    BY <2>1 DEF Shutdown, WorkerExit, Restart, Carried, Ready, Handled, Job
  <2>2. CASE WorkerCrash(w)
    <3> DEFINE hs == {h \in Handlers : h[1] = w}
    <3>1. /\ queue' = Redelivered(hs)
          /\ \A g \in Handlers \ hs : pc'[g] = pc[g] /\ msg'[g] = msg[g] /\ held'[g] = held[g]
      BY <1>1, <2>2 DEF HandlersOK, WorkerCrash
    <3>2. QED
      BY <1>2, <3>1
  <2>3. ASSUME NEW source, ChannelLost(w, source) PROVE Keeps(i)
    <3> DEFINE hs == {h \in Handlers : h[1] = w /\ Source(h) = source /\ held[h]}
    <3>1. /\ queue' = Redelivered(hs)
          /\ \A g \in Handlers \ hs : pc'[g] = pc[g] /\ msg'[g] = msg[g] /\ held'[g] = held[g]
      BY <1>1, <2>3 DEF HandlersOK, ChannelLost
    <3>2. QED
      BY <1>2, <3>1
  <2>4. QED
    BY <2>1, <2>2, <2>3
<1>4. \A g \in Handlers : pc'[g] = "idle" \/ (pc'[g] = pc[g] /\ msg'[g] = msg[g])
  BY <1>1
     DEF HandlersOK, WorkerCrash, Shutdown, WorkerExit, Restart, ChannelLost
<1>5. \A i \in Jobs : (Owed(i)' => Owed(i)) /\ (HasWorker(i)' => HasWorker(i))
  BY <1>4 DEF Owed, Taken, HasWorker, Job, requestVars
<1>6. \A i \in Jobs : outbox'[i] = "none" <=> status'[i] = NotCreated
  BY DEF CarryInv, requestVars
<1>7. QED
  BY <1>3, <1>5, <1>6, CarryFrame

(* A handler that goes on carries its job on, and it is done only when the *)
(* job has come to its end, or is lost with its dead letter.               *)
LEMMA HandlerCarries ==
  ASSUME NEW phases, JobQueueTypeOK(phases), CarryInv,
         NEW h \in Handlers, pc[h] # "idle", NEW phase, phase # "idle", Goto(h, phase),
         UNCHANGED <<queue, worker, msg, held>>,
         UNCHANGED requestVars \/ DropDeadLetter(h),
         \/ UNCHANGED status
         \/ \E to \in Status : status[Job(h)] \in Unfinished /\ SetStatus(Job(h), to),
         phase = "done" => DropDeadLetter(h) \/ status'[Job(h)] \in Terminal
  PROVE  CarryInv'
<1>1. HandlersOK(phases) /\ JobTablesOK /\ Job(h) \in Jobs
  BY TypeParts, BusyHasMessage
<1>2. /\ UNCHANGED outbox /\ dropped \subseteq dropped'
      /\ DropDeadLetter(h) /\ held[h] => Job(h) \in dropped'
  BY DEF requestVars, DropDeadLetter
<1>3. pc'[h] = phase /\ \A g \in Handlers \ {h} : pc'[g] = pc[g]
  BY <1>1 DEF HandlersOK, Goto
<1>4. \A i \in Jobs : /\ status'[i] = NotCreated <=> status[i] = NotCreated
                      /\ status[i] \in Terminal => status'[i] \in Terminal
                      /\ i # Job(h) => status'[i] = status[i]
  BY <1>1 DEF JobTablesOK, SetStatus, NotCreated, Unfinished, Status, Terminal
<1>5. \A i \in Jobs : /\ Owed(i)' => Owed(i)
                      /\ Ready(i)' => Ready(i)
                      /\ HasWorker(i)' => HasWorker(i)
  BY <1>1, <1>2, <1>3, <1>4 DEF Owed, Taken, HasWorker, Ready, Job
<1>6. ASSUME NEW i \in Jobs, Owed(i)', Carried(i) PROVE Carried(i)'
  <2>1. CASE Ready(i)
    BY <2>1 DEF Carried, Ready
  <2>2. CASE Handled(i)
    <3>1. PICK g \in Handlers : held[g] /\ pc[g] \notin {"idle", "done"} /\ Job(g) = i
      BY <2>2 DEF Handled
    <3>2. g = h => phase # "done"
      BY <1>2, <1>6, <3>1 DEF Owed
    <3>3. pc'[g] \notin {"idle", "done"}
      BY <1>3, <3>1, <3>2
    <3>4. QED
      BY <3>1, <3>3 DEF Carried, Handled, Job
  <2>3. QED
    BY <1>6, <2>1, <2>2 DEF Carried
<1>7. \A i \in Jobs : outbox'[i] = "none" <=> status'[i] = NotCreated
  BY <1>2, <1>4 DEF CarryInv
<1>8. QED
  BY <1>4, <1>5, <1>6, <1>7, CarryFrame

(* The sweeper gives up on jobs or marks one failed that was taken up.     *)
LEMMA TablesCarry ==
  ASSUME NEW phases, JobQueueTypeOK(phases), CarryInv,
         UNCHANGED <<queue, worker, pc, msg, held, requestVars>>,
         \/ UNCHANGED status
         \/ \E j \in Jobs, to \in {"failed", "dead_letter"} :
                CanTransition(status[j], to) /\ SetStatus(j, to)
  PROVE  CarryInv'
<1>1. status \in [Jobs -> JobState]
  BY DEF JobQueueTypeOK
<1>2. \A i \in Jobs : Carried(i) => Carried(i)'
  BY DEF Carried, Ready, Handled, Job
<1>3. ASSUME NEW j \in Jobs, NEW to \in {"failed", "dead_letter"},
             CanTransition(status[j], to), SetStatus(j, to)
      PROVE  /\ status[j] # NotCreated
             /\ status[j] \notin Terminal
             /\ status'[j] = to
             /\ to \in Terminal \/ status[j] \notin {NotCreated, "queued"}
             /\ \A i \in Jobs \ {j} : status'[i] = status[i]
  BY <1>1, <1>3 DEF CanTransition, validTransitions, SetStatus, NotCreated, Terminal
<1>4. \A i \in Jobs : /\ Owed(i)' => Owed(i)
                      /\ Ready(i)' => Ready(i)
                      /\ HasWorker(i)' => HasWorker(i)
  BY <1>1, <1>3 DEF Owed, Taken, HasWorker, Ready, Job, requestVars
<1>5. \A i \in Jobs : /\ outbox'[i] = "none" <=> status'[i] = NotCreated
                      /\ status[i] # NotCreated => status'[i] # NotCreated
  BY <1>1, <1>3 DEF CarryInv, NotCreated, requestVars
<1>6. QED
  BY <1>2, <1>4, <1>5, CarryFrame
=============================================================================
