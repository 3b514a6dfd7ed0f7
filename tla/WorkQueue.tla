------------------------------ MODULE WorkQueue ------------------------------
(***************************************************************************)
(* A RabbitMQ work queue with its dead-letter queue, and the consumers of  *)
(* the worker replicas that read them (platform/messaging/consumer.go).    *)
(* The module gives the actions of the consumer; what a handler does       *)
(* between the delivery and its result is left to the modules that extend  *)
(* this one: they start a handler in the phase they pass to Deliver and    *)
(* end it in phase "done" (the handler returned nil) or "error".           *)
(***************************************************************************)
EXTENDS Naturals, FiniteSets

CONSTANTS
  Jobs,         \* job ids; a message carries nothing else the handler uses
  Workers,      \* replicas of cmd/worker
  MainSlots,    \* goroutines a replica gives to the work queue (prefetch)
  DlqSlots,     \* goroutines a replica gives to the dead-letter queue
  MaxRetries,   \* RABBITMQ_MAX_RETRIES
  FaultBudget   \* bound of the model: how often each kind of fault happens

(* "any" counts them all together.                                         *)
FaultKinds == {"crash", "shutdown", "channel", "db", "broker", "aging", "any"}

ASSUME SlotsAssumption ==
  /\ IsFiniteSet(Workers) /\ IsFiniteSet(MainSlots) /\ IsFiniteSet(DlqSlots)
  /\ MainSlots \cap DlqSlots = {}
ASSUME RetriesAssumption == MaxRetries \in Nat
ASSUME BudgetAssumption == FaultBudget \in [FaultKinds -> Nat]

VARIABLES
  queue,    \* how many copies of each message the broker holds ready
  worker,   \* the life of each replica: "up", "stopping" (ctx cancelled), "down"
  pc,       \* phase of each handler goroutine
  msg,      \* the delivery it handles
  held,     \* whether that delivery can still be acknowledged on its channel
  faults    \* how many faults of each kind have happened

queueVars == <<queue, worker, pc, msg, held, faults>>

Handlers == Workers \X (MainSlots \cup DlqSlots)

(* The queue a handler goroutine consumes.                                 *)
Source(h) == IF h[2] \in MainSlots THEN "work" ELSE "dlq"

(* attempt is the retry counter of the message header.                     *)
Messages == [queue : {"work", "dlq"}, job : Jobs, attempt : 0 .. MaxRetries]

NoMessage == [queue |-> "none"]

QueueInit ==
  /\ queue = [m \in Messages |-> 0]
  /\ worker = [w \in Workers |-> "up"]
  /\ pc = [h \in Handlers |-> "idle"]
  /\ msg = [h \in Handlers |-> NoMessage]
  /\ held = [h \in Handlers |-> FALSE]
  /\ faults = [k \in FaultKinds |-> 0]

QueueTypeOK(phases) ==
  /\ queue \in [Messages -> Nat]
  /\ worker \in [Workers -> {"up", "stopping", "down"}]
  /\ pc \in [Handlers -> {"idle", "done", "error"} \cup phases]
  /\ msg \in [Handlers -> Messages \cup {NoMessage}]
  /\ held \in [Handlers -> BOOLEAN]
  /\ faults \in [FaultKinds -> Nat]

(***************************************************************************)
(* Vocabulary of the actions                                               *)
(***************************************************************************)
Fault(kind) ==
  /\ faults[kind] < FaultBudget[kind]
  /\ faults["any"] < FaultBudget["any"]
  /\ faults' = [faults EXCEPT ![kind] = @ + 1, !["any"] = @ + 1]

Plus(q, m) == [q EXCEPT ![m] = @ + 1]

Goto(h, phase) == pc' = [pc EXCEPT ![h] = phase]

(* Mutant: the slot is freed and still refers to its delivery.             *)
ReleaseKeepsMessage(h) == Goto(h, "idle") /\ UNCHANGED <<msg, held>>

(* The goroutine ends and frees its slot of the prefetch semaphore.        *)
Release(h) ==
  /\ Goto(h, "idle")
  /\ msg' = [msg EXCEPT ![h] = NoMessage]
  /\ held' = [held EXCEPT ![h] = FALSE]

(* A consumer whose channel was lost waits for its goroutines to end       *)
(* before it opens another one and asks for more deliveries.               *)
Draining(h) ==
  \E g \in Handlers : /\ g[1] = h[1] /\ Source(g) = Source(h)
                      /\ pc[g] # "idle" /\ ~held[g]

(* The broker puts back what the handlers of a lost channel had not acked. *)
Redelivered(hs) ==
  [m \in Messages |-> queue[m] + Cardinality({h \in hs : held[h] /\ msg[h] = m})]

(***************************************************************************)
(* The consumer                                                            *)
(***************************************************************************)
Deliver(h, m, phase) ==
  /\ worker[h[1]] = "up"
  /\ pc[h] = "idle"
  /\ ~Draining(h)
  /\ m.queue = Source(h)
  /\ queue[m] > 0
  /\ queue' = [queue EXCEPT ![m] = @ - 1]
  /\ Goto(h, phase)
  /\ msg' = [msg EXCEPT ![h] = m]
  /\ held' = [held EXCEPT ![h] = TRUE]
  /\ UNCHANGED <<worker, faults>>

(* The handler (or the retry below) is through with the delivery.          *)
Ack(h) ==
  /\ pc[h] = "done"
  /\ Release(h)
  /\ UNCHANGED <<queue, worker, faults>>

NextAttempt(m) == [m EXCEPT !.attempt = @ + 1]

DeadLettered(m) == [m EXCEPT !.queue = "dlq"]

(* Mutant: the work queue has no dead-letter exchange.                     *)
RefuseAndDrop(h) ==
  /\ pc[h] = "error"
  /\ msg[h].attempt = MaxRetries
  /\ Release(h)
  /\ UNCHANGED <<queue, worker, faults>>

(* Mutant: the last refusal asks for a requeue.                            *)
RefuseWithRequeue(h) ==
  /\ pc[h] = "error"
  /\ msg[h].attempt = MaxRetries
  /\ queue' = IF held[h] THEN Plus(queue, msg[h]) ELSE queue
  /\ Release(h)
  /\ UNCHANGED <<worker, faults>>

(* After the last retry the delivery is refused without requeue, which the *)
(* broker turns into a message of the dead-letter queue.                   *)
RefuseToDlq(h) ==
  /\ pc[h] = "error"
  /\ msg[h].attempt = MaxRetries
  /\ queue' = IF held[h] THEN Plus(queue, DeadLettered(msg[h])) ELSE queue
  /\ Release(h)
  /\ UNCHANGED <<worker, faults>>

(* A copy with the next attempt number is published and confirmed; the     *)
(* original is acknowledged in a later step.                               *)
Republish(h) ==
  /\ pc[h] = "error"
  /\ msg[h].attempt < MaxRetries
  /\ queue' = Plus(queue, NextAttempt(msg[h]))
  /\ Goto(h, "done")
  /\ UNCHANGED <<worker, msg, held, faults>>

(* The confirmation of the copy is missing, whether or not the copy got    *)
(* to the broker, and the original goes back to the queue.                 *)
RepublishFails(h) ==
  /\ pc[h] = "error"
  /\ msg[h].attempt < MaxRetries
  /\ Fault("broker")
  /\ \E arrived \in {queue, Plus(queue, NextAttempt(msg[h]))} :
        queue' = IF held[h] THEN Plus(arrived, msg[h]) ELSE arrived
  /\ Release(h)
  /\ UNCHANGED worker

(* The backoff of a replica that is shutting down is cut short.            *)
Requeue(h) ==
  /\ pc[h] = "error"
  /\ msg[h].attempt < MaxRetries
  /\ worker[h[1]] = "stopping"
  /\ queue' = IF held[h] THEN Plus(queue, msg[h]) ELSE queue
  /\ Release(h)
  /\ UNCHANGED <<worker, faults>>

(***************************************************************************)
(* The life of a replica and of its channels                               *)
(***************************************************************************)

(* consumer_timeout or a dropped connection: the unacknowledged deliveries *)
(* of one consumer are ready again while its handlers go on running.       *)
ChannelLost(w, source) ==
  LET hs == {h \in Handlers : h[1] = w /\ Source(h) = source /\ held[h]}
  IN  /\ hs # {}
      /\ Fault("channel")
      /\ queue' = Redelivered(hs)
      /\ held' = [h \in Handlers |-> h \notin hs /\ held[h]]
      /\ UNCHANGED <<worker, pc, msg>>

(* The process dies: its goroutines vanish, the broker takes back what     *)
(* they had not acknowledged.                                              *)
WorkerCrash(w) ==
  LET hs == {h \in Handlers : h[1] = w}
  IN  /\ worker[w] # "down"
      /\ Fault("crash")
      /\ worker' = [worker EXCEPT ![w] = "down"]
      /\ queue' = Redelivered(hs)
      /\ pc' = [h \in Handlers |-> IF h \in hs THEN "idle" ELSE pc[h]]
      /\ msg' = [h \in Handlers |-> IF h \in hs THEN NoMessage ELSE msg[h]]
      /\ held' = [h \in Handlers |-> h \notin hs /\ held[h]]

(* SIGTERM cancels the context every processor and handler runs under.     *)
Shutdown(w) ==
  /\ worker[w] = "up"
  /\ Fault("shutdown")
  /\ worker' = [worker EXCEPT ![w] = "stopping"]
  /\ UNCHANGED <<queue, pc, msg, held>>

(* The process ends once every goroutine has.                              *)
WorkerExit(w) ==
  /\ worker[w] = "stopping"
  /\ \A h \in Handlers : h[1] = w => pc[h] = "idle"
  /\ worker' = [worker EXCEPT ![w] = "down"]
  /\ UNCHANGED <<queue, pc, msg, held, faults>>

Restart(w) ==
  /\ worker[w] = "down"
  /\ worker' = [worker EXCEPT ![w] = "up"]
  /\ UNCHANGED <<queue, pc, msg, held, faults>>

(* What the consumer does with a handler, whatever the handler did.        *)
ConsumerStep(h) == Ack(h) \/ RefuseToDlq(h) \/ Republish(h) \/ Requeue(h)
=============================================================================
