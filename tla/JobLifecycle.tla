---------------------------- MODULE JobLifecycle ----------------------------
(***************************************************************************)
(* What the job pipeline promises to those who ask for a scan, whatever    *)
(* the broker, the workers and the database connections do: a job moves    *)
(* only along the edges of job.go, a completed job publishes its outcome   *)
(* (findings and completion event) at most once, and giving up on a job    *)
(* and announcing that failure are one step.                               *)
(***************************************************************************)
EXTENDS Naturals, JobStatus

CONSTANT Jobs

VARIABLES
  status,        \* jobs.status
  completions,   \* times the findings and the completion event were stored
  failures       \* times the failure event was stored

vars == <<status, completions, failures>>

Init ==
  /\ status = [j \in Jobs |-> NotCreated]
  /\ completions = [j \in Jobs |-> 0]
  /\ failures = [j \in Jobs |-> 0]

Move(j, to) == status' = [status EXCEPT ![j] = to]

Create(j) ==
  /\ status[j] = NotCreated
  /\ Move(j, "queued")
  /\ UNCHANGED <<completions, failures>>

(* A worker starts an attempt, or records how the attempt ended.           *)
Advance(j) ==
  /\ \E to \in {"processing", "failed", "completed"} :
        /\ CanTransition(status[j], to)
        /\ Move(j, to)
  /\ UNCHANGED <<completions, failures>>

(* A worker records a whole attempt at once.                               *)
RunAttempt(j) ==
  /\ CanTransition(status[j], "processing")
  /\ \E to \in {"failed", "completed"} :
        CanTransition("processing", to) /\ Move(j, to)
  /\ UNCHANGED <<completions, failures>>

(* The outcome of a completed job becomes visible, once.                   *)
PublishOutcome(j) ==
  /\ status[j] = "completed"
  /\ completions[j] = 0
  /\ completions' = [completions EXCEPT ![j] = 1]
  /\ UNCHANGED <<status, failures>>

(* The job is abandoned and the failure is announced in the same step.     *)
GiveUp(j) ==
  /\ CanTransition(status[j], "dead_letter")
  /\ Move(j, "dead_letter")
  /\ failures' = [failures EXCEPT ![j] = @ + 1]
  /\ UNCHANGED completions

Next ==
  \E j \in Jobs : \/ Create(j) \/ Advance(j) \/ RunAttempt(j)
                  \/ PublishOutcome(j) \/ GiveUp(j)

Spec == Init /\ [][Next]_vars
=============================================================================
