---------------------------- MODULE Idempotency ----------------------------
(***************************************************************************)
(* Idempotency keys of the HTTP API.  Requests that carry the same         *)
(* Idempotency-Key race for the row of the key in Postgres: the one that   *)
(* claims it runs the handler and stores its response, the others get that *)
(* response or a conflict, and a request whose claim itself fails runs the *)
(* handler unprotected.  Requests are lost at any step: the client         *)
(* disconnects, which cancels the context of every query, the handler      *)
(* panics, or the API process dies.                                        *)
(***************************************************************************)
EXTENDS Naturals

CONSTANTS
  Requests,       \* HTTP requests that carry the header
  Keys,           \* subject of the caller and value of the header
  Hashes,         \* SHA-256 of method, path and body
  Nobody,         \* no request
  MaxLost,        \* bound: requests abandoned half way
  MaxDbFaults     \* bound: statements of the store that fail

ASSUME IdempotencyAssumption ==
  /\ Nobody \notin Requests
  /\ MaxLost \in Nat
  /\ MaxDbFaults \in Nat

VARIABLES
  row,            \* the row of each key in idempotency_keys
  pc,             \* where each request is
  key, hash,      \* what it carries
  seen,           \* the row in the snapshot of its claim
  open,           \* it was let through without a claim
  outcome,        \* what it ended with
  answer,         \* the request whose response its client got
  expired,        \* the row it met has been cleaned up since
  lost,           \* requests abandoned so far
  dbFaults        \* statements that have failed so far

request == <<key, hash>>
result == <<outcome, answer, expired>>
faults == <<lost, dbFaults>>
vars == <<row, pc, request, seen, open, result, faults>>

(* The request whose response is stored stands for the stored response.    *)
Record ==
  [status: {"processing", "completed", "failed"}, hash: Hashes,
   response: Requests \cup {Nobody}]

Absent == [status |-> "absent"]

Phases == {"idle", "claiming", "handling", "finalizing", "done", "lost"}

(* What the handler answered: below 500 and small enough to keep, above    *)
(* MaxCachedResponseBytes, or 5xx.                                         *)
Outcomes == {"ok", "oversized", "server_error"}

(* What a request ends with when it does not run the handler.              *)
Refusals == {"replayed", "reused_key", "in_progress"}

Init ==
  /\ row = [k \in Keys |-> Absent]
  /\ pc = [r \in Requests |-> "idle"]
  /\ key \in [Requests -> Keys]
  /\ hash \in [Requests -> Hashes]
  /\ seen = [r \in Requests |-> Absent]
  /\ open = [r \in Requests |-> FALSE]
  /\ outcome = [r \in Requests |-> "none"]
  /\ answer = [r \in Requests |-> Nobody]
  /\ expired = [r \in Requests |-> FALSE]
  /\ lost = 0
  /\ dbFaults = 0

InFlight(r) == pc[r] \in {"claiming", "handling", "finalizing"}
Claimed(r) == pc[r] \in {"handling", "finalizing"} /\ ~open[r]

Goto(r, phase) == pc' = [pc EXCEPT ![r] = phase]

Store(k, status, h, response) ==
  row' = [row EXCEPT ![k] = [status |-> status, hash |-> h, response |-> response]]

DbFault == dbFaults < MaxDbFaults /\ dbFaults' = dbFaults + 1 /\ UNCHANGED lost

(***************************************************************************)
(* Claim.  One statement, but not one step: the fallback SELECT reads the  *)
(* snapshot taken when the statement started, while INSERT ... ON CONFLICT *)
(* waits for, and decides on, the latest committed row.                    *)
(***************************************************************************)
ClaimSnapshot(r) ==
  /\ pc[r] = "idle"
  /\ Goto(r, "claiming")
  /\ seen' = [seen EXCEPT ![r] = row[key[r]]]
  /\ UNCHANGED <<row, request, open, result, faults>>

(* Mutant: the upsert also takes over a key that is being processed.       *)
ClaimableHeld(k, h) ==
  \/ row[k].status = "absent"
  \/ row[k].status \in {"processing", "failed"} /\ row[k].hash = h

(* The INSERT meets no row, or its WHERE accepts the one it meets.         *)
Claimable(k, h) ==
  row[k].status = "absent" \/ (row[k].status = "failed" /\ row[k].hash = h)

Reserve(r) ==
  Claimable(key[r], hash[r]) /\ Store(key[r], "processing", hash[r], Nobody)

ClaimWins(r) ==
  /\ pc[r] = "claiming"
  /\ Reserve(r)
  /\ Goto(r, "handling")
  /\ UNCHANGED <<request, seen, open, result, faults>>

(* Mutant: the hash of the request is not compared.                        *)
RefusalUnhashed(r) ==
  IF seen[r].status = "completed" THEN "replayed" ELSE "in_progress"

Refusal(r) ==
  IF seen[r].hash # hash[r] THEN "reused_key"
  ELSE IF seen[r].status = "completed" THEN "replayed" ELSE "in_progress"

(* The key is taken and the snapshot shows by whom.                        *)
HandleExisting(r) ==
  /\ pc[r] = "claiming"
  /\ ~Claimable(key[r], hash[r])
  /\ seen[r] # Absent
  /\ Goto(r, "done")
  /\ outcome' = [outcome EXCEPT ![r] = Refusal(r)]
  /\ answer' = [answer EXCEPT ![r] =
       IF Refusal(r) = "replayed" THEN seen[r].response ELSE Nobody]
  /\ UNCHANGED <<row, request, seen, open, expired, faults>>

(* The middleware lets the request through without protection.             *)
FailOpen(r) ==
  /\ Goto(r, "handling")
  /\ open' = [open EXCEPT ![r] = TRUE]
  /\ UNCHANGED <<request, seen, result>>

(* The key is taken but the snapshot is older than its row: the statement  *)
(* returns no row, which Scan reports as an error.                         *)
ClaimSeesNothing(r) ==
  /\ pc[r] = "claiming"
  /\ ~Claimable(key[r], hash[r])
  /\ seen[r] = Absent
  /\ FailOpen(r)
  /\ UNCHANGED <<row, faults>>

(* The statement fails, whether or not the server executed it.             *)
ClaimFails(r) ==
  /\ pc[r] = "claiming"
  /\ DbFault
  /\ UNCHANGED row \/ Reserve(r)
  /\ FailOpen(r)

(***************************************************************************)
(* The handler, and what is kept of its response                           *)
(***************************************************************************)
(* The client reads the response as it is written, before the key is       *)
(* finalized.                                                              *)
Handle(r) ==
  /\ pc[r] = "handling"
  /\ Goto(r, IF open[r] THEN "done" ELSE "finalizing")
  /\ \E o \in Outcomes : outcome' = [outcome EXCEPT ![r] = o]
  /\ answer' = [answer EXCEPT ![r] = r]
  /\ UNCHANGED <<row, request, seen, open, expired, faults>>

(* Complete after an answer that can be kept; Fail after any other, which  *)
(* leaves the columns of the response alone.                               *)
Complete(r) == Store(key[r], "completed", row[key[r]].hash, r)
Fail(r) == Store(key[r], "failed", row[key[r]].hash, row[key[r]].response)

(* Mutant: a response that is too large to keep does not release the key.  *)
FinalizeKeptOnly(r) ==
  /\ pc[r] = "finalizing"
  /\ \/ outcome[r] = "ok" /\ Complete(r)
     \/ outcome[r] = "oversized" /\ UNCHANGED row
     \/ outcome[r] = "server_error" /\ Fail(r)
  /\ Goto(r, "done")
  /\ UNCHANGED <<request, seen, open, result, faults>>

(* Mutant: the outcome is stored where the status of the key belongs.      *)
FinalizeWithOutcome(r) ==
  /\ pc[r] = "finalizing"
  /\ Store(key[r], outcome[r], row[key[r]].hash, r)
  /\ Goto(r, "done")
  /\ UNCHANGED <<request, seen, open, result, faults>>

FinalizeClaim(r) ==
  /\ pc[r] = "finalizing"
  /\ \/ outcome[r] = "ok" /\ Complete(r)
     \/ outcome[r] # "ok" /\ Fail(r)
  /\ Goto(r, "done")
  /\ UNCHANGED <<request, seen, open, result, faults>>

FinalizeFails(r) ==
  /\ pc[r] = "finalizing"
  /\ DbFault
  /\ Goto(r, "done")
  /\ UNCHANGED <<row, request, seen, open, result>>

(* The request ends where it is: nothing that its context or its process   *)
(* would still have done happens, but the claim may have been executed.    *)
Lose(r) ==
  /\ InFlight(r)
  /\ lost < MaxLost
  /\ lost' = lost + 1
  /\ UNCHANGED row \/ (pc[r] = "claiming" /\ Reserve(r))
  /\ Goto(r, "lost")
  /\ UNCHANGED <<request, seen, open, result, dbFaults>>

(***************************************************************************)
(* Cleanup deletes rows not updated for 24 hours; no request lives as long. *)
(***************************************************************************)
Forget(k) ==
  /\ \A r \in Requests : key[r] = k => ~InFlight(r)
  /\ row' = [row EXCEPT ![k] = Absent]
  /\ expired' = [r \in Requests |-> expired[r] \/ (key[r] = k /\ pc[r] # "idle")]
  /\ UNCHANGED <<pc, request, seen, open, outcome, answer, faults>>

(* Mutant: keys that are being processed are kept.                         *)
CleanupFinished(k) == row[k].status \in {"completed", "failed"} /\ Forget(k)

Cleanup(k) == row[k] # Absent /\ Forget(k)

Serve(r) ==
  \/ ClaimWins(r) \/ HandleExisting(r) \/ ClaimSeesNothing(r)
  \/ Handle(r) \/ FinalizeClaim(r)

Next ==
  \/ \E r \in Requests :
       ClaimSnapshot(r) \/ Serve(r) \/ ClaimFails(r) \/ FinalizeFails(r) \/ Lose(r)
  \/ \E k \in Keys : Cleanup(k)

Spec == Init /\ [][Next]_vars

(* A request that arrived is served to its end; the cleanup loop is a      *)
(* supervised processor of the worker.                                     *)
FairSpec ==
  /\ Spec
  /\ \A r \in Requests : WF_vars(Serve(r))
  /\ \A k \in Keys : WF_vars(Cleanup(k))

(***************************************************************************)
(* Properties                                                              *)
(***************************************************************************)
(* The types of the variables.                                             *)
TypeOK ==
  /\ row \in [Keys -> Record \cup {Absent}]
  /\ pc \in [Requests -> Phases]
  /\ key \in [Requests -> Keys]
  /\ hash \in [Requests -> Hashes]
  /\ seen \in [Requests -> Record \cup {Absent}]
  /\ open \in [Requests -> BOOLEAN]
  /\ outcome \in [Requests -> Outcomes \cup Refusals \cup {"none"}]
  /\ answer \in [Requests -> Requests \cup {Nobody}]
  /\ expired \in [Requests -> BOOLEAN]
  /\ lost \in 0 .. MaxLost
  /\ dbFaults \in 0 .. MaxDbFaults

(* However claims, releases and retries of a key interleave, at most one   *)
(* request at a time holds its claim, and the key is then marked           *)
(* processing for that request's payload (Store.Claim).                    *)
OneClaimant ==
  \A r \in Requests : Claimed(r) =>
    /\ row[key[r]] = [status |-> "processing", hash |-> hash[r], response |-> Nobody]
    /\ \A s \in Requests : Claimed(s) /\ key[s] = key[r] => s = r

(* Requests that the middleware protected and that got a kept answer for   *)
(* one key, first hand or replayed, got the answer of the same execution,  *)
(* and sent the same payload (handleExisting, finalizeClaim).              *)
Answered(r) ==
  /\ outcome[r] \in {"ok", "replayed"}
  /\ ~open[r]
  /\ ~expired[r]

OneAnswer ==
  \A r, s \in Requests :
    Answered(r) /\ Answered(s) /\ key[r] = key[s] =>
      answer[r] = answer[s] /\ hash[r] = hash[s]

(* As long as no request is lost and no statement fails, a key is marked   *)
(* processing only while a request is at work on it (Status).              *)
ProcessingMeansInFlight ==
  \A k \in Keys : row[k].status = "processing" =>
    \E r \in Requests : key[r] = k /\ Claimed(r)

ProcessingHasOwner == lost = 0 /\ dbFaults = 0 => ProcessingMeansInFlight

(* Whatever became of the request that claimed it, a key does not stay     *)
(* processing for ever (finalizeClaim, Cleanup).                           *)
KeyIsReleased ==
  \A k \in Keys : row[k].status = "processing" ~> row[k].status # "processing"

(* "a mesma chave nunca executa o handler seguinte mais de uma vez com     *)
(* sucesso" (middleware.go): no two requests with one key both ran the     *)
(* handler to an answer that is kept.                                      *)
NeverTwice ==
  \A r, s \in Requests :
    /\ outcome[r] = "ok" /\ outcome[s] = "ok"
    /\ key[r] = key[s]
    /\ ~expired[r] /\ ~expired[s]
    => r = s
=============================================================================
