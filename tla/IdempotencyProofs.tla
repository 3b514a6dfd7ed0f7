------------------------- MODULE IdempotencyProofs -------------------------
(***************************************************************************)
(* The safety of idempotency keys, for any number of requests, keys and    *)
(* payloads and any number of lost requests and failed statements.         *)
(***************************************************************************)
EXTENDS Idempotency, TLAPS

(* What the payload and the answer of a finished request say of its key:   *)
(* the row still holds that answer, or it never learned of it because the  *)
(* request that claimed it was lost or could not finalize it.              *)
Settled(r) ==
  /\ row[key[r]].hash = hash[r]
  /\ \/ row[key[r]].status = "completed" /\ row[key[r]].response = answer[r]
     \/ /\ row[key[r]].status = "processing"
        /\ \A s \in Requests : key[s] = key[r] => ~Claimed(s) /\ (Answered(s) => s = r)

(* Before the handler has run there is no outcome; the outcome of the      *)
(* handler answers its own request; only a claim is finalized; a completed *)
(* row that a claim has seen is still there when the claim decides.        *)
Progress(r) ==
  /\ pc[r] \in {"idle", "claiming", "handling"} => outcome[r] = "none"
  /\ outcome[r] = "ok" => answer[r] = r
  /\ pc[r] = "finalizing" => ~open[r] /\ outcome[r] \in Outcomes
  /\ pc[r] = "claiming" /\ seen[r].status = "completed" => row[key[r]] = seen[r]

IInv ==
  /\ TypeOK
  /\ OneClaimant
  /\ \A r \in Requests : Progress(r)
  /\ \A r \in Requests : Answered(r) /\ ~Claimed(r) => Settled(r)

(* The claimant of a key finds the row it reserved.                        *)
LEMMA ClaimantsRow ==
  ASSUME IInv, NEW r \in Requests, Claimed(r)
  PROVE  /\ row[key[r]].status = "processing"
         /\ row[key[r]].hash = hash[r]
         /\ row[key[r]].response = Nobody
         /\ row[key[r]] \in Record
<1>1. row[key[r]] = [status |-> "processing", hash |-> hash[r], response |-> Nobody]
  BY DEF IInv, OneClaimant
<1> QED BY <1>1 DEF IInv, TypeOK, Record

(* A key that a request may claim has no claimant and no answer yet.       *)
LEMMA ClaimableIsFree ==
  ASSUME IInv, NEW r \in Requests, Claimable(key[r], hash[r]),
         NEW s \in Requests, key[s] = key[r]
  PROVE  ~Claimed(s) /\ ~Answered(s)
<1>1. ~Claimed(s)
  BY ClaimantsRow DEF Claimable
<1>2. ASSUME Answered(s) PROVE FALSE
  <2>1. Settled(s) BY <1>1, <1>2 DEF IInv
  <2> QED BY <2>1 DEF Claimable, Settled
<1> QED BY <1>1, <1>2

(* The claimant of a key is alone with it: nobody else holds an answer.    *)
LEMMA ClaimantIsAlone ==
  ASSUME IInv, NEW r \in Requests, Claimed(r),
         NEW s \in Requests, key[s] = key[r], s # r
  PROVE  ~Claimed(s) /\ ~Answered(s)
<1>1. ~Claimed(s)
  BY DEF IInv, OneClaimant
<1>2. ASSUME Answered(s) PROVE FALSE
  <2>1. Settled(s) BY <1>1, <1>2 DEF IInv
  <2> QED BY <2>1, ClaimantsRow DEF Settled
<1> QED BY <1>1, <1>2

(* Reserving a key writes a row of the right type.                         *)
LEMMA ReserveType ==
  ASSUME TypeOK, NEW r \in Requests, Reserve(r)
  PROVE  /\ row' \in [Keys -> Record \cup {Absent}]
         /\ row'[key[r]] = [status |-> "processing", hash |-> hash[r], response |-> Nobody]
         /\ \A k \in Keys : k # key[r] => row'[k] = row[k]
BY DEF TypeOK, Reserve, Store, Record

(* Every step keeps the variables well typed.                              *)
LEMMA TypeStep == ASSUME TypeOK, IInv, [Next]_vars PROVE TypeOK'
<1> USE IdempotencyAssumption DEF TypeOK, Phases, Goto, request, result, faults
<1>1. ASSUME NEW r \in Requests, ClaimSnapshot(r) PROVE TypeOK'
  BY <1>1 DEF ClaimSnapshot
<1>2. ASSUME NEW r \in Requests, ClaimWins(r) PROVE TypeOK'
  BY <1>2, ReserveType DEF ClaimWins
<1>3. ASSUME NEW r \in Requests, HandleExisting(r) PROVE TypeOK'
  <2>1. Refusal(r) \in Refusals
    BY DEF Refusal, Refusals
  <2>2. seen[r] \in Record
    BY <1>3 DEF HandleExisting
  <2>3. seen[r].response \in Requests \cup {Nobody}
    BY <2>2 DEF Record
  <2> QED BY <1>3, <2>1, <2>3 DEF HandleExisting
<1>4. ASSUME NEW r \in Requests, ClaimSeesNothing(r) PROVE TypeOK'
  BY <1>4 DEF ClaimSeesNothing, FailOpen
<1>5. ASSUME NEW r \in Requests, ClaimFails(r) PROVE TypeOK'
  <2>1. row' \in [Keys -> Record \cup {Absent}]
    <3>1. CASE UNCHANGED row BY <3>1
    <3>2. CASE Reserve(r) BY <3>2, ReserveType
    <3> QED BY <1>5, <3>1, <3>2 DEF ClaimFails
  <2> QED BY <1>5, <2>1 DEF ClaimFails, FailOpen, DbFault
<1>6. ASSUME NEW r \in Requests, Handle(r) PROVE TypeOK'
  BY <1>6 DEF Handle
<1>7. ASSUME NEW r \in Requests, FinalizeClaim(r) PROVE TypeOK'
  <2>1. row[key[r]] \in Record
    BY <1>7, ClaimantsRow DEF FinalizeClaim, IInv, Progress, Claimed
  <2>2. row' \in [Keys -> Record \cup {Absent}]
    BY <1>7, <2>1 DEF FinalizeClaim, Complete, Fail, Store, Record
  <2> QED BY <1>7, <2>2 DEF FinalizeClaim
<1>8. ASSUME NEW r \in Requests, FinalizeFails(r) PROVE TypeOK'
  BY <1>8 DEF FinalizeFails, DbFault
<1>9. ASSUME NEW r \in Requests, Lose(r) PROVE TypeOK'
  <2>1. row' \in [Keys -> Record \cup {Absent}]
    <3>1. CASE UNCHANGED row BY <3>1
    <3>2. CASE Reserve(r) BY <3>2, ReserveType
    <3> QED BY <1>9, <3>1, <3>2 DEF Lose
  <2> QED BY <1>9, <2>1 DEF Lose
<1>10. ASSUME NEW k \in Keys, Cleanup(k) PROVE TypeOK'
  BY <1>10 DEF Cleanup, Forget
<1>11. CASE UNCHANGED vars
  BY <1>11 DEF vars
<1> QED
  BY <1>1, <1>2, <1>3, <1>4, <1>5, <1>6, <1>7, <1>8, <1>9, <1>10, <1>11
  DEF Next, Serve

(* What a step that may reserve a key does to the rows.                    *)
LEMMA ReserveOrNot ==
  ASSUME IInv, NEW r \in Requests, pc[r] = "claiming",
         UNCHANGED row \/ Reserve(r), UNCHANGED <<key, hash>>,
         NEW s \in Requests, Claimed(s) \/ Answered(s)
  PROVE  row'[key[s]] = row[key[s]]
<1>1. CASE UNCHANGED row
  BY <1>1
<1>2. CASE Reserve(r)
  <2>1. key[s] # key[r]
    BY <1>2, ClaimableIsFree DEF Reserve
  <2> QED BY <1>2, <2>1, ReserveType DEF IInv, TypeOK
<1> QED BY <1>1, <1>2

(* What a request carries does not change.                                 *)
LEMMA PayloadFixed == ASSUME [Next]_vars PROVE key' = key /\ hash' = hash
BY DEF Next, Serve, ClaimSnapshot, ClaimWins, HandleExisting, ClaimSeesNothing, ClaimFails,
       FailOpen, Handle, FinalizeClaim, FinalizeFails, Lose, Cleanup, Forget, vars, request

(* A completed row only changes in the cleanup.                            *)
LEMMA CompletedStays ==
  ASSUME TypeOK, IInv, [Next]_vars, NEW j \in Keys, row[j].status = "completed",
         \A k \in Keys : Cleanup(k) => k # j
  PROVE  row'[j] = row[j]
<1> USE DEF TypeOK
<1>1. ASSUME NEW r \in Requests, Reserve(r) PROVE row'[j] = row[j]
  BY <1>1, ReserveType DEF Reserve, Claimable
<1>2. ASSUME NEW r \in Requests, FinalizeClaim(r) PROVE row'[j] = row[j]
  <2>1. row[key[r]].status = "processing"
    BY <1>2, ClaimantsRow DEF FinalizeClaim, IInv, Progress, Claimed
  <2> QED BY <1>2, <2>1 DEF FinalizeClaim, Complete, Fail, Store
<1>3. ASSUME NEW k \in Keys, Cleanup(k) PROVE row'[j] = row[j]
  BY <1>3 DEF Cleanup, Forget
<1>4. CASE UNCHANGED row
  BY <1>4
<1>5. \/ UNCHANGED row
      \/ \E r \in Requests : Reserve(r) \/ FinalizeClaim(r)
      \/ \E k \in Keys : Cleanup(k)
  BY DEF Next, Serve, ClaimSnapshot, ClaimWins, HandleExisting, ClaimSeesNothing, ClaimFails,
         Handle, FinalizeFails, Lose, vars
<1> QED BY <1>1, <1>2, <1>3, <1>4, <1>5

(* Every step keeps a key to one claimant.                                 *)
LEMMA ClaimantStep == ASSUME TypeOK, IInv, [Next]_vars PROVE OneClaimant'
<1> USE DEF TypeOK, Goto, request, result, faults
<1> SUFFICES ASSUME NEW r \in Requests, Claimed(r)'
             PROVE  /\ row'[key'[r]] = [status |-> "processing", hash |-> hash'[r], response |-> Nobody]
                    /\ \A s \in Requests : Claimed(s)' /\ key'[s] = key'[r] => s = r
  BY DEF OneClaimant
<1>0. key' = key /\ hash' = hash
  BY PayloadFixed
<1>1. ASSUME \A s \in Requests : Claimed(s)' => Claimed(s),
             Claimed(r) => row'[key[r]] = row[key[r]]
      PROVE  /\ row'[key'[r]] = [status |-> "processing", hash |-> hash'[r], response |-> Nobody]
             /\ \A s \in Requests : Claimed(s)' /\ key'[s] = key'[r] => s = r
  BY <1>0, <1>1 DEF IInv, OneClaimant
<1>2. ASSUME NEW q \in Requests, ClaimSnapshot(q)
      PROVE  \A s \in Requests : Claimed(s)' => Claimed(s)
  BY <1>2 DEF ClaimSnapshot, Claimed
<1>3. ASSUME NEW q \in Requests, ClaimWins(q)
      PROVE  /\ row'[key'[r]] = [status |-> "processing", hash |-> hash'[r], response |-> Nobody]
             /\ \A s \in Requests : Claimed(s)' /\ key'[s] = key'[r] => s = r
  <2>1. \A s \in Requests : s # q /\ Claimed(s)' => Claimed(s)
    BY <1>3 DEF ClaimWins, Claimed
  <2>2. \A s \in Requests : Claimed(s) => key[s] # key[q]
    BY <1>3, ClaimableIsFree DEF ClaimWins, Reserve
  <2>3. CASE r = q
    BY <1>0, <1>3, <2>1, <2>2, <2>3, ReserveType DEF ClaimWins
  <2>4. CASE r # q
    <3>1. Claimed(r) BY <2>1, <2>4
    <3>2. row'[key[r]] = row[key[r]]
      BY <1>3, <2>2, <3>1, ReserveType DEF ClaimWins
    <3> QED BY <1>0, <2>1, <2>2, <3>1, <3>2 DEF IInv, OneClaimant
  <2> QED BY <2>3, <2>4
<1>4. ASSUME NEW q \in Requests, HandleExisting(q)
      PROVE  \A s \in Requests : Claimed(s)' => Claimed(s)
  BY <1>4 DEF HandleExisting, Claimed
<1>5. ASSUME NEW q \in Requests, ClaimSeesNothing(q)
      PROVE  \A s \in Requests : Claimed(s)' => Claimed(s)
  BY <1>5 DEF ClaimSeesNothing, FailOpen, Claimed
<1>6. ASSUME NEW q \in Requests, ClaimFails(q)
      PROVE  /\ \A s \in Requests : Claimed(s)' => Claimed(s)
             /\ Claimed(r) => row'[key[r]] = row[key[r]]
  <2>1. \A s \in Requests : Claimed(s)' => Claimed(s)
    BY <1>6 DEF ClaimFails, FailOpen, Claimed
  <2> QED BY <1>0, <1>6, <2>1, ReserveOrNot DEF ClaimFails
<1>7. ASSUME NEW q \in Requests, Handle(q)
      PROVE  \A s \in Requests : Claimed(s)' => Claimed(s)
  BY <1>7 DEF Handle, Claimed
<1>8. ASSUME NEW q \in Requests, FinalizeClaim(q)
      PROVE  /\ \A s \in Requests : Claimed(s)' => Claimed(s)
             /\ row'[key[r]] = row[key[r]]
  <2>1. \A s \in Requests : Claimed(s)' => Claimed(s) /\ s # q
    BY <1>8 DEF FinalizeClaim, Claimed
  <2>2. Claimed(q)
    BY <1>8 DEF FinalizeClaim, Claimed, IInv, Progress
  <2>3. key[r] # key[q]
    BY <2>1, <2>2, ClaimantIsAlone
  <2> QED BY <1>8, <2>1, <2>3 DEF FinalizeClaim, Complete, Fail, Store
<1>9. ASSUME NEW q \in Requests, FinalizeFails(q)
      PROVE  \A s \in Requests : Claimed(s)' => Claimed(s)
  BY <1>9 DEF FinalizeFails, Claimed
<1>10. ASSUME NEW q \in Requests, Lose(q)
      PROVE  /\ \A s \in Requests : Claimed(s)' => Claimed(s)
             /\ Claimed(r) => row'[key[r]] = row[key[r]]
  <2>1. \A s \in Requests : Claimed(s)' => Claimed(s)
    BY <1>10 DEF Lose, Claimed
  <2> QED BY <1>0, <1>10, <2>1, ReserveOrNot DEF Lose
<1>11. ASSUME NEW k \in Keys, Cleanup(k)
      PROVE  /\ \A s \in Requests : Claimed(s)' => Claimed(s)
             /\ row'[key[r]] = row[key[r]]
  <2>1. \A s \in Requests : Claimed(s)' => Claimed(s)
    BY <1>11 DEF Cleanup, Forget, Claimed
  <2>2. key[r] # k
    BY <1>11, <2>1 DEF Cleanup, Forget, Claimed, InFlight
  <2> QED BY <1>11, <2>1, <2>2 DEF Cleanup, Forget
<1>12. CASE UNCHANGED vars
  BY <1>1, <1>12 DEF vars, Claimed
<1>13. ASSUME NEW q \in Requests,
              \/ ClaimSnapshot(q) \/ HandleExisting(q) \/ ClaimSeesNothing(q)
              \/ Handle(q) \/ FinalizeFails(q)
       PROVE  row' = row
  BY <1>13 DEF ClaimSnapshot, HandleExisting, ClaimSeesNothing, Handle, FinalizeFails
<1> QED
  BY <1>1, <1>2, <1>3, <1>4, <1>5, <1>6, <1>7, <1>8, <1>9, <1>10, <1>11, <1>12, <1>13
  DEF Next, Serve

(* Every step keeps the progress of a request.                             *)
LEMMA ProgressStep ==
  ASSUME TypeOK, IInv, [Next]_vars, NEW r \in Requests
  PROVE  Progress(r)'
<1> USE DEF TypeOK, Goto, request, result, faults
<1>0. Progress(r) /\ key' = key /\ hash' = hash
  BY PayloadFixed DEF IInv
<1>1. ASSUME pc'[r] = "claiming", seen'[r].status = "completed"
      PROVE  row'[key'[r]] = seen'[r]
  <2>1. CASE pc[r] = "claiming"
    <3>1. seen'[r] = seen[r]
      BY <1>1, <2>1 DEF Next, Serve, ClaimSnapshot, ClaimWins, HandleExisting,
         ClaimSeesNothing, ClaimFails, FailOpen, Handle, FinalizeClaim, FinalizeFails, Lose,
         Cleanup, Forget, vars
    <3>2. row[key[r]] = seen[r] /\ row[key[r]].status = "completed"
      BY <1>0, <1>1, <2>1, <3>1 DEF Progress
    <3>3. \A k \in Keys : Cleanup(k) => k # key[r]
      BY <2>1 DEF Cleanup, Forget, InFlight
    <3> QED BY <1>0, <3>1, <3>2, <3>3, CompletedStays
  <2>2. CASE pc[r] # "claiming"
    <3>1. ClaimSnapshot(r)
      BY <1>1, <2>2 DEF Next, Serve, ClaimSnapshot, ClaimWins, HandleExisting,
         ClaimSeesNothing, ClaimFails, FailOpen, Handle, FinalizeClaim, FinalizeFails, Lose,
         Cleanup, Forget, vars
    <3> QED BY <1>0, <3>1 DEF ClaimSnapshot
  <2> QED BY <2>1, <2>2
<1>2. /\ pc'[r] \in {"idle", "claiming", "handling"} => outcome'[r] = "none"
      /\ outcome'[r] = "ok" => answer'[r] = r
      /\ pc'[r] = "finalizing" => ~open'[r] /\ outcome'[r] \in Outcomes
  <2> USE <1>0 DEF Progress
  <2>1. ASSUME NEW q \in Requests, ClaimSnapshot(q) PROVE <1>2!1 /\ <1>2!2 /\ <1>2!3
    BY <2>1 DEF ClaimSnapshot
  <2>2. ASSUME NEW q \in Requests, ClaimWins(q) PROVE <1>2!1 /\ <1>2!2 /\ <1>2!3
    BY <2>2 DEF ClaimWins
  <2>3. ASSUME NEW q \in Requests, HandleExisting(q) PROVE <1>2!1 /\ <1>2!2 /\ <1>2!3
    BY <2>3 DEF HandleExisting, Refusal
  <2>4. ASSUME NEW q \in Requests, ClaimSeesNothing(q) \/ ClaimFails(q)
        PROVE  <1>2!1 /\ <1>2!2 /\ <1>2!3
    BY <2>4 DEF ClaimSeesNothing, ClaimFails, FailOpen
  <2>5. ASSUME NEW q \in Requests, Handle(q) PROVE <1>2!1 /\ <1>2!2 /\ <1>2!3
    BY <2>5 DEF Handle
  <2>6. ASSUME NEW q \in Requests, FinalizeClaim(q) \/ FinalizeFails(q) \/ Lose(q)
        PROVE  <1>2!1 /\ <1>2!2 /\ <1>2!3
    BY <2>6 DEF FinalizeClaim, FinalizeFails, Lose
  <2>7. ASSUME NEW k \in Keys, Cleanup(k) PROVE <1>2!1 /\ <1>2!2 /\ <1>2!3
    BY <2>7 DEF Cleanup, Forget
  <2>8. CASE UNCHANGED vars
    BY <2>8 DEF vars
  <2> QED BY <2>1, <2>2, <2>3, <2>4, <2>5, <2>6, <2>7, <2>8 DEF Next, Serve
<1> QED BY <1>1, <1>2 DEF Progress

(* A request gets an answer by a replay or from its handler.               *)
LEMMA NewAnswer ==
  ASSUME TypeOK, [Next]_vars, NEW s \in Requests, Answered(s)', ~Answered(s)
  PROVE  \/ HandleExisting(s) /\ Refusal(s) = "replayed"
         \/ Handle(s) /\ ~open[s]
<1> USE DEF TypeOK, Answered, result
<1>1. ASSUME outcome' = outcome, (open' = open) \/ (\E q \in Requests : FailOpen(q)),
             expired' = expired
      PROVE  FALSE
  BY <1>1 DEF FailOpen
<1>2. ASSUME NEW q \in Requests, HandleExisting(q) PROVE s = q /\ Refusal(s) = "replayed"
  <2>1. Refusal(q) # "ok"
    BY DEF Refusal
  <2> QED BY <1>2, <2>1 DEF HandleExisting
<1>3. ASSUME NEW q \in Requests, Handle(q) PROVE s = q /\ ~open[s]
  BY <1>3 DEF Handle
<1>4. ASSUME NEW k \in Keys, Cleanup(k) PROVE FALSE
  BY <1>4 DEF Cleanup, Forget
<1>5. ASSUME NEW q \in Requests,
             \/ ClaimSnapshot(q) \/ ClaimWins(q) \/ ClaimSeesNothing(q) \/ ClaimFails(q)
             \/ FinalizeClaim(q) \/ FinalizeFails(q) \/ Lose(q)
      PROVE  FALSE
  BY <1>5, <1>1 DEF ClaimSnapshot, ClaimWins, ClaimSeesNothing, ClaimFails, FailOpen,
     FinalizeClaim, FinalizeFails, Lose
<1>6. CASE UNCHANGED vars
  BY <1>1, <1>6 DEF vars
<1> QED BY <1>2, <1>3, <1>4, <1>5, <1>6 DEF Next, Serve

(* A settled request stays settled unless its key is cleaned up: nobody    *)
(* can reserve a settled key, and a lost claim is never finalized.         *)
LEMMA SettledStays ==
  ASSUME TypeOK, IInv, [Next]_vars, NEW r \in Requests,
         Answered(r), ~Claimed(r), ~\E k \in Keys : k = key[r] /\ Cleanup(k),
         answer'[r] = answer[r]
  PROVE  Settled(r)'
<1> USE DEF TypeOK
<1>0. Settled(r) /\ key' = key /\ hash' = hash
  BY PayloadFixed DEF IInv
<1>1. CASE row[key[r]].status = "completed"
  <2>1. row'[key[r]] = row[key[r]]
    BY <1>1, CompletedStays
  <2> QED BY <1>0, <1>1, <2>1 DEF Settled
<1>2. CASE row[key[r]].status = "processing"
  <2>1. \A s \in Requests : key[s] = key[r] => ~Claimed(s) /\ (Answered(s) => s = r)
    BY <1>0, <1>2 DEF Settled
  <2>2. ASSUME NEW s \in Requests, key[s] = key[r]
        PROVE  ~Reserve(s) /\ ~FinalizeClaim(s) /\ ~ClaimWins(s)
    BY <1>2, <2>1, <2>2 DEF Reserve, Claimable, FinalizeClaim, ClaimWins, IInv, Progress, Claimed
  <2>3. row'[key[r]] = row[key[r]]
    <3>1. ASSUME NEW s \in Requests, Reserve(s) PROVE row'[key[r]] = row[key[r]]
      BY <2>2, <3>1, ReserveType
    <3>2. ASSUME NEW s \in Requests, FinalizeClaim(s) PROVE row'[key[r]] = row[key[r]]
      BY <2>2, <3>2 DEF FinalizeClaim, Complete, Fail, Store
    <3>3. ASSUME NEW k \in Keys, Cleanup(k) PROVE row'[key[r]] = row[key[r]]
      BY <3>3 DEF Cleanup, Forget
    <3>4. \/ UNCHANGED row
          \/ \E s \in Requests : Reserve(s) \/ FinalizeClaim(s)
          \/ \E k \in Keys : Cleanup(k)
      BY DEF Next, Serve, ClaimSnapshot, ClaimWins, HandleExisting, ClaimSeesNothing,
             ClaimFails, Handle, FinalizeFails, Lose, vars
    <3> QED BY <3>1, <3>2, <3>3, <3>4
  <2>4. ASSUME NEW s \in Requests, key[s] = key[r], Claimed(s)' PROVE FALSE
    <3>1. ~Claimed(s) /\ ~ClaimWins(s)
      BY <2>1, <2>2, <2>4
    <3> QED BY <2>4, <3>1 DEF Claimed, Next, Serve, ClaimSnapshot, ClaimWins, HandleExisting,
               ClaimSeesNothing, ClaimFails, FailOpen, Handle, FinalizeClaim, FinalizeFails,
               Lose, Cleanup, Forget, Goto, vars
  <2>5. ASSUME NEW s \in Requests, key[s] = key[r], Answered(s)' PROVE s = r
    <3>1. CASE Answered(s)
      BY <2>1, <2>5, <3>1
    <3>2. CASE ~Answered(s)
      <4>1. \/ HandleExisting(s) /\ Refusal(s) = "replayed"
            \/ Handle(s) /\ ~open[s]
        BY <2>5, <3>2, NewAnswer
      <4>2. ~(Handle(s) /\ ~open[s])
        BY <2>1, <2>5 DEF Handle, Claimed
      <4>3. seen[s].status = "completed" /\ pc[s] = "claiming"
        BY <4>1, <4>2 DEF HandleExisting, Refusal
      <4>4. row[key[s]] = seen[s]
        BY <4>3 DEF IInv, Progress
      <4> QED BY <1>2, <2>5, <4>3, <4>4
    <3> QED BY <3>1, <3>2
  <2> QED BY <1>0, <1>2, <2>3, <2>4, <2>5 DEF Settled
<1> QED BY <1>0, <1>1, <1>2 DEF Settled

(* Every step leaves the finished requests settled.                        *)
LEMMA SettledStep ==
  ASSUME TypeOK, IInv, [Next]_vars, NEW r \in Requests, Answered(r)', ~Claimed(r)'
  PROVE  Settled(r)'
<1> USE DEF TypeOK, Goto, request, result, faults
<1>0. key' = key /\ hash' = hash /\ Progress(r)
  BY PayloadFixed DEF IInv
<1>1. CASE Answered(r) /\ ~Claimed(r)
  <2>1. pc[r] \notin {"idle", "claiming", "handling"}
    BY <1>0, <1>1 DEF Answered, Progress
  <2>2. ~\E k \in Keys : k = key[r] /\ Cleanup(k)
    BY <2>1 DEF Cleanup, Forget, Answered
  <2>3. answer'[r] = answer[r]
    BY <2>1 DEF Next, Serve, ClaimSnapshot, ClaimWins, HandleExisting, ClaimSeesNothing,
       ClaimFails, FailOpen, Handle, FinalizeClaim, FinalizeFails, Lose, Cleanup, Forget, vars
  <2> QED BY <1>1, <2>2, <2>3, SettledStays
<1>2. CASE Answered(r) /\ Claimed(r)
  <2>1. pc[r] = "finalizing" /\ outcome[r] = "ok" /\ answer[r] = r
    BY <1>0, <1>2 DEF Answered, Claimed, Progress, Outcomes
  <2>2. FinalizeClaim(r) \/ FinalizeFails(r) \/ Lose(r)
    BY <1>2, <2>1 DEF Claimed, InFlight, Next, Serve, ClaimSnapshot, ClaimWins, HandleExisting,
       ClaimSeesNothing, ClaimFails, FailOpen, Handle, FinalizeClaim, FinalizeFails, Lose,
       Cleanup, Forget, vars
  <2>3. row[key[r]].status = "processing" /\ row[key[r]].hash = hash[r]
    BY <1>2, ClaimantsRow
  <2>4. CASE FinalizeClaim(r)
    <3>1. row'[key[r]] = [status |-> "completed", hash |-> hash[r], response |-> r]
      BY <2>1, <2>3, <2>4 DEF FinalizeClaim, Complete, Store
    <3>2. answer'[r] = r
      BY <2>1, <2>4 DEF FinalizeClaim
    <3> QED BY <1>0, <3>1, <3>2 DEF Settled
  <2>5. CASE FinalizeFails(r) \/ Lose(r)
    <3>1. UNCHANGED <<row, open, outcome, expired>> /\ \A s \in Requests : s # r => pc'[s] = pc[s]
      BY <2>1, <2>5 DEF FinalizeFails, Lose
    <3>2. ASSUME NEW s \in Requests, key[s] = key[r]
          PROVE  ~Claimed(s)' /\ (Answered(s)' => s = r)
      <4>1. CASE s # r
        BY <1>2, <3>1, <3>2, <4>1, ClaimantIsAlone DEF Claimed, Answered
      <4> QED BY <4>1
    <3> QED BY <1>0, <2>3, <3>1, <3>2 DEF Settled
  <2> QED BY <2>2, <2>4, <2>5
<1>3. CASE ~Answered(r)
  <2>1. ~(Handle(r) /\ ~open[r])
    BY DEF Handle, Claimed
  <2>2. HandleExisting(r) /\ Refusal(r) = "replayed"
    BY <1>3, <2>1, NewAnswer
  <2>3. pc[r] = "claiming" /\ seen[r].status = "completed" /\ seen[r].hash = hash[r]
    BY <2>2 DEF HandleExisting, Refusal
  <2>4. row[key[r]] = seen[r]
    BY <1>0, <2>3 DEF Progress
  <2>5. row' = row /\ answer'[r] = seen[r].response
    BY <2>2 DEF HandleExisting
  <2> QED BY <1>0, <2>3, <2>4, <2>5 DEF Settled
<1> QED BY <1>1, <1>2, <1>3

(***************************************************************************)
(* Theorems                                                                *)
(***************************************************************************)
LEMMA Inductive == Spec => []IInv
<1>1. Init => IInv
  <2> SUFFICES ASSUME Init PROVE IInv
    OBVIOUS
  <2>1. TypeOK
    BY IdempotencyAssumption DEF Init, TypeOK, Phases
  <2>2. \A r \in Requests : ~Claimed(r) /\ ~Answered(r) /\ Progress(r)
    BY DEF Init, Claimed, Answered, Progress
  <2> QED BY <2>1, <2>2 DEF IInv, OneClaimant
<1>2. IInv /\ [Next]_vars => IInv'
  <2> SUFFICES ASSUME IInv, [Next]_vars PROVE IInv'
    OBVIOUS
  <2>0. TypeOK BY DEF IInv
  <2>1. TypeOK' BY <2>0, TypeStep
  <2>2. OneClaimant' BY <2>0, ClaimantStep
  <2>3. \A r \in Requests : Progress(r)' BY <2>0, ProgressStep
  <2>4. \A r \in Requests : Answered(r)' /\ ~Claimed(r)' => Settled(r)'
    BY <2>0, SettledStep
  <2> QED BY <2>1, <2>2, <2>3, <2>4 DEF IInv
<1> QED BY <1>1, <1>2, PTL DEF Spec

(* The variables are well typed.                                           *)
THEOREM IdempotencyTyped == Spec => []TypeOK
<1>1. IInv => TypeOK BY DEF IInv
<1> QED BY <1>1, Inductive, PTL

(* At most one request at a time holds the claim of a key (Store.Claim).   *)
THEOREM ClaimIsExclusive == Spec => []OneClaimant
<1>1. IInv => OneClaimant BY DEF IInv
<1> QED BY <1>1, Inductive, PTL

(* All protected requests with one key that got a kept answer got the same *)
(* one, for the same payload (handleExisting, finalizeClaim).              *)
THEOREM KeyHasOneAnswer == Spec => []OneAnswer
<1>1. IInv => OneAnswer
  <2> SUFFICES ASSUME IInv, NEW r \in Requests, NEW s \in Requests,
                      Answered(r), Answered(s), key[r] = key[s]
               PROVE  answer[r] = answer[s] /\ hash[r] = hash[s]
    BY DEF OneAnswer
  <2>1. CASE Claimed(r) \/ Claimed(s)
    <3>1. r = s BY <2>1, ClaimantIsAlone
    <3> QED BY <3>1
  <2>2. CASE ~Claimed(r) /\ ~Claimed(s)
    BY <2>2 DEF IInv, Settled
  <2> QED BY <2>1, <2>2
<1> QED BY <1>1, Inductive, PTL

(***************************************************************************)
(* Without faults a key that is marked processing has a claimant           *)
(***************************************************************************)
(* A request is let through without a claim only after it tried to claim.  *)
ClosedBefore ==
  \A r \in Requests : pc[r] \in {"idle", "claiming"} => ~open[r]

LEMMA ClosedStep ==
  ASSUME TypeOK, ClosedBefore, [Next]_vars PROVE ClosedBefore'
<1> USE DEF TypeOK, ClosedBefore, Goto, request, result, faults
<1>1. ASSUME NEW r \in Requests, ClaimSnapshot(r) \/ ClaimWins(r) \/ HandleExisting(r)
      PROVE  ClosedBefore'
  BY <1>1 DEF ClaimSnapshot, ClaimWins, HandleExisting
<1>2. ASSUME NEW r \in Requests, ClaimSeesNothing(r) \/ ClaimFails(r)
      PROVE  ClosedBefore'
  BY <1>2 DEF ClaimSeesNothing, ClaimFails, FailOpen
<1>3. ASSUME NEW r \in Requests,
             Handle(r) \/ FinalizeClaim(r) \/ FinalizeFails(r) \/ Lose(r)
      PROVE  ClosedBefore'
  BY <1>3 DEF Handle, FinalizeClaim, FinalizeFails, Lose
<1>4. ASSUME NEW k \in Keys, Cleanup(k) PROVE ClosedBefore'
  BY <1>4 DEF Cleanup, Forget
<1>5. CASE UNCHANGED vars
  BY <1>5 DEF vars
<1> QED BY <1>1, <1>2, <1>3, <1>4, <1>5 DEF Next, Serve

(* A step without a fault keeps the owner of every key but the one that    *)
(* its request claims, finalizes, or that the cleanup forgets.             *)
LEMMA OwnerStep ==
  ASSUME TypeOK, IInv, ClosedBefore, ProcessingHasOwner, [Next]_vars
  PROVE  ProcessingHasOwner'
<1> USE DEF TypeOK, Goto, request, result, faults
<1> SUFFICES ASSUME lost' = 0, dbFaults' = 0, NEW k \in Keys, row'[k].status = "processing"
             PROVE  \E r \in Requests : key'[r] = k /\ Claimed(r)'
  BY DEF ProcessingHasOwner, ProcessingMeansInFlight
<1>0. key' = key /\ hash' = hash
  BY PayloadFixed
<1>1. ASSUME NEW r \in Requests, ClaimFails(r) \/ FinalizeFails(r) \/ Lose(r)
      PROVE  FALSE
  BY <1>1, IdempotencyAssumption DEF ClaimFails, FinalizeFails, DbFault, Lose
<1>2. lost = 0 /\ dbFaults = 0
  BY <1>1 DEF Next, Serve, ClaimSnapshot, ClaimWins, HandleExisting, ClaimSeesNothing,
              Handle, FinalizeClaim, Cleanup, Forget, vars
<1>3. row[k].status = "processing" => \E r \in Requests : key[r] = k /\ Claimed(r)
  BY <1>2 DEF ProcessingHasOwner, ProcessingMeansInFlight
<1>4. ASSUME row'[k] = row[k], \A r \in Requests : key[r] = k /\ Claimed(r) => Claimed(r)'
      PROVE  \E r \in Requests : key'[r] = k /\ Claimed(r)'
  BY <1>0, <1>3, <1>4
<1>5. ASSUME NEW q \in Requests, ClaimSnapshot(q) \/ HandleExisting(q) \/ ClaimSeesNothing(q)
      PROVE  \E r \in Requests : key'[r] = k /\ Claimed(r)'
  <2>1. row' = row
    BY <1>5 DEF ClaimSnapshot, HandleExisting, ClaimSeesNothing
  <2>2. ASSUME NEW r \in Requests, Claimed(r) PROVE Claimed(r)'
    BY <1>5, <2>2 DEF ClaimSnapshot, HandleExisting, ClaimSeesNothing, FailOpen, Claimed
  <2> QED BY <1>4, <2>1, <2>2
<1>6. ASSUME NEW q \in Requests, ClaimWins(q)
      PROVE  \E r \in Requests : key'[r] = k /\ Claimed(r)'
  <2>1. Claimed(q)'
    BY <1>6 DEF ClaimWins, Claimed, ClosedBefore
  <2>2. CASE k = key[q]
    BY <1>0, <2>1, <2>2
  <2>3. CASE k # key[q]
    <3>1. row'[k] = row[k]
      BY <1>6, <2>3, ReserveType DEF ClaimWins
    <3>2. ASSUME NEW r \in Requests, Claimed(r) PROVE Claimed(r)'
      BY <1>6, <3>2 DEF ClaimWins, Claimed
    <3> QED BY <1>4, <3>1, <3>2
  <2> QED BY <2>2, <2>3
<1>7. ASSUME NEW q \in Requests, Handle(q)
      PROVE  \E r \in Requests : key'[r] = k /\ Claimed(r)'
  <2>1. row' = row
    BY <1>7 DEF Handle
  <2>2. ASSUME NEW r \in Requests, Claimed(r) PROVE Claimed(r)'
    BY <1>7, <2>2 DEF Handle, Claimed
  <2> QED BY <1>4, <2>1, <2>2
<1>8. ASSUME NEW q \in Requests, FinalizeClaim(q)
      PROVE  \E r \in Requests : key'[r] = k /\ Claimed(r)'
  <2>1. k # key[q]
    BY <1>8 DEF FinalizeClaim, Complete, Fail, Store
  <2>2. row'[k] = row[k]
    BY <1>8, <2>1 DEF FinalizeClaim, Complete, Fail, Store
  <2>3. ASSUME NEW r \in Requests, key[r] = k, Claimed(r) PROVE Claimed(r)'
    BY <1>8, <2>1, <2>3 DEF FinalizeClaim, Claimed
  <2> QED BY <1>4, <2>2, <2>3
<1>9. ASSUME NEW j \in Keys, Cleanup(j)
      PROVE  \E r \in Requests : key'[r] = k /\ Claimed(r)'
  <2>1. k # j
    BY <1>9 DEF Cleanup, Forget, Absent
  <2>2. row'[k] = row[k]
    BY <1>9, <2>1 DEF Cleanup, Forget
  <2>3. ASSUME NEW r \in Requests, Claimed(r) PROVE Claimed(r)'
    BY <1>9, <2>3 DEF Cleanup, Forget, Claimed
  <2> QED BY <1>4, <2>2, <2>3
<1>10. CASE UNCHANGED vars
  BY <1>4, <1>10 DEF vars, Claimed
<1> QED
  BY <1>1, <1>5, <1>6, <1>7, <1>8, <1>9, <1>10 DEF Next, Serve

(* As long as no request is lost and no statement fails, a key is marked   *)
(* processing only while a request is at work on it (finalizeClaim).       *)
THEOREM ProcessingIsOwned == Spec => []ProcessingHasOwner
<1>1. Init => ClosedBefore /\ ProcessingHasOwner
  BY DEF Init, ClosedBefore, ProcessingHasOwner, ProcessingMeansInFlight, Absent
<1>2. IInv /\ ClosedBefore /\ ProcessingHasOwner /\ [Next]_vars
        => ClosedBefore' /\ ProcessingHasOwner'
  BY ClosedStep, OwnerStep DEF IInv
<1> QED BY <1>1, <1>2, Inductive, PTL DEF Spec
=============================================================================
