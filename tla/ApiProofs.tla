----------------------------- MODULE ApiProofs -----------------------------
(***************************************************************************)
(* The API process.  The way in is safe for any number of calls, replicas  *)
(* and accounts, any windows, limits and lifetimes (ApiEdge); so is the    *)
(* way out to the browsers, for any events and clients and any capacity of *)
(* the channels (WsHub).                                                   *)
(***************************************************************************)
EXTENDS ApiEdge, WsHub, FiniteSetTheorems, SequenceTheorems, TLAPS

-----------------------------------------------------------------------------
(* The way in: ApiEdge                                                     *)
-----------------------------------------------------------------------------

RateTyped ==
  /\ now \in Nat
  /\ count \in [Rows -> Nat]
  /\ windowStart \in [Rows -> Int]
  /\ began \in [Calls -> Nat]
  /\ verdict \in [Calls -> {"none", "asking", "pass", "stop", "open"}]
  /\ overtaken \subseteq Rows

AuthTyped ==
  /\ now \in Nat
  /\ failedAttempts \in [Accounts -> Nat]
  /\ lockedUntil \in [Accounts -> Nat]
  /\ login \in
       [Logins -> {"none", "comparing", "wrong", "right", "token", "done", "rejected"}]
  /\ readAttempts \in [Logins -> Nat]
  /\ tokenExpires \in [Logins -> Nat]
  /\ counted \in [Accounts -> SUBSET Logins]
  /\ past \in [Accounts -> SUBSET Logins]

TicketTyped ==
  /\ now \in Nat
  /\ tickets \in [Replicas -> SUBSET Tickets]
  /\ expiresAt \in [Tickets -> Nat]
  /\ connections \in [Tickets -> Seq(Replicas \X Nat)]

(***************************************************************************)
(* What a step is: the limiter's, the login's, the tickets' or the clock's *)
(***************************************************************************)
Admissible(c) == c \in Tickets /\ verdict[c] = "none" => TokenOf(c) # {}

RateStep ==
  /\ \/ \E c \in Calls : Admissible(c) /\ Limiter(c)
     \/ \E r \in Rows : Cleanup(r)
  /\ UNCHANGED <<now, authVars, ticketVars>>

AuthStep ==
  /\ \/ \E c \in Logins : Served(c) /\ HandleLogin(c)
     \/ \E a \in Accounts : SeedAdmin(a)
  /\ UNCHANGED <<now, rateVars, ticketVars>>

TicketStep ==
  /\ \E r \in Replicas :
       \/ \E t \in Tickets : TicketHandler(r, t) \/ Redeem(r, t)
       \/ EvictExpired(r) \/ Restart(r)
  /\ UNCHANGED <<now, rateVars, authVars>>

ClockStep == Tick /\ UNCHANGED <<rateVars, authVars, ticketVars>>

LEMMA StepKinds ==
  ASSUME [Next]_vars
  PROVE  \/ RateStep \/ AuthStep \/ TicketStep \/ ClockStep
         \/ UNCHANGED <<now, rateVars, authVars, ticketVars>>
<1>1. ASSUME NEW c \in Logins, PostLogin(c) PROVE RateStep \/ AuthStep
  BY <1>1, ApiEdgeAssumption DEF PostLogin, RateStep, AuthStep, Admissible
<1>2. ASSUME NEW t \in Tickets, PostTicket(t) PROVE RateStep \/ TicketStep
  BY <1>2, ApiEdgeAssumption DEF PostTicket, RateStep, TicketStep, Admissible
<1>3. ASSUME NEW r \in Replicas, NEW t \in Tickets, Upgrade(r, t) PROVE TicketStep
  BY <1>3 DEF Upgrade, TicketStep
<1>4. ASSUME Background PROVE RateStep \/ AuthStep \/ TicketStep \/ ClockStep
  BY <1>4 DEF Background, RateStep, AuthStep, TicketStep, ClockStep
<1> QED BY <1>1, <1>2, <1>3, <1>4 DEF Next, vars

(***************************************************************************)
(* The tickets                                                             *)
(***************************************************************************)
(* There was a login of the ticket's user, its token good when asked for.  *)
Vouched(t) ==
  \E c \in Logins : /\ account[c] = holder[t]
                    /\ login[c] = "done"
                    /\ began[t] < tokenExpires[c]

(* A ticket in a store was issued, opened nothing yet and is nowhere else. *)
Sound(t) ==
  /\ verdict[t] # "none" => Vouched(t)
  /\ expiresAt[t] # 0 => Served(t)
  /\ connections[t] # <<>> =>
       /\ expiresAt[t] # 0
       /\ Len(connections[t]) = 1
       /\ connections[t][1][2] <= expiresAt[t]
       /\ \A r \in Replicas : t \notin tickets[r]
  /\ \A r \in Replicas : t \in tickets[r] =>
       /\ expiresAt[t] # 0
       /\ \A s \in Replicas : t \in tickets[s] => s = r

TicketInv == TicketTyped /\ \A t \in Tickets : Sound(t)

(* Whoever was vouched for stays so, whatever the accounts do.             *)
LEMMA VouchedStays ==
  ASSUME AuthTyped, NEW t \in Tickets, Vouched(t), UNCHANGED began,
         AuthStep \/ UNCHANGED authVars
  PROVE  Vouched(t)'
<1>1. PICK c \in Logins : /\ account[c] = holder[t]
                          /\ login[c] = "done"
                          /\ began[t] < tokenExpires[c]
  BY DEF Vouched
<1>2. login'[c] = "done" /\ tokenExpires'[c] = tokenExpires[c]
  <2>1. CASE UNCHANGED authVars BY <1>1, <2>1 DEF authVars
  <2>2. ASSUME NEW d \in Logins, HandleLogin(d)
       PROVE  login'[c] = "done" /\ tokenExpires'[c] = tokenExpires[c]
    BY <1>1, <2>2 DEF AuthTyped, HandleLogin, GetByUsername, ComparePassword,
       RegisterFailedAttempt, IssueToken, ResetFailedAttempts, Reject
  <2>3. ASSUME NEW a \in Accounts, SeedAdmin(a)
       PROVE  login'[c] = "done" /\ tokenExpires'[c] = tokenExpires[c]
    BY <1>1, <2>3 DEF SeedAdmin
  <2> QED BY <2>1, <2>2, <2>3 DEF AuthStep
<1> QED BY <1>1, <1>2 DEF Vouched

(* An account's row and its logins stay well typed.                        *)
LEMMA AuthTypes ==
  ASSUME AuthTyped, AuthStep \/ UNCHANGED authVars, now' \in Nat
  PROVE  AuthTyped'
<1> USE LocalAuthAssumption DEF AuthTyped
<1>1. CASE UNCHANGED authVars BY <1>1 DEF authVars
<1>2. ASSUME NEW c \in Logins, HandleLogin(c) PROVE AuthTyped'
  <2>1. CASE GetByUsername(c) BY <2>1 DEF GetByUsername
  <2>2. CASE ComparePassword(c) BY <2>2 DEF ComparePassword
  <2>3. CASE RegisterFailedAttempt(c)
    BY <2>3 DEF RegisterFailedAttempt, Reject, Beyond
  <2>4. CASE IssueToken(c) BY <2>4 DEF IssueToken
  <2>5. CASE ResetFailedAttempts(c) BY <2>5 DEF ResetFailedAttempts, Forgive
  <2> QED BY <1>2, <2>1, <2>2, <2>3, <2>4, <2>5 DEF HandleLogin
<1>3. ASSUME NEW a \in Accounts, SeedAdmin(a) PROVE AuthTyped'
  BY <1>3 DEF SeedAdmin, Forgive
<1> QED BY <1>1, <1>2, <1>3 DEF AuthStep

(* So do the rows of the limiter.                                          *)
LEMMA RateTypes ==
  ASSUME RateTyped, RateStep \/ UNCHANGED rateVars, now' \in Nat
  PROVE  RateTyped'
<1>1. CASE UNCHANGED rateVars BY <1>1 DEF RateTyped, rateVars
<1>2. ASSUME NEW c \in Calls, NEW r, r = RowOf(c), Upsert(c)
      PROVE  /\ count' \in [Rows -> Nat]
             /\ windowStart' \in [Rows -> Int]
             /\ overtaken' \subseteq Rows
             /\ began' \in [Calls -> Nat]
  <2>1. r \in Rows /\ WindowOf(bucket[c], began[c]) \in Int
    BY <1>2, RateLimitAssumption DEF RateTyped, Rows, RowOf, WindowOf, Buckets
  <2>2. CountAfter(r, WindowOf(bucket[c], began[c])) \in Nat
    BY <2>1 DEF CountAfter, RateTyped
  <2> HIDE DEF CountAfter, WindowOf
  <2> QED BY <1>2, <2>1, <2>2 DEF Upsert, RateTyped
<1>3. ASSUME NEW c \in Calls, Limiter(c) PROVE RateTyped'
  BY <1>2, <1>3 DEF RateTyped, Limiter, BeginAllow, Allow, FailOpen
<1>4. ASSUME NEW r \in Rows, Cleanup(r) PROVE RateTyped'
  BY <1>4 DEF RateTyped, Cleanup
<1> QED BY <1>1, <1>3, <1>4 DEF RateStep

(* A limiter's step asks for a call that may ask, and takes no verdict of  *)
(* another one back.                                                       *)
LEMMA RateMoves ==
  ASSUME RateTyped, RateStep
  PROVE  \A c \in Calls :
           \/ verdict'[c] = verdict[c] /\ began'[c] = began[c]
           \/ /\ verdict[c] = "none" /\ verdict'[c] = "asking"
              /\ Admissible(c) /\ began'[c] = now
           \/ /\ verdict[c] = "asking" /\ verdict'[c] \in {"pass", "stop", "open"}
              /\ began'[c] = began[c]
<1>1. ASSUME NEW d \in Calls, Admissible(d), Limiter(d), NEW c \in Calls
      PROVE  \/ verdict'[c] = verdict[c] /\ began'[c] = began[c]
             \/ /\ verdict[c] = "none" /\ verdict'[c] = "asking"
                /\ Admissible(c) /\ began'[c] = now
             \/ /\ verdict[c] = "asking" /\ verdict'[c] \in {"pass", "stop", "open"}
                /\ began'[c] = began[c]
  <2>1. CASE BeginAllow(d) BY <1>1, <2>1 DEF BeginAllow, RateTyped
  <2>2. CASE Allow(d) BY <1>1, <2>2 DEF Allow, Upsert, RateTyped
  <2>3. CASE FailOpen(d) BY <1>1, <2>3 DEF FailOpen, Upsert, RateTyped
  <2> QED BY <1>1, <2>1, <2>2, <2>3 DEF Limiter
<1>2. ASSUME NEW r \in Rows, Cleanup(r)
      PROVE  verdict' = verdict /\ began' = began
  BY <1>2 DEF Cleanup
<1> QED BY <1>1, <1>2 DEF RateStep

LEMMA TicketTypes ==
  ASSUME TicketTyped, TicketStep
  PROVE  TicketTyped'
<1> USE WsTicketsAssumption DEF TicketTyped
<1>1. ASSUME NEW r \in Replicas, NEW t \in Tickets, TicketHandler(r, t) PROVE TicketTyped'
  BY <1>1 DEF TicketStep, TicketHandler, Issue
<1>2. ASSUME NEW r \in Replicas, NEW t \in Tickets, Redeem(r, t) PROVE TicketTyped'
  <2>1. Append(connections[t], <<r, now>>) \in Seq(Replicas \X Nat)
    OBVIOUS
  <2> QED BY <1>2, <2>1 DEF TicketStep, Redeem, Take
<1>3. ASSUME NEW r \in Replicas, EvictExpired(r) PROVE TicketTyped'
  BY <1>3 DEF TicketStep, EvictExpired
<1>4. ASSUME NEW r \in Replicas, Restart(r) PROVE TicketTyped'
  BY <1>4 DEF TicketStep, Restart
<1> QED BY <1>1, <1>2, <1>3, <1>4 DEF TicketStep

(* The steps of the ticket store keep what TicketInv says of it.           *)
LEMMA TicketStoreStep ==
  ASSUME TicketInv, RateTyped, TicketStep
  PROVE  TicketInv'
<1> USE ApiEdgeAssumption, WsTicketsAssumption DEF TicketInv, Sound
<1>0. TicketTyped' BY TicketTypes
<1>1. \A t \in Tickets : (Vouched(t) => Vouched(t)') /\ (Served(t) => Served(t)')
  BY DEF TicketStep, Vouched, Served, authVars, rateVars
<1>2. \A t \in Tickets : verdict'[t] = verdict[t]
  BY DEF TicketStep, rateVars
<1>3. ASSUME NEW r \in Replicas, NEW u \in Tickets, TicketHandler(r, u) PROVE TicketInv'
  <2>1. /\ expiresAt[u] = 0 /\ expiresAt'[u] # 0 /\ Served(u)
        /\ \A t \in Tickets \ {u} : expiresAt'[t] = expiresAt[t]
        /\ connections' = connections
        /\ tickets' = [tickets EXCEPT ![r] = @ \cup {u}]
    BY <1>3 DEF TicketHandler, Issue, TicketTyped, TicketStep
  <2>2. connections[u] = <<>> /\ \A s \in Replicas : u \notin tickets[s]
    BY <2>1
  <2> QED BY <1>0, <1>1, <1>2, <2>1, <2>2 DEF TicketTyped
<1>4. ASSUME NEW r \in Replicas, NEW u \in Tickets, Redeem(r, u) PROVE TicketInv'
  <2>1. /\ u \in tickets[r] /\ connections[u] = <<>> /\ expiresAt[u] # 0
        /\ tickets' = [tickets EXCEPT ![r] = @ \ {u}]
        /\ UNCHANGED expiresAt
    BY <1>4 DEF Redeem, Take
  <2>2. /\ \A s \in Replicas : tickets'[s] \subseteq tickets[s] /\ u \notin tickets'[s]
        /\ \A t \in Tickets \ {u} : connections'[t] = connections[t]
    BY <1>4, <2>1 DEF Redeem, TicketTyped
  <2>3. \A t \in Tickets \ {u} : Sound(t)'
    BY <1>1, <1>2, <2>1, <2>2
  <2>4. Sound(u)'
    <3>1. CASE UNCHANGED connections
      BY <1>1, <1>2, <2>1, <2>2, <3>1
    <3>2. CASE now <= expiresAt[u] /\ connections' = [connections EXCEPT ![u] = Append(@, <<r, now>>)]
      <4>1. connections'[u] = << <<r, now>> >>
        BY <2>1, <3>2 DEF TicketTyped
      <4>2. Len(connections'[u]) = 1 /\ connections'[u][1][2] = now
        BY <4>1
      <4> QED BY <1>1, <1>2, <2>1, <2>2, <3>2, <4>2
    <3>3. \/ UNCHANGED connections
          \/ now <= expiresAt[u] /\ connections' = [connections EXCEPT ![u] = Append(@, <<r, now>>)]
      BY <1>4, Zenon DEF Redeem
    <3> QED BY <3>1, <3>2, <3>3
  <2> QED BY <1>0, <2>3, <2>4
<1>5. ASSUME UNCHANGED <<expiresAt, connections>>,
             \A r \in Replicas : tickets'[r] \subseteq tickets[r]
      PROVE  TicketInv'
  BY <1>0, <1>1, <1>2, <1>5
<1>6. ASSUME NEW r \in Replicas, EvictExpired(r) \/ Restart(r) PROVE TicketInv'
  <2>1. UNCHANGED <<expiresAt, connections>>
    BY <1>6 DEF EvictExpired, Restart
  <2>2. \A s \in Replicas : tickets'[s] \subseteq tickets[s]
    <3>1. CASE EvictExpired(r) BY <3>1 DEF EvictExpired, TicketTyped
    <3>2. CASE Restart(r) BY <3>2 DEF Restart, TicketTyped
    <3> QED BY <1>6, <3>1, <3>2
  <2> QED BY <1>5, <2>1, <2>2
<1> QED BY <1>3, <1>4, <1>6 DEF TicketStep

(* TicketInv is inductive, given the types of the limiter and of the       *)
(* accounts.                                                               *)
LEMMA TicketInvStep ==
  ASSUME TicketInv, RateTyped, AuthTyped, [Next]_vars
  PROVE  TicketInv'
<1> USE ApiEdgeAssumption DEF TicketInv, Sound
<1>1. CASE RateStep
  <2>1. UNCHANGED <<now, tickets, expiresAt, connections, account, login, tokenExpires>>
    BY <1>1 DEF RateStep, authVars, ticketVars
  <2>2. ASSUME NEW t \in Tickets PROVE verdict'[t] # "none" => Vouched(t)'
    <3>1. CASE verdict'[t] = verdict[t] /\ began'[t] = began[t]
      BY <2>1, <3>1 DEF Vouched
    <3>2. CASE verdict[t] = "none" /\ Admissible(t) /\ began'[t] = now
      BY <2>1, <3>2 DEF Vouched, Admissible, TokenOf
    <3>3. CASE verdict[t] = "asking" /\ began'[t] = began[t]
      BY <2>1, <3>3 DEF Vouched
    <3> QED BY <1>1, <3>1, <3>2, <3>3, RateMoves
  <2>3. \A t \in Tickets : Served(t) => Served(t)'
    BY <1>1, RateMoves DEF Served
  <2> QED BY <2>1, <2>2, <2>3 DEF TicketTyped
<1>2. CASE AuthStep
  <2>1. UNCHANGED <<now, tickets, expiresAt, connections, verdict, began>>
    BY <1>2 DEF AuthStep, rateVars, ticketVars
  <2> QED BY <1>2, <2>1, VouchedStays DEF TicketTyped, Served
<1>3. CASE TicketStep BY <1>3, TicketStoreStep
<1>4. CASE ClockStep \/ UNCHANGED <<now, rateVars, authVars, ticketVars>>
  <2>1. now' \in Nat /\ UNCHANGED <<rateVars, authVars, ticketVars>>
    BY <1>4 DEF ClockStep, Tick, TicketTyped
  <2> QED BY <2>1 DEF TicketTyped, Vouched, Served, rateVars, authVars, ticketVars
<1> QED BY <1>1, <1>2, <1>3, <1>4, StepKinds

(***************************************************************************)
(* The accounts                                                            *)
(***************************************************************************)
(* The row of an account counts the logins that were rejected, and whoever *)
(* passed the check of the lock was at an account.                         *)
Tallied(a) ==
  /\ \A c \in counted[a] : login[c] = "rejected"
  /\ failedAttempts[a] = Cardinality(counted[a])
  /\ (lockedUntil[a] # 0) = (failedAttempts[a] >= maxFailedAttempts)
  /\ Locked(a) => Beyond(a) \subseteq past[a]

AuthInv ==
  /\ AuthTyped
  /\ \A c \in Logins : login[c] \notin {"none", "rejected"} => account[c] \in Accounts
  /\ \A a \in Accounts : Tallied(a)

(* An account that a step does not touch is as sound as before, if the     *)
(* step lets nobody past its lock.                                         *)
LEMMA TalliedStays ==
  ASSUME AuthInv, NEW a \in Accounts,
         now' \in Nat, now' >= now,
         failedAttempts'[a] = failedAttempts[a], lockedUntil'[a] = lockedUntil[a],
         counted'[a] = counted[a], past'[a] = past[a],
         \A c \in counted[a] : login'[c] = login[c],
         Locked(a) => Beyond(a)' \subseteq Beyond(a)
  PROVE  Tallied(a)'
BY DEF AuthInv, AuthTyped, Tallied, Locked

(* Forgiven, an account has nothing to account for.                        *)
LEMMA ForgivenIsTallied ==
  ASSUME AuthInv, NEW a \in Accounts, Forgive(a), now' \in Nat
  PROVE  Tallied(a)'
<1>1. /\ failedAttempts'[a] = 0 /\ lockedUntil'[a] = 0
      /\ counted'[a] = {} /\ past'[a] = {}
  BY DEF AuthInv, AuthTyped, Forgive
<1> QED BY <1>1, FS_EmptySet, LocalAuthAssumption DEF Tallied, Locked

(* AuthInv is inductive: a login counts itself once, by one update, and it *)
(* passes the check of the lock only where there is none.                  *)
LEMMA LoginStep ==
  ASSUME AuthInv, NEW c \in Logins, HandleLogin(c), AuthTyped', UNCHANGED now
  PROVE  AuthInv'
<1> USE LocalAuthAssumption
<1>0. now' \in Nat /\ now' >= now BY DEF AuthInv, AuthTyped
<1>1. CASE GetByUsername(c)
  <2>1. \A d \in Logins : login'[d] \notin {"none", "rejected"} => account[d] \in Accounts
    BY <1>1 DEF GetByUsername, AuthInv, AuthTyped
  <2>2. ASSUME NEW a \in Accounts PROVE Tallied(a)'
    <3>1. Locked(a) => Beyond(a)' \subseteq Beyond(a)
      BY <1>1 DEF GetByUsername, AuthInv, AuthTyped, Beyond
    <3>2. \A d \in counted[a] : login'[d] = login[d]
      BY <1>1 DEF GetByUsername, AuthInv, AuthTyped, Tallied
    <3> QED BY <1>0, <1>1, <3>1, <3>2, TalliedStays DEF GetByUsername
  <2> QED BY <2>1, <2>2 DEF AuthInv
<1>2. CASE ComparePassword(c) \/ IssueToken(c)
  <2>1. /\ login[c] \in {"comparing", "right"} /\ login'[c] \notin {"none", "rejected"}
        /\ login'[c] \in {"wrong", "right"} => login[c] = "comparing"
        /\ login'[c] # "comparing"
        /\ \A d \in Logins \ {c} : login'[d] = login[d]
        /\ UNCHANGED <<failedAttempts, lockedUntil, counted, past>>
    BY <1>2 DEF ComparePassword, IssueToken, AuthInv, AuthTyped
  <2>2. \A d \in Logins : login'[d] \notin {"none", "rejected"} => account[d] \in Accounts
    BY <2>1 DEF AuthInv
  <2>3. ASSUME NEW a \in Accounts PROVE Tallied(a)'
    <3>1. Beyond(a)' \subseteq Beyond(a)
      BY <2>1 DEF Beyond
    <3>2. \A d \in counted[a] : login'[d] = login[d]
      BY <2>1 DEF AuthInv, AuthTyped, Tallied
    <3> QED BY <1>0, <2>1, <3>1, <3>2, TalliedStays
  <2> QED BY <2>2, <2>3 DEF AuthInv
<1>3. CASE RegisterFailedAttempt(c)
  <2> DEFINE b == account[c]
  <2>1. /\ login[c] = "wrong" /\ login'[c] = "rejected"
        /\ \A d \in Logins \ {c} : login'[d] = login[d]
        /\ b \in Accounts
    BY <1>3 DEF RegisterFailedAttempt, Reject, AuthInv, AuthTyped
  <2>2. \A d \in Logins : login'[d] \notin {"none", "rejected"} => account[d] \in Accounts
    BY <2>1 DEF AuthInv
  <2>3. \A a \in Accounts : /\ Beyond(a)' \subseteq Beyond(a)
                            /\ c \notin counted[a]
                            /\ \A d \in counted[a] : login'[d] = login[d]
    BY <2>1 DEF Beyond, AuthInv, AuthTyped, Tallied
  <2>4. ASSUME UNCHANGED <<failedAttempts, lockedUntil, counted, past>>
        PROVE  \A a \in Accounts : Tallied(a)'
    BY <1>0, <2>3, <2>4, TalliedStays
  <2>5. ASSUME failedAttempts' = [failedAttempts EXCEPT ![b] = @ + 1],
               counted' = [counted EXCEPT ![b] = @ \cup {c}],
               IF failedAttempts[b] + 1 >= maxFailedAttempts
               THEN /\ lockedUntil' = [lockedUntil EXCEPT ![b] = now + lockoutDuration]
                    /\ past' = [past EXCEPT ![b] = Beyond(b)]
               ELSE UNCHANGED <<lockedUntil, past>>,
               NEW a \in Accounts
        PROVE  Tallied(a)'
    <3>1. CASE a # b
      BY <1>0, <2>3, <2>5, <3>1, TalliedStays DEF AuthInv, AuthTyped
    <3>2. CASE a = b
      <4>1. counted'[a] = counted[a] \cup {c} /\ failedAttempts'[a] = failedAttempts[a] + 1
        BY <2>1, <2>5, <3>2 DEF AuthInv, AuthTyped
      <4>2. IsFiniteSet(counted[a])
        BY FS_Subset DEF AuthInv, AuthTyped
      <4>3. failedAttempts'[a] = Cardinality(counted'[a])
        <5>1. c \notin counted[a] /\ failedAttempts[a] = Cardinality(counted[a])
          BY <2>3 DEF AuthInv, Tallied
        <5>2. Cardinality(counted[a] \cup {c}) = Cardinality(counted[a]) + 1
          BY <4>2, <5>1, FS_AddElement
        <5> QED BY <4>1, <5>1, <5>2
      <4>4. \A d \in counted'[a] : login'[d] = "rejected"
        BY <2>1, <2>3, <4>1 DEF AuthInv, Tallied
      <4>5. CASE failedAttempts[a] + 1 >= maxFailedAttempts
        <5>1. lockedUntil'[a] = now + lockoutDuration /\ past'[a] = Beyond(a)
          BY <2>5, <3>2, <4>5 DEF AuthInv, AuthTyped
        <5>2. lockedUntil'[a] # 0
          BY <5>1 DEF AuthInv, AuthTyped
        <5> QED BY <2>3, <4>1, <4>3, <4>4, <4>5, <5>1, <5>2 DEF Tallied
      <4>6. CASE ~(failedAttempts[a] + 1 >= maxFailedAttempts)
        <5>1. UNCHANGED <<lockedUntil, past>>
          BY <2>5, <3>2, <4>6
        <5>2. lockedUntil[a] = 0 /\ ~(failedAttempts'[a] >= maxFailedAttempts)
          BY <4>1, <4>6 DEF AuthInv, AuthTyped, Tallied
        <5> QED BY <1>0, <4>3, <4>4, <5>1, <5>2 DEF Tallied, Locked
      <4> QED BY <4>5, <4>6
    <3> QED BY <3>1, <3>2
  <2>6. \A a \in Accounts : Tallied(a)'
    BY <1>3, <2>4, <2>5, Zenon DEF RegisterFailedAttempt
  <2> QED BY <2>2, <2>6 DEF AuthInv
<1>4. CASE ResetFailedAttempts(c)
  <2>1. /\ login[c] = "token" /\ login'[c] = "done"
        /\ \A d \in Logins \ {c} : login'[d] = login[d]
        /\ Forgive(account[c]) \/ UNCHANGED <<failedAttempts, lockedUntil, counted, past>>
    BY <1>4 DEF ResetFailedAttempts, AuthInv, AuthTyped
  <2>2. \A d \in Logins : login'[d] \notin {"none", "rejected"} => account[d] \in Accounts
    BY <2>1 DEF AuthInv
  <2>3. \A a \in Accounts : /\ Beyond(a)' \subseteq Beyond(a)
                            /\ \A d \in counted[a] : login'[d] = login[d]
    BY <2>1 DEF Beyond, AuthInv, AuthTyped, Tallied
  <2>4. ASSUME Forgive(account[c]), NEW a \in Accounts PROVE Tallied(a)'
    <3>1. CASE a = account[c]
      BY <1>0, <2>4, <3>1, ForgivenIsTallied
    <3>2. CASE a # account[c]
      BY <1>0, <2>3, <2>4, <3>2, TalliedStays DEF Forgive, AuthInv, AuthTyped
    <3> QED BY <3>1, <3>2
  <2>5. ASSUME UNCHANGED <<failedAttempts, lockedUntil, counted, past>>
        PROVE  \A a \in Accounts : Tallied(a)'
    BY <1>0, <2>3, <2>5, TalliedStays
  <2> QED BY <2>1, <2>2, <2>4, <2>5 DEF AuthInv
<1> QED BY <1>1, <1>2, <1>3, <1>4 DEF HandleLogin

LEMMA AuthInvStep ==
  ASSUME AuthInv, [Next]_vars
  PROVE  AuthInv'
<1>0. AuthTyped BY DEF AuthInv
<1>1. CASE AuthStep
  <2>1. now' = now /\ AuthTyped'
    BY <1>0, <1>1, AuthTypes DEF AuthStep, AuthTyped
  <2>2. ASSUME NEW c \in Logins, HandleLogin(c) PROVE AuthInv'
    BY <2>1, <2>2, LoginStep
  <2>3. ASSUME NEW b \in Accounts, SeedAdmin(b) PROVE AuthInv'
    <3>1. Forgive(b) /\ UNCHANGED login
      BY <2>3 DEF SeedAdmin
    <3>2. ASSUME NEW a \in Accounts, a # b PROVE Tallied(a)'
      BY <2>1, <3>1, <3>2, TalliedStays DEF Forgive, AuthInv, AuthTyped, Beyond
    <3>3. Tallied(b)'
      BY <2>1, <3>1, ForgivenIsTallied DEF AuthTyped
    <3> QED BY <2>1, <3>1, <3>2, <3>3 DEF AuthInv
  <2> QED BY <1>1, <2>2, <2>3 DEF AuthStep
<1>2. CASE UNCHANGED authVars /\ now' \in Nat /\ now' >= now
  <2>1. AuthTyped' BY <1>0, <1>2, AuthTypes
  <2>2. \A a \in Accounts : Tallied(a)'
    BY <1>2, TalliedStays DEF authVars, Beyond
  <2> QED BY <1>2, <2>1, <2>2 DEF AuthInv, authVars
<1> QED BY <1>0, <1>1, <1>2, StepKinds
       DEF RateStep, TicketStep, ClockStep, Tick, AuthTyped

(***************************************************************************)
(* The windows                                                             *)
(***************************************************************************)
LEMMA Division ==
  ASSUME NEW t \in Nat, NEW k \in Nat \ {0}
  PROVE  /\ t % k \in 0..(k - 1)
         /\ t \div k \in Int
         /\ t = k * (t \div k) + (t % k)
BY SMT

LEMMA NextRemainder ==
  ASSUME NEW t \in Nat, NEW k \in Nat \ {0}
  PROVE  (t + 1) % k \in {(t % k) + 1, 0}
<1> DEFINE p == t \div k
           q == (t + 1) \div k
           m == t % k
           n == (t + 1) % k
<1>1. /\ m \in 0..(k - 1) /\ n \in 0..(k - 1) /\ p \in Int /\ q \in Int
      /\ t = k * p + m /\ t + 1 = k * q + n
  BY Division
<1> HIDE DEF p, q, m, n
<1>2. k * (q - p) = 1 + m - n BY <1>1
<1>3. CASE q - p <= -1
  <2>1. k * (q - p) <= -k BY <1>1, <1>3
  <2> QED BY <1>1, <1>2, <2>1
<1>4. CASE q - p >= 2
  <2>1. k * (q - p) >= 2 * k BY <1>1, <1>4
  <2> QED BY <1>1, <1>2, <2>1
<1>5. CASE q - p = 0 BY <1>1, <1>2, <1>5 DEF m, n
<1>6. CASE q - p = 1 BY <1>1, <1>2, <1>6 DEF m, n
<1> QED BY <1>1, <1>3, <1>4, <1>5, <1>6

(* From one moment to the next the window is the same, or it begins now.   *)
LEMMA NextWindow ==
  ASSUME NEW b \in Buckets, NEW t \in Nat
  PROVE  /\ WindowOf(b, t) \in Int
         /\ WindowOf(b, t) <= t
         /\ t - windowSeconds[b] < WindowOf(b, t)
         /\ WindowOf(b, t + 1) \in {WindowOf(b, t), t + 1}
<1>1. PICK k \in Nat \ {0} : k = windowSeconds[b]
  BY RateLimitAssumption
<1>2. WindowOf(b, t) = t - (t % k) /\ WindowOf(b, t + 1) = (t + 1) - ((t + 1) % k)
  BY <1>1, Zenon DEF WindowOf
<1>3. PICK m \in 0..(k - 1) : m = t % k
  BY Division
<1> QED BY <1>1, <1>2, <1>3, NextRemainder

LEMMA FiniteCalls ==
  ASSUME NEW S \in SUBSET Calls
  PROVE  /\ IsFiniteSet(S)
         /\ Cardinality(S) \in Nat
         /\ Cardinality(S) <= Cardinality(Calls)
BY RateLimitAssumption, FS_Subset, FS_CardinalityType

(* The calls of a row that have a verdict, all of whom count.              *)
Judged(r) == {c \in Calls : verdict[c] \in {"pass", "stop", "open"} /\ RowOf(c) = r}

(* A row that was never set back bounds every window, and counts at least  *)
(* the calls that passed in the window of the moment.                      *)
Bounded(r) ==
  \A w \in Int :
    /\ Cardinality(Admitted(r, w)) <= maxRequests[r[1]]
    /\ w = WindowOf(r[1], now) /\ Admitted(r, w) # {} =>
         /\ count[r] > 0
         /\ windowStart[r] = w
         /\ Cardinality(Admitted(r, w)) <= count[r]

RateInv ==
  /\ RateTyped
  /\ \A c \in Calls : began[c] <= now
  /\ \A r \in Rows : count[r] <= Cardinality(Judged(r))
  /\ \A r \in Rows \ overtaken : Bounded(r)

LEMMA RowOfCall ==
  ASSUME NEW c \in Calls
  PROVE  RowOf(c) \in Rows /\ RowOf(c)[1] = bucket[c] /\ bucket[c] \in Buckets
BY RateLimitAssumption DEF Rows, RowOf, Buckets

LEMMA BucketOfRow ==
  ASSUME NEW r \in Rows
  PROVE  r[1] \in Buckets /\ maxRequests[r[1]] \in Nat
BY RowOfCall, RateLimitAssumption DEF Rows

(* What a counted call does to its row.                                    *)
LEMMA CountedStep ==
  ASSUME RateInv, RateTyped', UNCHANGED now,
         NEW c \in Calls, verdict[c] = "asking", Upsert(c),
         NEW r, r = RowOf(c), NEW w, w = WindowOf(bucket[c], began[c]),
         NEW v \in {"pass", "stop", "open"}, verdict' = [verdict EXCEPT ![c] = v],
         v = "pass" => CountAfter(r, w) <= maxRequests[bucket[c]]
  PROVE  RateInv'
<1>1. /\ r \in Rows /\ r[1] = bucket[c] /\ bucket[c] \in Buckets
      /\ maxRequests[r[1]] \in Nat
  BY RowOfCall, BucketOfRow
<1>2. w \in Int
  BY <1>1, NextWindow DEF RateInv, RateTyped
<1>3. /\ count' = [count EXCEPT ![r] = CountAfter(r, w)]
      /\ windowStart' = [windowStart EXCEPT ![r] = w]
      /\ overtaken' = IF w = WindowOf(bucket[c], now) THEN overtaken ELSE overtaken \cup {r}
      /\ began' = began
  BY DEF Upsert
<1>4. \A d \in Calls \ {c} : verdict'[d] = verdict[d]
  BY DEF RateInv, RateTyped
<1>5. verdict'[c] = v
  BY DEF RateInv, RateTyped
<1>6. c \notin Judged(r) /\ \A u \in Int : c \notin Admitted(r, u)
  BY DEF Judged, Admitted
<1>7. ASSUME NEW s \in Rows, s # r
      PROVE  /\ count'[s] <= Cardinality(Judged(s)')
             /\ s \notin overtaken' => Bounded(s)'
  <2>1. count'[s] = count[s] /\ windowStart'[s] = windowStart[s] /\ (s \in overtaken') = (s \in overtaken)
    BY <1>3, <1>7 DEF RateInv, RateTyped
  <2>2. Judged(s)' = Judged(s) /\ \A u \in Int : Admitted(s, u)' = Admitted(s, u)
    BY <1>3, <1>4, <1>7 DEF Judged, Admitted
  <2>3. WindowOf(s[1], now) \in Int
    BY BucketOfRow, NextWindow DEF RateInv, RateTyped
  <2> QED BY <2>1, <2>2, <2>3 DEF RateInv, Bounded
<1>8. count'[r] = CountAfter(r, w) /\ windowStart'[r] = w
  BY <1>1, <1>3 DEF RateInv, RateTyped
<1>9. count'[r] <= Cardinality(Judged(r)')
  <2>1. Judged(r)' = Judged(r) \cup {c}
    BY <1>4, <1>5 DEF Judged
  <2>2. Judged(r) \in SUBSET Calls BY DEF Judged
  <2>3. Cardinality(Judged(r)') = Cardinality(Judged(r)) + 1
    BY <1>6, <2>1, <2>2, FiniteCalls, FS_AddElement
  <2>4. count'[r] \in {1, count[r] + 1}
    BY <1>8 DEF CountAfter
  <2> QED BY <1>1, <2>2, <2>3, <2>4, FiniteCalls DEF RateInv, RateTyped
<1>10. ASSUME r \notin overtaken' PROVE Bounded(r)'
  <2>1. r \notin overtaken /\ w = WindowOf(r[1], now)
    BY <1>1, <1>3, <1>10
  <2>2. Bounded(r) BY <1>1, <2>1 DEF RateInv
  <2>3. \A u \in Int \ {w} : Admitted(r, u)' = Admitted(r, u)
    BY <1>3, <1>4 DEF Admitted
  <2>4. Admitted(r, w) \in SUBSET Calls BY DEF Admitted
  <2>0. ASSUME NEW u \in Int, u = w PROVE Admitted(r, u)' = Admitted(r, w)'
    BY <2>0, Zenon DEF Admitted
  <2>5. CASE v # "pass"
    <3>1. Admitted(r, w)' = Admitted(r, w)
      BY <1>3, <1>4, <1>5, <2>5 DEF Admitted
    <3>2. Admitted(r, w) # {} => count'[r] > 0 /\ Cardinality(Admitted(r, w)) <= count'[r]
      BY <1>1, <1>8, <2>1, <2>2, <2>4, FiniteCalls DEF Bounded, CountAfter, RateInv, RateTyped
    <3> QED BY <1>2, <1>8, <2>1, <2>2, <2>3, <2>0, <3>1, <3>2 DEF Bounded
  <2>6. CASE v = "pass"
    <3>1. Admitted(r, w)' = Admitted(r, w) \cup {c}
      BY <1>3, <1>4, <1>5, <2>6 DEF Admitted
    <3>2. Cardinality(Admitted(r, w)') = Cardinality(Admitted(r, w)) + 1
      BY <1>2, <1>6, <2>4, <3>1, FiniteCalls, FS_AddElement
    <3>3. Admitted(r, w) = {} => Cardinality(Admitted(r, w)) = 0
      BY FS_EmptySet
    <3>4. count'[r] > 0 /\ Cardinality(Admitted(r, w)') <= count'[r]
      BY <1>1, <1>8, <2>1, <2>2, <2>4, <3>2, <3>3, FiniteCalls
         DEF Bounded, CountAfter, RateInv, RateTyped
    <3>5. Cardinality(Admitted(r, w)') <= maxRequests[r[1]]
      <4>1. count'[r] <= maxRequests[r[1]] BY <1>1, <1>8, <2>6
      <4>2. count'[r] \in Nat BY <1>1 DEF RateTyped
      <4> QED BY <1>1, <2>4, <3>2, <3>4, <4>1, <4>2, FiniteCalls
    <3> QED BY <1>2, <1>8, <2>1, <2>2, <2>3, <2>0, <3>4, <3>5 DEF Bounded
  <2> QED BY <2>5, <2>6
<1>11. \A d \in Calls : began'[d] <= now' BY <1>3 DEF RateInv
<1> QED BY <1>7, <1>9, <1>10, <1>11 DEF RateInv

(* A verdict that is given without counting.                               *)
LEMMA UncountedStep ==
  ASSUME RateInv, RateTyped', UNCHANGED <<now, count, windowStart, overtaken>>,
         \A c \in Calls : \/ verdict'[c] = verdict[c] /\ began'[c] = began[c]
                          \/ /\ verdict[c] = "none" /\ verdict'[c] = "asking"
                             /\ began'[c] = now
                          \/ /\ verdict[c] = "asking" /\ verdict'[c] = "open"
                             /\ began'[c] = began[c]
  PROVE  RateInv'
<1>1. ASSUME NEW r \in Rows
      PROVE  /\ \A w \in Int : Admitted(r, w)' = Admitted(r, w)
             /\ Judged(r) \in SUBSET Judged(r)' /\ Judged(r)' \in SUBSET Calls
  BY DEF Admitted, Judged
<1>2. ASSUME NEW r \in Rows PROVE count'[r] <= Cardinality(Judged(r)')
  <2>1. Cardinality(Judged(r)) <= Cardinality(Judged(r)')
    BY <1>1, FiniteCalls, FS_Subset
  <2>2. Judged(r) \in SUBSET Calls BY DEF Judged
  <2> QED BY <1>1, <2>1, <2>2, FiniteCalls DEF RateInv, RateTyped
<1>3. \A r \in Rows \ overtaken' : Bounded(r)'
  BY <1>1 DEF RateInv, Bounded
<1>4. \A c \in Calls : began'[c] <= now'
  BY DEF RateInv, RateTyped
<1> QED BY <1>2, <1>3, <1>4 DEF RateInv

(* A row is deleted when its window is long over.                          *)
LEMMA CleanupStep ==
  ASSUME RateInv, RateTyped', UNCHANGED now, NEW d \in Rows, Cleanup(d)
  PROVE  RateInv'
<1>1. /\ count' = [count EXCEPT ![d] = 0] /\ windowStart[d] + KeepFor < now
      /\ UNCHANGED <<windowStart, began, verdict, overtaken>>
  BY DEF Cleanup
<1>2. ASSUME NEW r \in Rows
      PROVE  /\ \A w \in Int : Admitted(r, w)' = Admitted(r, w)
             /\ Judged(r)' = Judged(r)
             /\ Judged(r) \in SUBSET Calls
  BY <1>1 DEF Admitted, Judged
<1>3. ASSUME NEW r \in Rows PROVE count'[r] <= Cardinality(Judged(r)')
  BY <1>1, <1>2, FiniteCalls DEF RateInv, RateTyped
<1>4. windowStart[d] # WindowOf(d[1], now)
  BY <1>1, BucketOfRow, NextWindow, RateLimitAssumption DEF RateInv, RateTyped
<1>5. \A r \in Rows \ overtaken' : Bounded(r)'
  BY <1>1, <1>2, <1>4 DEF RateInv, RateTyped, Bounded
<1> QED BY <1>1, <1>3, <1>5 DEF RateInv

(* When a window begins nobody has been admitted in it.                    *)
LEMMA TickStep ==
  ASSUME RateInv, RateTyped', now' = now + 1, UNCHANGED rateVars
  PROVE  RateInv'
<1>1. UNCHANGED <<count, windowStart, began, verdict, overtaken>>
  BY DEF rateVars
<1>2. ASSUME NEW r \in Rows
      PROVE  /\ \A w \in Int : Admitted(r, w)' = Admitted(r, w)
             /\ Judged(r)' = Judged(r)
  BY <1>1 DEF Admitted, Judged
<1>3. ASSUME NEW r \in Rows \ overtaken', NEW w \in Int, w = WindowOf(r[1], now + 1),
             w # WindowOf(r[1], now)
      PROVE  Admitted(r, w) = {}
  <2>1. w = now + 1
    BY <1>3, BucketOfRow, NextWindow DEF RateInv, RateTyped
  <2>2. ASSUME NEW c \in Calls PROVE WindowOf(bucket[c], began[c]) <= now
    BY RowOfCall, NextWindow DEF RateInv, RateTyped
  <2> QED BY <2>1, <2>2 DEF Admitted, RateInv, RateTyped
<1>4. ASSUME NEW r \in Rows \ overtaken' PROVE Bounded(r)'
  BY <1>1, <1>2, <1>3 DEF RateInv, Bounded
<1>5. \A c \in Calls : began'[c] <= now'
  BY <1>1 DEF RateInv, RateTyped
<1> QED BY <1>1, <1>2, <1>4, <1>5 DEF RateInv

LEMMA RateInvStep ==
  ASSUME RateInv, [Next]_vars
  PROVE  RateInv'
<1>0. RateTyped BY DEF RateInv
<1>1. CASE RateStep
  <2>1. now' = now /\ RateTyped'
    BY <1>0, <1>1, RateTypes DEF RateStep, RateTyped
  <2>2. ASSUME NEW c \in Calls, BeginAllow(c) PROVE RateInv'
    BY <1>0, <2>1, <2>2, UncountedStep DEF BeginAllow, RateTyped
  <2>3. ASSUME NEW c \in Calls, Allow(c) PROVE RateInv'
    <3>1. PICK r, w : r = RowOf(c) /\ w = WindowOf(bucket[c], began[c])
      OBVIOUS
    <3>2. PICK v \in {"pass", "stop"} :
            /\ verdict' = [verdict EXCEPT ![c] = v]
            /\ v = "pass" => CountAfter(r, w) <= maxRequests[bucket[c]]
      BY <2>3, <3>1 DEF Allow
    <3> QED BY <2>1, <2>3, <3>1, <3>2, CountedStep DEF Allow
  <2>4. ASSUME NEW c \in Calls, FailOpen(c) PROVE RateInv'
    <3>1. CASE Upsert(c)
      <4>1. verdict[c] = "asking" /\ verdict' = [verdict EXCEPT ![c] = "open"]
        BY <2>4 DEF FailOpen
      <4> QED BY <2>1, <3>1, <4>1, CountedStep
    <3>2. CASE UNCHANGED <<count, windowStart, began, overtaken>>
      <4>1. verdict[c] = "asking" /\ verdict' = [verdict EXCEPT ![c] = "open"]
        BY <2>4 DEF FailOpen
      <4> QED BY <1>0, <2>1, <3>2, <4>1, UncountedStep DEF RateTyped
    <3> QED BY <2>4, <3>1, <3>2 DEF FailOpen
  <2>5. ASSUME NEW r \in Rows, Cleanup(r) PROVE RateInv'
    BY <2>1, <2>5, CleanupStep
  <2> QED BY <1>1, <2>2, <2>3, <2>4, <2>5 DEF RateStep, Limiter
<1>2. CASE UNCHANGED <<now, rateVars>>
  <2>1. RateTyped' BY <1>0, <1>2, RateTypes DEF RateTyped
  <2> QED BY <1>0, <1>2, <2>1, UncountedStep DEF rateVars, RateTyped
<1>3. CASE now' = now + 1 /\ UNCHANGED rateVars
  <2>1. RateTyped' BY <1>0, <1>3, RateTypes DEF RateTyped
  <2> QED BY <1>3, <2>1, TickStep
<1> QED BY <1>1, <1>2, <1>3, StepKinds DEF AuthStep, TicketStep, ClockStep, Tick

(***************************************************************************)
(* The theorems                                                            *)
(***************************************************************************)
EdgeInv ==
  /\ RateInv /\ AuthInv /\ TicketInv
  /\ now <= LastTick
  /\ \A c \in Logins : login[c] # "none" => Served(c)

LEMMA EdgeInit == Init => EdgeInv
<1> SUFFICES ASSUME Init PROVE EdgeInv OBVIOUS
<1> USE ClockAssumption, ApiEdgeAssumption, RateLimitAssumption, LocalAuthAssumption
<1>1. RateInv
  <2>1. RateTyped
    <3>1. count = [r \in Rows |-> 0] /\ windowStart = [r \in Rows |-> 0] /\ now = 0
      BY DEF Init, RateInit
    <3>2. /\ began = [c \in Calls |-> 0] /\ verdict = [c \in Calls |-> "none"]
          /\ overtaken = {}
      BY DEF Init, RateInit
    <3> QED BY <3>1, <3>2 DEF RateTyped
  <2>2. \A r \in Rows : Judged(r) = {} /\ \A w \in Int : Admitted(r, w) = {}
    BY DEF Init, RateInit, Judged, Admitted
  <2>3. /\ now = 0 /\ count = [r \in Rows |-> 0] /\ began = [c \in Calls |-> 0]
    BY DEF Init, RateInit
  <2>4. \A r \in Rows : /\ Cardinality(Judged(r)) = 0
                        /\ \A w \in Int : Cardinality(Admitted(r, w)) = 0
    BY <2>2, FS_EmptySet, Zenon
  <2>5. \A r \in Rows : count[r] <= Cardinality(Judged(r))
    BY <2>3, <2>4
  <2>6. ASSUME NEW r \in Rows PROVE Bounded(r)
    BY <2>2, <2>4, BucketOfRow DEF Bounded
  <2> QED BY <2>1, <2>3, <2>5, <2>6 DEF RateInv
<1>2. AuthInv
  <2>1. AuthTyped BY DEF Init, AuthInit, AuthTyped
  <2> QED BY <2>1, FS_EmptySet DEF Init, AuthInit, AuthInv, Tallied, Locked
<1>3. TicketInv
  <2>1. /\ now = 0 /\ tickets = [r \in Replicas |-> {}]
        /\ expiresAt = [t \in Tickets |-> 0] /\ connections = [t \in Tickets |-> <<>>]
        /\ verdict = [c \in Calls |-> "none"]
    BY DEF Init, TicketInit, RateInit
  <2>2. TicketTyped BY <2>1 DEF TicketTyped
  <2> QED BY <2>1, <2>2 DEF TicketInv, Sound
<1> QED BY <1>1, <1>2, <1>3 DEF Init, AuthInit, EdgeInv

(* A login is past the limiter before it is anywhere.                      *)
LEMMA ServedStep ==
  ASSUME EdgeInv, [Next]_vars
  PROVE  \A c \in Logins : login'[c] # "none" => Served(c)'
<1>0. RateTyped /\ AuthTyped BY DEF EdgeInv, RateInv, AuthInv
<1>1. CASE RateStep
  <2>1. login' = login BY <1>1 DEF RateStep, authVars
  <2>2. \A c \in Calls : Served(c) => Served(c)'
    BY <1>0, <1>1, RateMoves DEF Served
  <2> QED BY <2>1, <2>2, ApiEdgeAssumption DEF EdgeInv
<1>2. CASE AuthStep
  <2>1. UNCHANGED verdict BY <1>2 DEF AuthStep, rateVars
  <2>2. ASSUME NEW d \in Logins, Served(d), HandleLogin(d)
        PROVE  \A c \in Logins \ {d} : login'[c] = login[c]
    BY <1>0, <2>2 DEF HandleLogin, GetByUsername, ComparePassword, RegisterFailedAttempt,
       Reject, IssueToken, ResetFailedAttempts, AuthTyped
  <2>3. ASSUME NEW a \in Accounts, SeedAdmin(a) PROVE login' = login
    BY <2>3 DEF SeedAdmin
  <2> QED BY <1>2, <2>1, <2>2, <2>3 DEF AuthStep, EdgeInv, Served
<1>3. CASE UNCHANGED <<rateVars, authVars>>
  BY <1>3 DEF EdgeInv, Served, rateVars, authVars
<1> QED BY <1>1, <1>2, <1>3, StepKinds DEF TicketStep, ClockStep

THEOREM EdgeSafe == Spec => []EdgeInv
<1>1. EdgeInv /\ [Next]_vars => EdgeInv'
  <2> SUFFICES ASSUME EdgeInv, [Next]_vars PROVE EdgeInv' OBVIOUS
  <2>1. RateInv' /\ AuthInv' BY RateInvStep, AuthInvStep DEF EdgeInv
  <2>2. TicketInv' BY TicketInvStep DEF EdgeInv, RateInv, AuthInv
  <2>3. now' <= LastTick
    BY StepKinds, ClockAssumption DEF EdgeInv, RateInv, RateTyped, RateStep, AuthStep,
       TicketStep, ClockStep, Tick
  <2> QED BY <2>1, <2>2, <2>3, ServedStep DEF EdgeInv
<1> QED BY <1>1, EdgeInit, PTL DEF Spec

(* Every reachable state is well typed; no handler runs before its limiter *)
(* let the call through, and no ticket is in two stores (TypeOK).          *)
THEOREM EdgeTyped == Spec => []TypeOK
<1>1. EdgeInv => TypeOK
  <2> SUFFICES ASSUME EdgeInv PROVE TypeOK OBVIOUS
  <2>1. count \in [Rows -> 0..Cardinality(Calls)]
    <3>1. ASSUME NEW r \in Rows PROVE count[r] \in 0..Cardinality(Calls)
      <4>1. Judged(r) \in SUBSET Calls BY DEF Judged
      <4>2. Cardinality(Calls) \in Nat BY RateLimitAssumption, FS_CardinalityType
      <4> QED BY <4>1, <4>2, FiniteCalls DEF EdgeInv, RateInv, RateTyped
    <3> QED BY <3>1 DEF EdgeInv, RateInv, RateTyped
  <2>2. ASSUME NEW t \in Tickets PROVE Cardinality({r \in Replicas : t \in tickets[r]}) <= 1
    <3> DEFINE S == {r \in Replicas : t \in tickets[r]}
    <3>1. CASE S = {} BY <3>1, FS_EmptySet
    <3>2. CASE S # {}
      <4>1. PICK r : r \in S BY <3>2
      <4>2. S = {r} BY <4>1 DEF EdgeInv, TicketInv, Sound
      <4>3. Cardinality({r}) = 1 BY FS_Singleton
      <4> QED BY ONLY <4>2, <4>3
    <3> QED BY <3>1, <3>2
  <2>3. now \in 0..LastTick
    BY ClockAssumption DEF EdgeInv, RateInv, RateTyped
  <2> QED BY <2>1, <2>2, <2>3
          DEF TypeOK, EdgeInv, RateInv, RateTyped, AuthInv, AuthTyped, TicketInv, Sound
<1> QED BY <1>1, EdgeSafe, PTL

(* Whatever the limits and the windows, no more calls of a key pass in one *)
(* window than its bucket allows, unless a statement was overtaken.        *)
THEOREM WindowsAreBounded == Spec => []WindowBound
<1>1. EdgeInv => WindowBound
  BY DEF EdgeInv, RateInv, Bounded, WindowBound
<1> QED BY <1>1, EdgeSafe, PTL

(* However logins to one account interleave, no failure is lost, and the   *)
(* lock is set and obeyed.                                                 *)
THEOREM NoFailureIsLost == Spec => []FailuresCounted
<1>1. EdgeInv => FailuresCounted
  BY DEF EdgeInv, AuthInv, Tallied, FailuresCounted
<1> QED BY <1>1, EdgeSafe, PTL

(* A ticket opens one WebSocket at most, in time, for a user who logged in.*)
THEOREM TicketsOpenOnce == Spec => []TicketOnce
<1>1. EdgeInv => TicketOnce
  BY DEF EdgeInv, TicketInv, Sound, Served, Vouched, TicketOnce
<1> QED BY <1>1, EdgeSafe, PTL

-----------------------------------------------------------------------------
(* The way out: WsHub                                                      *)
-----------------------------------------------------------------------------

(* A channel that is written at its end and read at its head.              *)
LEMMA ChannelOperators ==
  ASSUME NEW S, NEW s \in Seq(S)
  PROVE  /\ \A x \in S : /\ Append(s, x) \in Seq(S)
                         /\ Len(Append(s, x)) = Len(s) + 1
                         /\ Append(s, x)[Len(s) + 1] = x
                         /\ \A i \in 1 .. Len(s) : Append(s, x)[i] = s[i]
         /\ s # <<>> => /\ Head(s) \in S
                        /\ Head(s) = s[1]
                        /\ Tail(s) \in Seq(S)
                        /\ Len(s) \in Nat \ {0}
                        /\ Len(Tail(s)) = Len(s) - 1
                        /\ \A i \in 1 .. Len(s) - 1 : Tail(s)[i] = s[i + 1]
<1>1. ASSUME NEW x \in S
      PROVE  /\ Append(s, x) \in Seq(S)
             /\ Len(Append(s, x)) = Len(s) + 1
             /\ Append(s, x)[Len(s) + 1] = x
             /\ \A i \in 1 .. Len(s) : Append(s, x)[i] = s[i]
  BY AppendProperties
<1>2. ASSUME s # <<>>
      PROVE  /\ Head(s) \in S
             /\ Head(s) = s[1]
             /\ Tail(s) \in Seq(S)
             /\ Len(s) \in Nat \ {0}
             /\ Len(Tail(s)) = Len(s) - 1
             /\ \A i \in 1 .. Len(s) - 1 : Tail(s)[i] = s[i + 1]
  BY <1>2, HeadTailProperties, EmptySeq, LenProperties
<1>3. QED
  BY <1>1, <1>2

-----------------------------------------------------------------------------
(* Type correctness                                                        *)
-----------------------------------------------------------------------------
(* A client that registers has started, and nothing else about it changes. *)
LEMMA PumpStarts ==
  ASSUME HubTypeOK, NEW c \in Clients,
         pump' = [pump EXCEPT ![c] =
                    [start |-> "running", reader |-> "reading", writer |-> "writing"]]
  PROVE  /\ pump' \in [Clients -> [start : Start, reader : Reader, writer : Writer]]
         /\ pump'[c].start = "running"
         /\ \A d \in Clients \ {c} : pump'[d] = pump[d]
  BY DEF HubTypeOK, Start, Reader, Writer

(* Leaving the hub concerns no start and keeps the counts.                 *)
LEMMA LeavingKeepsStart ==
  ASSUME HubTypeOK, NEW c \in Clients, Unregistered(c)
  PROVE  /\ pump' \in [Clients -> [start : Start, reader : Reader, writer : Writer]]
         /\ \A d \in Clients : pump'[d].start = pump[d].start
         /\ dropping' \in [Clients -> Nat]
<1>1. CASE pump' = [pump EXCEPT ![c].reader = "ended"] /\ dropping' = dropping
  BY <1>1 DEF HubTypeOK, Start, Reader, Writer
<1>2. CASE /\ dropping[c] > 0
           /\ dropping' = [dropping EXCEPT ![c] = @ - 1]
           /\ pump' = pump
  <2>1. dropping[c] \in Nat /\ dropping[c] - 1 \in Nat
    BY <1>2 DEF HubTypeOK
  <2>2. QED
    BY <1>2, <2>1 DEF HubTypeOK
<1>3. QED
  BY <1>1, <1>2 DEF Unregistered

(* The steps of the consumer and of the broker.                            *)
LEMMA ConsumerTyped ==
  ASSUME HubTypeOK,
         (\E e \in Events : Notify(e)) \/ Consume \/ ChannelLost
  PROVE  HubTypeOK'
<1>1. ASSUME NEW e \in Events, Notify(e) PROVE HubTypeOK'
  BY <1>1 DEF HubTypeOK, Notify, hubVars, clientVars
<1>2. ASSUME NEW e \in Events, DeliverEvent(e) PROVE HubTypeOK'
  BY <1>2 DEF HubTypeOK, DeliverEvent, hubVars, clientVars
<1>3. ASSUME NEW e \in Events, Broadcast(e) PROVE HubTypeOK'
  <2>1. broadcast' \in Seq(Events) /\ Len(broadcast') = Len(broadcast) + 1
    BY <1>3, ChannelOperators DEF HubTypeOK, Broadcast
  <2>2. Len(broadcast') <= BroadcastCap
    BY <1>3, <2>1, HubAssumption, LenProperties DEF HubTypeOK, Broadcast
  <2>3. QED
    BY <1>3, <2>1, <2>2 DEF HubTypeOK, Broadcast, clientVars
<1>4. ASSUME NEW e \in Events, AckEvent(e) PROVE HubTypeOK'
  BY <1>4 DEF HubTypeOK, AckEvent, hubVars, clientVars
<1>5. ASSUME ChannelLost PROVE HubTypeOK'
  BY <1>5, HubAssumption DEF HubTypeOK, ChannelLost, hubVars, clientVars
<1>6. ASSUME StopConsuming \/ ConsumeReturns PROVE HubTypeOK'
  BY <1>6 DEF HubTypeOK, StopConsuming, ConsumeReturns, hubVars, clientVars
<1>7. QED
  BY <1>1, <1>2, <1>3, <1>4, <1>5, <1>6 DEF Consume

(* An event is only put in a channel that has room for it.                 *)
LEMMA EnqueueTyped ==
  ASSUME HubTypeOK, NEW e \in Events, NEW c \in Clients
  PROVE  Enqueue(c, e) \in Seq(Events) /\ Len(Enqueue(c, e)) <= SendCap
<1>1. send[c] \in Seq(Events) /\ Len(send[c]) \in Nat /\ Len(send[c]) <= SendCap
  BY LenProperties DEF HubTypeOK
<1>2. CASE c \in clients \ Slow
  <2>1. Len(send[c]) # SendCap
    BY <1>2 DEF Slow
  <2>2. Append(send[c], e) \in Seq(Events) /\ Len(Append(send[c], e)) = Len(send[c]) + 1
    BY <1>1, ChannelOperators
  <2>3. QED
    BY <1>1, <1>2, <2>1, <2>2, HubAssumption DEF Enqueue
<1>3. CASE c \notin clients \ Slow
  BY <1>1, <1>3 DEF Enqueue
<1>4. QED
  BY <1>2, <1>3

(* What the hub does with an event.                                        *)
LEMMA FanOutTyped == HubTypeOK /\ FanOut => HubTypeOK'
<1> SUFFICES ASSUME HubTypeOK, FanOut PROVE HubTypeOK'
  OBVIOUS
<1>1. /\ Head(broadcast) \in Events
      /\ broadcast' \in Seq(Events) /\ Len(broadcast') <= BroadcastCap
  BY ChannelOperators, HubAssumption DEF HubTypeOK, FanOut
<1>2. log' \in Seq(Events)
  BY <1>1, ChannelOperators DEF HubTypeOK, FanOut
<1>3. /\ send' \in [Clients -> Seq(Events)]
      /\ \A c \in Clients : Len(send'[c]) <= SendCap
  BY <1>1, EnqueueTyped DEF FanOut
<1>4. dropping' \in [Clients -> Nat]
  BY DEF HubTypeOK, FanOut, Drop
<1>5. missed' \subseteq Clients
  BY DEF HubTypeOK, FanOut, Slow
<1>6. panicked' \in BOOLEAN
  BY DEF HubTypeOK, FanOut
<1>7. UNCHANGED <<proc, queue, consumer, handling, unacked, losses>>
  BY DEF FanOut, brokerVars
<1>8. UNCHANGED <<hub, clients, closed, pump, gone, joined, got>>
  BY DEF FanOut
<1>9. QED
  BY <1>1, <1>2, <1>3, <1>4, <1>5, <1>6, <1>7, <1>8 DEF HubTypeOK

(* A client comes or goes.                                                 *)
LEMMA ServeTyped ==
  ASSUME HubTypeOK, NEW c \in Clients, Serve(c)
  PROVE  HubTypeOK'
<1>1. CASE RegisterClient(c)
  <2>1. joined' \in [Clients -> Nat]
    BY <1>1, LenProperties DEF HubTypeOK, RegisterClient
  <2>2. QED
    BY <1>1, <2>1, PumpStarts DEF HubTypeOK, RegisterClient, brokerVars
<1>2. CASE UnregisterClient(c)
  <2>1. closed' \in [Clients -> BOOLEAN] /\ panicked' \in BOOLEAN
    BY <1>2 DEF HubTypeOK, UnregisterClient, Close
  <2>2. clients' \subseteq {d \in Clients : pump'[d].start = "running"}
    BY <1>2, LeavingKeepsStart DEF HubTypeOK, UnregisterClient
  <2>3. QED
    BY <1>2, <2>1, <2>2, LeavingKeepsStart DEF HubTypeOK, UnregisterClient, brokerVars
<1>3. CASE AfterHubReturned(c)
  <2>1. UNCHANGED <<proc, queue, consumer, handling, unacked, losses, broadcast, hub,
                    clients, log, missed, panicked, send, closed, gone, joined, got>>
    BY <1>3 DEF AfterHubReturned, brokerVars
  <2>2. CASE Unregistered(c)
    BY <2>1, <2>2, LeavingKeepsStart DEF HubTypeOK
  <2>3. CASE /\ pump' = [pump EXCEPT ![c] =
                           [start |-> "running", reader |-> "reading", writer |-> "writing"]]
             /\ dropping' = dropping
    BY <2>1, <2>3, PumpStarts DEF HubTypeOK
  <2>4. QED
    BY <1>3, <2>2, <2>3 DEF AfterHubReturned
<1>4. QED
  BY <1>1, <1>2, <1>3 DEF Serve

(* What a client and its pumps do.                                         *)
LEMMA ClientTyped ==
  ASSUME HubTypeOK, NEW c \in Clients,
         Connect(c) \/ PeerLeaves(c) \/ WriteEvent(c) \/ WriterEnds(c) \/ ReaderEnds(c)
  PROVE  HubTypeOK'
<1>1. CASE Connect(c)
  BY <1>1 DEF HubTypeOK, Connect, brokerVars, hubVars, Start, Reader, Writer
<1>2. CASE PeerLeaves(c)
  BY <1>2 DEF HubTypeOK, PeerLeaves, brokerVars, hubVars
<1>3. CASE WriteEvent(c)
  <2>1. /\ Head(send[c]) \in Events
        /\ Tail(send[c]) \in Seq(Events)
        /\ Len(Tail(send[c])) = Len(send[c]) - 1
        /\ Len(send[c]) \in Nat
    BY <1>3, ChannelOperators DEF HubTypeOK, WriteEvent
  <2>2. Append(got[c], Head(send[c])) \in Seq(Events)
    BY <2>1, ChannelOperators DEF HubTypeOK
  <2>3. got' \in [Clients -> Seq(Events)] /\ send' \in [Clients -> Seq(Events)]
    BY <1>3, <2>1, <2>2 DEF HubTypeOK, WriteEvent
  <2>4. ASSUME NEW d \in Clients PROVE Len(send'[d]) <= SendCap
    BY <1>3, <2>1, HubAssumption DEF HubTypeOK, WriteEvent
  <2>5. QED
    BY <1>3, <2>3, <2>4 DEF HubTypeOK, WriteEvent, brokerVars, hubVars
<1>4. CASE WriterEnds(c)
  BY <1>4 DEF HubTypeOK, WriterEnds, brokerVars, hubVars, Start, Reader, Writer
<1>5. CASE ReaderEnds(c)
  BY <1>5 DEF HubTypeOK, ReaderEnds, brokerVars, hubVars, Start, Reader, Writer
<1>6. QED
  BY <1>1, <1>2, <1>3, <1>4, <1>5

(* The type invariant holds at first and is kept by every step.            *)
LEMMA HubTypedStep == HubTypeOK /\ [HubNext]_wsVars => HubTypeOK'
<1> SUFFICES ASSUME HubTypeOK, [HubNext]_wsVars PROVE HubTypeOK'
  OBVIOUS
<1>1. CASE (\E e \in Events : Notify(e)) \/ Consume \/ ChannelLost
  BY <1>1, ConsumerTyped
<1>2. CASE FanOut
  BY <1>2, FanOutTyped
<1>3. CASE HubReturns
  BY <1>3 DEF HubTypeOK, HubReturns, Close, brokerVars
<1>4. ASSUME NEW c \in Clients, Serve(c) PROVE HubTypeOK'
  BY <1>4, ServeTyped
<1>5. ASSUME NEW c \in Clients,
             Connect(c) \/ PeerLeaves(c) \/ WriteEvent(c) \/ WriterEnds(c) \/ ReaderEnds(c)
      PROVE  HubTypeOK'
  BY <1>5, ClientTyped
<1>6. CASE Shutdown \/ Exit
  BY <1>6 DEF HubTypeOK, Shutdown, Exit, brokerVars, hubVars, clientVars
<1>7. CASE UNCHANGED wsVars
  BY <1>7 DEF HubTypeOK, wsVars, brokerVars, hubVars, clientVars
<1>8. QED
  BY <1>1, <1>2, <1>3, <1>4, <1>5, <1>6, <1>7 DEF HubNext

(* The channels hold no more than they were made for, and only started     *)
(* clients are with the hub (Hub.Run, Client.Start).                       *)
THEOREM HubTyped == HubSpec => []HubTypeOK
<1>1. ASSUME HubInit PROVE HubTypeOK
  <2>1. /\ broadcast \in Seq(Events) /\ Len(broadcast) <= BroadcastCap
        /\ log \in Seq(Events)
        /\ send \in [Clients -> Seq(Events)] /\ got \in [Clients -> Seq(Events)]
        /\ \A c \in Clients : Len(send[c]) <= SendCap
    BY <1>1, HubAssumption, EmptySeq DEF HubInit
  <2>2. /\ pump \in [Clients -> [start : Start, reader : Reader, writer : Writer]]
        /\ clients \subseteq {c \in Clients : pump[c].start = "running"}
    BY <1>1 DEF HubInit, Start, Reader, Writer
  <2>3. /\ closed \in [Clients -> BOOLEAN] /\ gone \in [Clients -> BOOLEAN]
        /\ dropping \in [Clients -> Nat] /\ joined \in [Clients -> Nat]
    BY <1>1 DEF HubInit
  <2>4. losses \in 0 .. MaxLosses
    BY <1>1, HubAssumption DEF HubInit
  <2>5. /\ proc \in {"up", "stopping", "stopped"}
        /\ queue \subseteq Events /\ handling \subseteq Events /\ unacked \subseteq Events
        /\ consumer \in {"consuming", "draining", "returned"}
        /\ hub \in {"running", "returned"}
        /\ missed \subseteq Clients
        /\ panicked \in BOOLEAN
    BY <1>1 DEF HubInit
  <2>6. QED
    BY <2>1, <2>2, <2>3, <2>4, <2>5 DEF HubTypeOK
<1>2. QED
  BY <1>1, HubTypedStep, PTL DEF HubSpec

-----------------------------------------------------------------------------
(* A channel is closed once                                                *)
-----------------------------------------------------------------------------
(* A closed channel is that of a client that is not with the hub, and that *)
(* started long ago: it cannot register again.                             *)
ClosedIsLeft ==
  \A c \in Clients : closed[c] => c \notin clients /\ pump[c].start = "running"

PanicInv == HubTypeOK /\ ClosedIsLeft /\ NeverPanics

(* The hub only sends to its clients and only closes what they left.       *)
LEMMA PanicStep == PanicInv /\ [HubNext]_wsVars => PanicInv'
<1> SUFFICES ASSUME PanicInv, [HubNext]_wsVars PROVE PanicInv'
  OBVIOUS
<1> USE DEF PanicInv
<1>0. HubTypeOK /\ HubTypeOK'
  BY HubTypedStep
<1>1. CASE FanOut
  <2>1. UNCHANGED <<clients, closed, pump>>
    BY <1>1 DEF FanOut
  <2>2. \A c \in clients : ~closed[c]
    BY <1>0 DEF ClosedIsLeft, HubTypeOK
  <2>3. NeverPanics'
    BY <1>1, <2>2 DEF FanOut, NeverPanics
  <2>4. QED
    BY <1>0, <2>1, <2>3 DEF ClosedIsLeft
<1>2. CASE HubReturns
  BY <1>0, <1>2 DEF HubReturns, Close, ClosedIsLeft, NeverPanics, HubTypeOK
<1>3. ASSUME NEW c \in Clients, RegisterClient(c) PROVE PanicInv'
  <2>1. ~closed[c]
    BY <1>3 DEF RegisterClient, ClosedIsLeft
  <2>2. QED
    BY <1>0, <1>3, <2>1, PumpStarts DEF RegisterClient, ClosedIsLeft, NeverPanics
<1>4. ASSUME NEW c \in Clients, UnregisterClient(c) PROVE PanicInv'
  <2>1. \A d \in Clients : pump'[d].start = pump[d].start
    BY <1>0, <1>4, LeavingKeepsStart DEF UnregisterClient
  <2>2. NeverPanics'
    BY <1>4 DEF UnregisterClient, Close, ClosedIsLeft, NeverPanics
  <2>3. ClosedIsLeft'
    BY <1>0, <1>4, <2>1 DEF UnregisterClient, Close, ClosedIsLeft, HubTypeOK
  <2>4. QED
    BY <1>0, <2>2, <2>3
<1>5. ASSUME NEW c \in Clients, AfterHubReturned(c) PROVE PanicInv'
  <2>1. UNCHANGED <<clients, closed, panicked>>
    BY <1>5 DEF AfterHubReturned
  <2>2. ASSUME NEW d \in Clients, closed[d] PROVE pump'[d].start = "running"
    <3>1. CASE Unregistered(c)
      BY <1>0, <2>2, <3>1, LeavingKeepsStart DEF ClosedIsLeft
    <3>2. CASE pump' = [pump EXCEPT ![c] =
                          [start |-> "running", reader |-> "reading", writer |-> "writing"]]
      BY <1>0, <2>2, <3>2, PumpStarts DEF ClosedIsLeft
    <3>3. QED
      BY <1>5, <3>1, <3>2 DEF AfterHubReturned
  <2>3. QED
    BY <1>0, <2>1, <2>2 DEF ClosedIsLeft, NeverPanics
<1>6. ASSUME NEW c \in Clients,
             Connect(c) \/ PeerLeaves(c) \/ WriteEvent(c) \/ WriterEnds(c) \/ ReaderEnds(c)
      PROVE  PanicInv'
  <2>1. UNCHANGED <<clients, closed, panicked>>
    BY <1>6 DEF Connect, PeerLeaves, WriteEvent, WriterEnds, ReaderEnds, hubVars
  <2>2. ASSUME NEW d \in Clients, pump[d].start = "running" PROVE pump'[d].start = "running"
    <3>1. CASE Connect(c)
      BY <1>0, <2>2, <3>1 DEF Connect, HubTypeOK
    <3>2. CASE PeerLeaves(c) \/ WriteEvent(c)
      BY <2>2, <3>2 DEF PeerLeaves, WriteEvent
    <3>3. CASE WriterEnds(c)
      BY <1>0, <2>2, <3>3 DEF WriterEnds, HubTypeOK
    <3>4. CASE ReaderEnds(c)
      BY <1>0, <2>2, <3>4 DEF ReaderEnds, HubTypeOK
    <3>5. QED
      BY <1>6, <3>1, <3>2, <3>3, <3>4
  <2>3. QED
    BY <1>0, <2>1, <2>2 DEF ClosedIsLeft, NeverPanics
<1>7. CASE \/ (\E e \in Events : Notify(e)) \/ Consume \/ ChannelLost
           \/ Shutdown \/ Exit \/ UNCHANGED wsVars
  <2>1. UNCHANGED <<clients, closed, panicked, pump>>
    BY <1>7 DEF Notify, Consume, DeliverEvent, Broadcast, AckEvent, StopConsuming,
                ConsumeReturns, ChannelLost, Shutdown, Exit, wsVars, hubVars, clientVars
  <2>2. QED
    BY <1>0, <2>1 DEF ClosedIsLeft, NeverPanics
<1>8. QED
  BY <1>1, <1>2, <1>3, <1>4, <1>5, <1>6, <1>7 DEF HubNext, Serve

(* However many goroutines unregister a client, and whenever the hub ends, *)
(* no channel is closed twice or sent to once closed (Hub.Run).            *)
THEOREM NoChannelPanics == HubSpec => []NeverPanics
<1>1. HubInit /\ HubTypeOK => PanicInv
  BY DEF HubInit, PanicInv, ClosedIsLeft, NeverPanics
<1>2. PanicInv => NeverPanics
  BY DEF PanicInv
<1>3. QED
  BY <1>1, <1>2, PanicStep, HubTyped, PTL DEF HubSpec

-----------------------------------------------------------------------------
(* No client has a gap it was not told of                                  *)
-----------------------------------------------------------------------------
(* Before a client is with the hub there is nothing in its channel.        *)
FreshIsEmpty ==
  \A c \in Clients : pump[c].start # "running" => got[c] = <<>> /\ send[c] = <<>>

(* What a client was sent and what its channel holds are the events of the *)
(* hub at consecutive places, from the one at which it was registered; up  *)
(* to the last as long as it is with the hub.                              *)
Follows(c) ==
  /\ joined[c] + Len(got[c]) + Len(send[c]) <= Len(log)
  /\ c \in clients => joined[c] + Len(got[c]) + Len(send[c]) = Len(log)
  /\ \A i \in 1 .. Len(got[c]) : got[c][i] = log[joined[c] + i]
  /\ \A i \in 1 .. Len(send[c]) : send[c][i] = log[joined[c] + Len(got[c]) + i]

StreamInv == FreshIsEmpty /\ \A c \in Clients \ missed : Follows(c)

(* What a client has been sent and still has to be sent is unaffected by   *)
(* events that come after it.                                              *)
LEMMA FollowsFrame ==
  ASSUME HubTypeOK, NEW c \in Clients, Follows(c),
         UNCHANGED <<log, joined[c], got[c], send[c]>>,
         c \in clients' => c \in clients
  PROVE  Follows(c)'
  BY DEF Follows

(* The hub appends the same event to its log and to the channel of every   *)
(* client that has room; the others miss it.                               *)
LEMMA FanOutFollows ==
  ASSUME HubTypeOK, FanOut, NEW c \in Clients, c \notin missed', Follows(c)
  PROVE  Follows(c)'
<1> DEFINE e == Head(broadcast)
<1>1. /\ e \in Events
      /\ log' = Append(log, e) /\ send'[c] = Enqueue(c, e)
      /\ UNCHANGED <<clients, joined, got>>
      /\ c \notin Slow
  BY ChannelOperators DEF HubTypeOK, FanOut
<1>2. /\ log \in Seq(Events) /\ send[c] \in Seq(Events) /\ got[c] \in Seq(Events)
  BY DEF HubTypeOK
<1>0. /\ joined[c] \in Nat
      /\ Len(log) \in Nat /\ Len(send[c]) \in Nat /\ Len(got[c]) \in Nat
  BY <1>2, LenProperties DEF HubTypeOK
<1>3. /\ Len(log') = Len(log) + 1
      /\ log'[Len(log) + 1] = e
      /\ \A i \in 1 .. Len(log) : log'[i] = log[i]
  BY <1>1, <1>2, ChannelOperators
<1>4. \A i \in 1 .. Len(got[c]) : joined[c] + i \in 1 .. Len(log)
  BY <1>0 DEF Follows
<1>5. \A i \in 1 .. Len(send[c]) : joined[c] + Len(got[c]) + i \in 1 .. Len(log)
  BY <1>0 DEF Follows
<1>6. \A i \in 1 .. Len(got'[c]) : got'[c][i] = log'[joined'[c] + i]
  BY <1>1, <1>3, <1>4 DEF Follows
<1>7. CASE c \in clients
  <2>1. send'[c] = Append(send[c], e)
    BY <1>1, <1>7 DEF Enqueue
  <2>2. /\ Len(send'[c]) = Len(send[c]) + 1
        /\ send'[c][Len(send[c]) + 1] = e
        /\ \A i \in 1 .. Len(send[c]) : send'[c][i] = send[c][i]
    <3>1. send[c] \in Seq(Events) /\ e \in Events
      BY <1>1, <1>2
    <3>2. QED
      BY <2>1, <3>1, ChannelOperators
  <2>3. joined[c] + Len(got[c]) + Len(send[c]) = Len(log)
    BY <1>7 DEF Follows
  <2>4. ASSUME NEW i \in 1 .. Len(send'[c])
        PROVE  send'[c][i] = log'[joined[c] + Len(got[c]) + i]
    <3>1. CASE i \in 1 .. Len(send[c])
      BY <1>3, <1>5, <2>2, <3>1 DEF Follows
    <3>2. CASE i = Len(send[c]) + 1
      <4>1. joined[c] + Len(got[c]) + i = Len(log) + 1
        BY <1>0, <2>3, <3>2
      <4>2. QED
        BY <1>3, <2>2, <3>2, <4>1
    <3>3. QED
      BY <1>0, <2>2, <3>1, <3>2
  <2>5. joined[c] + Len(got[c]) + Len(send'[c]) = Len(log')
    <3>1. Len(send'[c]) = Len(send[c]) + 1 /\ Len(log') = Len(log) + 1
      BY <1>3, <2>2
    <3>2. joined[c] + Len(got[c]) + (Len(send[c]) + 1)
            = joined[c] + Len(got[c]) + Len(send[c]) + 1
      BY <1>0
    <3>3. QED
      BY <2>3, <3>1, <3>2
  <2>6. /\ Len(log') \in Nat
        /\ joined'[c] = joined[c] /\ got'[c] = got[c]
    BY <1>0, <1>1, <1>3
  <2>7. joined'[c] + Len(got'[c]) + Len(send'[c]) = Len(log')
    BY <2>5, <2>6
  <2>8. \A i \in 1 .. Len(send'[c]) : send'[c][i] = log'[joined'[c] + Len(got'[c]) + i]
    BY <2>4, <2>6
  <2>9. QED
    BY <1>6, <2>6, <2>7, <2>8 DEF Follows
<1>8. CASE c \notin clients
  <2>1. send'[c] = send[c]
    BY <1>1, <1>8 DEF Enqueue
  <2>2. joined'[c] = joined[c] /\ got'[c] = got[c] /\ c \notin clients'
    BY <1>1, <1>8
  <2>3. joined'[c] + Len(got'[c]) + Len(send'[c]) <= Len(log')
    <3>1. joined[c] + Len(got[c]) + Len(send[c]) <= Len(log) + 1
      BY <1>0 DEF Follows
    <3>2. QED
      BY <1>3, <2>1, <2>2, <3>1
  <2>4. \A i \in 1 .. Len(send'[c]) : send'[c][i] = log'[joined'[c] + Len(got'[c]) + i]
    BY <1>3, <1>5, <2>1, <2>2 DEF Follows
  <2>5. QED
    BY <1>6, <2>2, <2>3, <2>4 DEF Follows
<1>9. QED
  BY <1>7, <1>8

(* The writer takes the head of the channel, and sends it.                 *)
LEMMA WriteFollows ==
  ASSUME HubTypeOK, NEW c \in Clients, WriteEvent(c), Follows(c)
  PROVE  Follows(c)'
<1>1. /\ got'[c] = Append(got[c], Head(send[c])) /\ send'[c] = Tail(send[c])
      /\ send[c] # <<>>
      /\ UNCHANGED <<clients, joined, log>>
  BY DEF HubTypeOK, WriteEvent, hubVars
<1>0. send[c] \in Seq(Events) /\ got[c] \in Seq(Events)
  BY DEF HubTypeOK
<1>2. /\ joined[c] \in Nat
      /\ Len(send[c]) \in Nat \ {0} /\ Len(got[c]) \in Nat
  BY <1>0, <1>1, EmptySeq, LenProperties DEF HubTypeOK
<1>3. /\ Head(send[c]) = send[c][1] /\ Head(send[c]) \in Events
      /\ Len(send'[c]) = Len(send[c]) - 1
      /\ \A i \in 1 .. Len(send[c]) - 1 : send'[c][i] = send[c][i + 1]
  BY <1>0, <1>1, ChannelOperators
<1>4. /\ Len(got'[c]) = Len(got[c]) + 1
      /\ got'[c][Len(got[c]) + 1] = send[c][1]
      /\ \A i \in 1 .. Len(got[c]) : got'[c][i] = got[c][i]
  BY <1>0, <1>1, <1>3, ChannelOperators
<1>5. ASSUME NEW i \in 1 .. Len(got'[c]) PROVE got'[c][i] = log[joined[c] + i]
  <2>1. CASE i \in 1 .. Len(got[c])
    BY <1>4, <2>1 DEF Follows
  <2>2. CASE i = Len(got[c]) + 1
    <3>1. send[c][1] = log[joined[c] + Len(got[c]) + 1]
      BY <1>2 DEF Follows
    <3>2. joined[c] + i = joined[c] + Len(got[c]) + 1
      BY <1>2, <2>2
    <3>3. QED
      BY <1>4, <2>2, <3>1, <3>2
  <2>3. QED
    BY <1>2, <1>4, <2>1, <2>2
<1>6. ASSUME NEW i \in 1 .. Len(send'[c])
      PROVE  send'[c][i] = log[joined[c] + Len(got'[c]) + i]
  <2>1. i \in 1 .. Len(send[c]) - 1 /\ i + 1 \in 1 .. Len(send[c])
    BY <1>2, <1>3
  <2>2. send[c][i + 1] = log[joined[c] + Len(got[c]) + (i + 1)]
    BY <2>1 DEF Follows
  <2>3. joined[c] + Len(got[c]) + (i + 1) = joined[c] + Len(got'[c]) + i
    <3>1. Len(got'[c]) = Len(got[c]) + 1
      BY <1>4
    <3>2. i \in Nat
      BY <1>2, <2>1
    <3>3. joined[c] + Len(got[c]) + (i + 1) = joined[c] + (Len(got[c]) + 1) + i
      BY <1>2, <3>2
    <3>4. QED
      BY <3>1, <3>3
  <2>4. QED
    BY <1>3, <2>1, <2>2, <2>3
<1>7. joined[c] + Len(got'[c]) + Len(send'[c]) = joined[c] + Len(got[c]) + Len(send[c])
  <2>1. Len(got'[c]) = Len(got[c]) + 1 /\ Len(send'[c]) = Len(send[c]) - 1
    BY <1>3, <1>4
  <2>2. QED
    BY <1>2, <2>1
<1>8. QED
  BY <1>1, <1>5, <1>6, <1>7 DEF Follows

(* A client that the hub registers starts with the event to come.          *)
LEMMA RegisterFollows ==
  ASSUME HubTypeOK, FreshIsEmpty, NEW c \in Clients, RegisterClient(c)
  PROVE  Follows(c)'
<1>1. /\ got'[c] = <<>> /\ send'[c] = <<>> /\ log' = log
      /\ joined'[c] = Len(log)
  BY DEF FreshIsEmpty, RegisterClient, HubTypeOK
<1>2. Len(log) \in Nat
  BY LenProperties DEF HubTypeOK
<1>3. QED
  BY <1>1, <1>2, EmptySeq DEF Follows

(* The other steps leave what a client has and the log of the hub alone;   *)
(* none but the hub's registration brings a client to the hub.             *)
LEMMA StreamStep == PanicInv /\ StreamInv /\ [HubNext]_wsVars => StreamInv'
<1> SUFFICES ASSUME PanicInv, StreamInv, [HubNext]_wsVars PROVE StreamInv'
  OBVIOUS
<1>0. HubTypeOK /\ FreshIsEmpty /\ \A c \in Clients \ missed : Follows(c)
  BY DEF PanicInv, StreamInv
<1>a. ASSUME missed' = missed,
             \A d \in Clients : /\ UNCHANGED <<log, joined[d], got[d], send[d]>>
                                /\ d \in clients' => d \in clients
      PROVE  \A d \in Clients \ missed' : Follows(d)'
  BY <1>0, <1>a, FollowsFrame
<1>b. ASSUME UNCHANGED <<got, send>>,
             \A d \in Clients : pump[d].start = "running" => pump'[d].start = "running"
      PROVE  FreshIsEmpty'
  BY <1>0, <1>b DEF FreshIsEmpty
<1>1. CASE FanOut
  <2>1. UNCHANGED <<got, pump, clients>> /\ missed \subseteq missed'
    BY <1>1 DEF FanOut
  <2>2. ASSUME NEW c \in Clients, pump'[c].start # "running"
        PROVE  got'[c] = <<>> /\ send'[c] = <<>>
    <3>1. c \notin clients
      BY <1>0, <2>1, <2>2 DEF HubTypeOK
    <3>2. send'[c] = send[c]
      BY <1>1, <3>1 DEF FanOut, Enqueue
    <3>3. QED
      BY <1>0, <2>1, <2>2, <3>2 DEF FreshIsEmpty
  <2>3. ASSUME NEW c \in Clients \ missed' PROVE Follows(c)'
    BY <1>0, <1>1, <2>1, FanOutFollows
  <2>4. QED
    BY <2>2, <2>3 DEF FreshIsEmpty, StreamInv
<1>2. CASE HubReturns
  <2>1. UNCHANGED <<log, joined, got, send, pump, missed>> /\ clients' = {}
    BY <1>2 DEF HubReturns
  <2>2. QED
    BY <1>a, <1>b, <2>1 DEF StreamInv
<1>3. ASSUME NEW c \in Clients, RegisterClient(c) PROVE StreamInv'
  <2>1. UNCHANGED <<log, got, send, missed>> /\ clients' = clients \cup {c}
    BY <1>3 DEF RegisterClient
  <2>2. ASSUME NEW d \in Clients \ missed', d # c PROVE Follows(d)'
    <3>1. joined'[d] = joined[d]
      BY <1>0, <1>3, <2>2 DEF RegisterClient, HubTypeOK
    <3>2. QED
      BY <1>0, <2>1, <2>2, <3>1, FollowsFrame
  <2>3. Follows(c)'
    BY <1>0, <1>3, RegisterFollows
  <2>4. FreshIsEmpty'
    <3>1. \A d \in Clients : pump[d].start = "running" => pump'[d].start = "running"
      BY <1>0, <1>3, PumpStarts DEF RegisterClient
    <3>2. QED
      BY <1>b, <2>1, <3>1
  <2>5. QED
    BY <2>2, <2>3, <2>4 DEF StreamInv
<1>4. ASSUME NEW c \in Clients, UnregisterClient(c) \/ AfterHubReturned(c)
      PROVE  StreamInv'
  <2>1. UNCHANGED <<log, joined, got, send, missed>> /\ clients' \subseteq clients
    BY <1>4 DEF UnregisterClient, AfterHubReturned
  <2>2. \A d \in Clients : pump[d].start = "running" => pump'[d].start = "running"
    <3>1. CASE Unregistered(c)
      BY <1>0, <3>1, LeavingKeepsStart
    <3>2. CASE pump' = [pump EXCEPT ![c] =
                          [start |-> "running", reader |-> "reading", writer |-> "writing"]]
      BY <1>0, <3>2, PumpStarts
    <3>3. QED
      BY <1>4, <3>1, <3>2 DEF UnregisterClient, AfterHubReturned
  <2>3. QED
    BY <1>a, <1>b, <2>1, <2>2 DEF StreamInv
<1>5. ASSUME NEW c \in Clients, WriteEvent(c) PROVE StreamInv'
  <2>1. UNCHANGED <<log, joined, clients, missed, pump>>
    BY <1>5 DEF WriteEvent, hubVars
  <2>2. ASSUME NEW d \in Clients, d # c PROVE got'[d] = got[d] /\ send'[d] = send[d]
    BY <1>0, <1>5, <2>2 DEF WriteEvent, HubTypeOK
  <2>3. pump[c].start = "running"
    BY <1>0, <1>5 DEF WriteEvent, FreshIsEmpty
  <2>4. FreshIsEmpty'
    BY <1>0, <2>1, <2>2, <2>3 DEF FreshIsEmpty
  <2>5. ASSUME NEW d \in Clients \ missed' PROVE Follows(d)'
    <3>1. CASE d = c
      BY <1>0, <1>5, <2>1, <2>5, <3>1, WriteFollows
    <3>2. CASE d # c
      BY <1>0, <2>1, <2>2, <2>5, <3>2, FollowsFrame
    <3>3. QED
      BY <3>1, <3>2
  <2>6. QED
    BY <2>4, <2>5 DEF StreamInv
<1>6. ASSUME NEW c \in Clients,
             Connect(c) \/ PeerLeaves(c) \/ WriterEnds(c) \/ ReaderEnds(c)
      PROVE  StreamInv'
  <2>1. UNCHANGED <<log, joined, got, send, clients, missed>>
    BY <1>6 DEF Connect, PeerLeaves, WriterEnds, ReaderEnds, hubVars
  <2>2. \A d \in Clients : pump[d].start = "running" => pump'[d].start = "running"
    <3>1. CASE Connect(c)
      BY <1>0, <3>1 DEF Connect, HubTypeOK
    <3>2. CASE PeerLeaves(c)
      BY <3>2 DEF PeerLeaves
    <3>3. CASE WriterEnds(c)
      BY <1>0, <3>3 DEF WriterEnds, HubTypeOK
    <3>4. CASE ReaderEnds(c)
      BY <1>0, <3>4 DEF ReaderEnds, HubTypeOK
    <3>5. QED
      BY <1>6, <3>1, <3>2, <3>3, <3>4
  <2>3. QED
    BY <1>a, <1>b, <2>1, <2>2 DEF StreamInv
<1>7. CASE \/ (\E e \in Events : Notify(e)) \/ Consume \/ ChannelLost
           \/ Shutdown \/ Exit \/ UNCHANGED wsVars
  <2>1. UNCHANGED <<log, joined, got, send, clients, missed, pump>>
    BY <1>7 DEF Notify, Consume, DeliverEvent, Broadcast, AckEvent, StopConsuming,
                ConsumeReturns, ChannelLost, Shutdown, Exit, wsVars, hubVars, clientVars
  <2>2. QED
    BY <1>a, <1>b, <2>1 DEF StreamInv
<1>8. QED
  BY <1>1, <1>2, <1>3, <1>4, <1>5, <1>6, <1>7 DEF HubNext, Serve

(* Two sequences repeat a third one from some place on, one after the      *)
(* other.                                                                  *)
Consecutive(l, j, g, s) ==
  /\ j + Len(g) + Len(s) <= Len(l)
  /\ \A i \in 1 .. Len(g) : g[i] = l[j + i]
  /\ \A i \in 1 .. Len(s) : s[i] = l[j + Len(g) + i]

(* Put together they are a part of the third one.                          *)
LEMMA ConsecutiveParts ==
  ASSUME NEW l \in Seq(Events), NEW g \in Seq(Events), NEW s \in Seq(Events),
         NEW j \in Nat,
         Consecutive(l, j, g, s)
  PROVE  g \o s = SubSeq(SubSeq(l, j + 1, Len(l)), 1, Len(g \o s))
<1> DEFINE stream == g \o s
           sent == SubSeq(l, j + 1, Len(l))
           part == SubSeq(sent, 1, Len(stream))
<1>1. PICK n \in Nat, m \in Nat, o \in Nat : n = Len(g) /\ m = Len(s) /\ o = Len(l)
  BY LenProperties
<1>2. /\ j + n + m <= o
      /\ \A i \in 1 .. n : g[i] = l[j + i]
      /\ \A i \in 1 .. m : s[i] = l[j + n + i]
  BY <1>1 DEF Consecutive
<1>3. /\ stream \in Seq(Events) /\ Len(stream) = n + m
      /\ \A i \in 1 .. n + m : stream[i] = IF i <= n THEN g[i] ELSE s[i - n]
  BY <1>1, ConcatProperties
<1>4. /\ sent \in Seq(Events) /\ Len(sent) = o - j
      /\ \A i \in 1 .. o - j : sent[i] = l[j + i]
  <2>1. j + 1 \in Int /\ o \in Int /\ \A i \in j + 1 .. o : l[i] \in Events
    BY <1>1, ElementOfSeq
  <2>2. /\ sent \in Seq(Events)
        /\ Len(sent) = IF j + 1 <= o THEN o - (j + 1) + 1 ELSE 0
        /\ \A i \in 1 .. o - (j + 1) + 1 : sent[i] = l[(j + 1) + i - 1]
    BY <1>1, <2>1, SubSeqProperties
  <2>3. o - (j + 1) + 1 = o - j /\ (j + 1 <= o \/ o - j = 0)
    BY <1>2
  <2>4. \A i \in 1 .. o - j : (j + 1) + i - 1 = j + i
    OBVIOUS
  <2>5. QED
    BY <2>2, <2>3, <2>4
<1>5. ASSUME NEW i \in 1 .. n + m PROVE i \in 1 .. o - j /\ stream[i] = l[j + i]
  <2>1. i \in 1 .. o - j
    BY <1>2
  <2>2. CASE i <= n
    BY <1>2, <1>3, <2>1, <2>2
  <2>3. CASE i > n
    <3>1. i - n \in 1 .. m /\ j + n + (i - n) = j + i
      BY <2>3
    <3>2. s[i - n] = l[j + n + (i - n)]
      BY <1>2, <3>1
    <3>3. QED
      BY <1>3, <2>1, <2>3, <3>1, <3>2
  <2>4. i <= n \/ i > n
    OBVIOUS
  <2>5. QED
    BY <2>1, <2>2, <2>3, <2>4
<1>6. \A i \in 1 .. n + m : stream[i] = sent[i]
  BY <1>4, <1>5
<1>7. /\ part \in Seq(Events) /\ Len(part) = n + m
      /\ \A i \in 1 .. n + m : part[i] = sent[i]
  <2>1. \A i \in 1 .. n + m : stream[i] \in Events
    BY <1>3, ElementOfSeq
  <2>2. PICK k \in Int : k = n + m
    OBVIOUS
  <2>3. part = SubSeq(sent, 1, k) /\ \A i \in 1 .. k : sent[i] \in Events
    BY <1>3, <1>6, <2>1, <2>2
  <2> HIDE DEF sent, stream, part
  <2>4. /\ part \in Seq(Events)
        /\ Len(part) = IF 1 <= k THEN k - 1 + 1 ELSE 0
        /\ \A i \in 1 .. k - 1 + 1 : part[i] = sent[1 + i - 1]
    BY <2>3, SubSeqProperties
  <2>5. k - 1 + 1 = k /\ (1 <= k \/ k = 0) /\ \A i \in 1 .. k : 1 + i - 1 = i
    BY <2>2
  <2>6. QED
    BY <2>2, <2>4, <2>5
<1>8. stream = part
  BY <1>3, <1>6, <1>7, SeqEqual
<1>9. QED
  BY <1>8

(* If they reach its end, they are the rest of it.                         *)
LEMMA ConsecutiveToTheEnd ==
  ASSUME NEW l \in Seq(Events), NEW g \in Seq(Events), NEW s \in Seq(Events),
         NEW j \in Nat,
         Consecutive(l, j, g, s)
  PROVE  j + Len(g) + Len(s) = Len(l) => g \o s = SubSeq(l, j + 1, Len(l))
<1>0. g \o s = SubSeq(SubSeq(l, j + 1, Len(l)), 1, Len(g \o s))
  BY ConsecutiveParts
<1> DEFINE sent == SubSeq(l, j + 1, Len(l))
<1>1. PICK n \in Nat, m \in Nat, o \in Nat : n = Len(g) /\ m = Len(s) /\ o = Len(l)
  BY LenProperties
<1>2. SUFFICES ASSUME j + n + m = o PROVE g \o s = sent
  BY <1>1
<1>4. Len(g \o s) = n + m
  BY <1>1, ConcatProperties
<1>5. sent \in Seq(Events) /\ Len(sent) = n + m
  <2>1. j + 1 \in Int /\ o \in Int /\ \A i \in j + 1 .. o : l[i] \in Events
    BY <1>1, ElementOfSeq
  <2>2. /\ sent \in Seq(Events)
        /\ Len(sent) = IF j + 1 <= o THEN o - (j + 1) + 1 ELSE 0
    BY <1>1, <2>1, SubSeqProperties
  <2>3. (j + 1 <= o /\ o - (j + 1) + 1 = n + m) \/ (~(j + 1 <= o) /\ n + m = 0)
    BY <1>2
  <2>4. QED
    BY <2>2, <2>3
<1>6. SubSeq(sent, 1, Len(sent)) = sent
  BY <1>5, SubSeqFull
<1>7. QED
  BY <1>0, <1>4, <1>5, <1>6

(* What a client was sent and still has to be sent is such a part.         *)
LEMMA FollowsWithoutGap ==
  ASSUME HubTypeOK, NEW c \in Clients, Follows(c)
  PROVE  LET stream == got[c] \o send[c]
             sent == SubSeq(log, joined[c] + 1, Len(log))
         IN  /\ stream = SubSeq(sent, 1, Len(stream))
             /\ c \in clients => stream = sent
<1>1. /\ log \in Seq(Events) /\ send[c] \in Seq(Events) /\ got[c] \in Seq(Events)
      /\ joined[c] \in Nat
  BY DEF HubTypeOK
<1>2. /\ Consecutive(log, joined[c], got[c], send[c])
      /\ c \in clients => joined[c] + Len(got[c]) + Len(send[c]) = Len(log)
  BY DEF Follows, Consecutive
<1>3. PICK l \in Seq(Events), g \in Seq(Events), s \in Seq(Events), j \in Nat :
        /\ l = log /\ g = got[c] /\ s = send[c] /\ j = joined[c]
  BY <1>1
<1>4. Consecutive(l, j, g, s)
  BY <1>2, <1>3
<1>5. g \o s = SubSeq(SubSeq(l, j + 1, Len(l)), 1, Len(g \o s))
  BY <1>4, ConsecutiveParts
<1>6. j + Len(g) + Len(s) = Len(l) => g \o s = SubSeq(l, j + 1, Len(l))
  BY <1>4, ConsecutiveToTheEnd
<1>7. QED
  BY <1>2, <1>3, <1>5, <1>6

(* For any capacities and any number of clients: a client that was not     *)
(* told otherwise got every event since it was registered, in order, and   *)
(* nothing else (Hub.Run, writePump).                                      *)
THEOREM StreamHasNoGap == HubSpec => []StreamWithoutGap
<1>1. ASSUME HubInit, HubTypeOK PROVE PanicInv /\ StreamInv
  <2>1. PanicInv
    BY <1>1 DEF HubInit, PanicInv, ClosedIsLeft, NeverPanics
  <2>2. FreshIsEmpty
    BY <1>1 DEF HubInit, FreshIsEmpty
  <2>3. ASSUME NEW c \in Clients PROVE Follows(c)
    BY <1>1, EmptySeq DEF HubInit, Follows
  <2>4. QED
    BY <2>1, <2>2, <2>3 DEF StreamInv
<1>2. PanicInv /\ StreamInv => StreamWithoutGap
  BY FollowsWithoutGap DEF PanicInv, StreamInv, StreamWithoutGap
<1>3. QED
  BY <1>1, <1>2, PanicStep, StreamStep, HubTyped, PTL DEF HubSpec
=============================================================================
