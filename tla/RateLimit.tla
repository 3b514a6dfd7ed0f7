----------------------------- MODULE RateLimit -----------------------------
(***************************************************************************)
(* The fixed-window rate limiter that all replicas of the API share        *)
(* through the table rate_limit_buckets: a call counts itself in the row   *)
(* of its bucket and key by one upsert.  The window is that of the moment  *)
(* at which the statement begins, the count that of the moment at which it *)
(* gets hold of the row.                                                   *)
(***************************************************************************)
EXTENDS Clock, FiniteSets

CONSTANTS
  Calls,            \* requests to routes behind a limiter
  bucket, key,      \* of a call: its route's limiter, what it is counted by
  windowSeconds, maxRequests,   \* of a bucket
  KeepFor           \* the hour after which Cleanup deletes a row

Buckets == {bucket[c] : c \in Calls}
RowOf(c) == <<bucket[c], key[c]>>
Rows == {RowOf(c) : c \in Calls}

ASSUME RateLimitAssumption ==
  /\ IsFiniteSet(Calls)
  /\ bucket \in [Calls -> Buckets]
  /\ windowSeconds \in [Buckets -> Nat \ {0}]
  /\ maxRequests \in [Buckets -> Nat]
  /\ KeepFor \in Nat
  /\ \A b \in Buckets : windowSeconds[b] <= KeepFor

VARIABLES
  count, windowStart,  \* of a row; a count of 0: there is no row
  began,               \* of a call: when its statement began
  verdict,             \* of a call
  overtaken            \* observer: rows some statement of which was counted
                       \* after the end of the window it began in

rateVars == <<count, windowStart, began, verdict, overtaken>>

RateInit ==
  /\ count = [r \in Rows |-> 0]
  /\ windowStart = [r \in Rows |-> 0]
  /\ began = [c \in Calls |-> 0]
  /\ verdict = [c \in Calls |-> "none"]
  /\ overtaken = {}

WindowOf(b, t) == t - (t % windowSeconds[b])

BeginAllow(c) ==
  /\ verdict[c] = "none"
  /\ verdict' = [verdict EXCEPT ![c] = "asking"]
  /\ began' = [began EXCEPT ![c] = now]
  /\ UNCHANGED <<count, windowStart, overtaken>>

CountAfter(r, w) == IF count[r] > 0 /\ windowStart[r] = w THEN count[r] + 1 ELSE 1

(* The upsert, and the count that it returns.                              *)
Upsert(c) ==
  LET r == RowOf(c)
      w == WindowOf(bucket[c], began[c]) IN
  /\ count' = [count EXCEPT ![r] = CountAfter(r, w)]
  /\ windowStart' = [windowStart EXCEPT ![r] = w]
  /\ overtaken' = IF w = WindowOf(bucket[c], now) THEN overtaken ELSE overtaken \cup {r}
  /\ UNCHANGED began

Allow(c) ==
  LET within == CountAfter(RowOf(c), WindowOf(bucket[c], began[c])) <= maxRequests[bucket[c]] IN
  /\ verdict[c] = "asking"
  /\ Upsert(c)
  /\ verdict' = [verdict EXCEPT ![c] = IF within THEN "pass" ELSE "stop"]

(* No answer of the database, whether or not it counted: the call goes on. *)
FailOpen(c) ==
  /\ verdict[c] = "asking"
  /\ Upsert(c) \/ UNCHANGED <<count, windowStart, began, overtaken>>
  /\ verdict' = [verdict EXCEPT ![c] = "open"]

(* Mutant: every window but that of the moment is taken for old.           *)
CleanupEarly(r) ==
  /\ count[r] > 0
  /\ windowStart[r] < now
  /\ count' = [count EXCEPT ![r] = 0]
  /\ UNCHANGED <<windowStart, began, verdict, overtaken>>

Cleanup(r) ==
  /\ count[r] > 0
  /\ windowStart[r] + KeepFor < now
  /\ count' = [count EXCEPT ![r] = 0]
  /\ UNCHANGED <<windowStart, began, verdict, overtaken>>

(* RateLimit, the middleware: who may go on to the handler.                *)
Served(c) == verdict[c] \in {"pass", "open"}

Admitted(r, w) ==
  {c \in Calls : verdict[c] = "pass" /\ RowOf(c) = r /\ WindowOf(bucket[c], began[c]) = w}

(* Of the calls of one key that begin in a window, the limiter passes no   *)
(* more than the bucket's limit, as long as every statement gets hold of   *)
(* its row within the window it began in: one that waits for the row       *)
(* across the boundary sets the window back, and the next call counts from *)
(* one again (postgres.go, Allow: "sem race condition possivel").          *)
WindowBound ==
  \A r \in Rows \ overtaken : \A w \in 0..LastTick :
    Cardinality(Admitted(r, w)) <= maxRequests[r[1]]
=============================================================================
