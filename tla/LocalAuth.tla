----------------------------- MODULE LocalAuth -----------------------------
(***************************************************************************)
(* Local logins: Handlers.Login reads the account, compares the password   *)
(* and then counts a failure or resets the count, each by a statement of   *)
(* its own, so that logins to one account interleave.                      *)
(***************************************************************************)
EXTENDS Clock, FiniteSets

CONSTANTS
  Logins,
  account,             \* of a login: the user name it gives
  Accounts,            \* active users with a local password
  maxFailedAttempts, lockoutDuration,
  TokenTTL

ASSUME LocalAuthAssumption ==
  /\ IsFiniteSet(Logins)
  /\ {maxFailedAttempts, lockoutDuration, TokenTTL} \subseteq Nat \ {0}

VARIABLES
  failedAttempts, lockedUntil,   \* of an account; 0: NULL
  login,         \* of a login: how far Login is
  readAttempts,  \* of a login: failed_login_attempts as it read the row
  tokenExpires,  \* of a login: when the token it got expires
  counted,       \* observer: logins counted as failed since the last reset
  past           \* observer: logins past the lock's check when it was set

authVars ==
  <<failedAttempts, lockedUntil, login, readAttempts, tokenExpires, counted, past>>

AuthInit ==
  /\ failedAttempts = [a \in Accounts |-> 0]
  /\ lockedUntil = [a \in Accounts |-> 0]
  /\ login = [c \in Logins |-> "none"]
  /\ readAttempts = [c \in Logins |-> 0]
  /\ tokenExpires = [c \in Logins |-> 0]
  /\ counted = [a \in Accounts |-> {}]
  /\ past = [a \in Accounts |-> {}]

Locked(a) == lockedUntil[a] > now

(* The account is unknown, inactive or locked: the answer is the same as   *)
(* to a wrong password, and nothing is counted.                            *)
GetByUsername(c) ==
  /\ login[c] = "none"
  /\ IF account[c] \in Accounts /\ ~Locked(account[c])
     THEN /\ login' = [login EXCEPT ![c] = "comparing"]
          /\ readAttempts' = [readAttempts EXCEPT ![c] = failedAttempts[account[c]]]
     ELSE login' = [login EXCEPT ![c] = "rejected"] /\ UNCHANGED readAttempts
  /\ UNCHANGED <<failedAttempts, lockedUntil, tokenExpires, counted, past>>

ComparePassword(c) ==
  /\ login[c] = "comparing"
  /\ \E result \in {"wrong", "right"} : login' = [login EXCEPT ![c] = result]
  /\ UNCHANGED <<failedAttempts, lockedUntil, readAttempts, tokenExpires, counted, past>>

Beyond(a) ==
  {c \in Logins : account[c] = a /\ login[c] \in {"comparing", "wrong", "right"}}

Reject(c) == login' = [login EXCEPT ![c] = "rejected"]

(* Mutant: the count that was read is written back.                        *)
RegisterFailedAttemptFromRead(c) ==
  LET a == account[c] IN
  /\ login[c] = "wrong"
  /\ Reject(c)
  /\ failedAttempts' = [failedAttempts EXCEPT ![a] = readAttempts[c] + 1]
  /\ counted' = [counted EXCEPT ![a] = @ \cup {c}]
  /\ IF readAttempts[c] + 1 >= maxFailedAttempts
     THEN /\ lockedUntil' = [lockedUntil EXCEPT ![a] = now + lockoutDuration]
          /\ past' = [past EXCEPT ![a] = Beyond(a)]
     ELSE UNCHANGED <<lockedUntil, past>>
  /\ UNCHANGED <<readAttempts, tokenExpires>>

(* One atomic update; if it fails, that is only logged.                    *)
RegisterFailedAttempt(c) ==
  LET a == account[c] IN
  /\ login[c] = "wrong"
  /\ Reject(c)
  /\ \/ /\ failedAttempts' = [failedAttempts EXCEPT ![a] = @ + 1]
        /\ counted' = [counted EXCEPT ![a] = @ \cup {c}]
        /\ IF failedAttempts[a] + 1 >= maxFailedAttempts
           THEN /\ lockedUntil' = [lockedUntil EXCEPT ![a] = now + lockoutDuration]
                /\ past' = [past EXCEPT ![a] = Beyond(a)]
           ELSE UNCHANGED <<lockedUntil, past>>
     \/ UNCHANGED <<failedAttempts, lockedUntil, counted, past>>
  /\ UNCHANGED <<readAttempts, tokenExpires>>

IssueToken(c) ==
  /\ login[c] = "right"
  /\ login' = [login EXCEPT ![c] = "token"]
  /\ tokenExpires' = [tokenExpires EXCEPT ![c] = now + TokenTTL]
  /\ UNCHANGED <<failedAttempts, lockedUntil, readAttempts, counted, past>>

Forgive(a) ==
  /\ failedAttempts' = [failedAttempts EXCEPT ![a] = 0]
  /\ lockedUntil' = [lockedUntil EXCEPT ![a] = 0]
  /\ counted' = [counted EXCEPT ![a] = {}]
  /\ past' = [past EXCEPT ![a] = {}]

ResetFailedAttempts(c) ==
  /\ login[c] = "token"
  /\ login' = [login EXCEPT ![c] = "done"]
  /\ Forgive(account[c]) \/ UNCHANGED <<failedAttempts, lockedUntil, counted, past>>
  /\ UNCHANGED <<readAttempts, tokenExpires>>

(* The command that gives an account a new password.                       *)
SeedAdmin(a) ==
  /\ failedAttempts[a] > 0
  /\ Forgive(a)
  /\ UNCHANGED <<login, readAttempts, tokenExpires>>

HandleLogin(c) ==
  GetByUsername(c) \/ ComparePassword(c) \/ RegisterFailedAttempt(c) \/ IssueToken(c)
    \/ ResetFailedAttempts(c)

(* No failure that reached the table is lost to another one, the lock is   *)
(* set exactly when they are too many, and whoever is at an account's      *)
(* password while it is locked was past the check when the lock was set    *)
(* (localauth.go, RegisterFailedAttempt: no read and write in two steps).  *)
FailuresCounted ==
  \A a \in Accounts :
    /\ failedAttempts[a] = Cardinality(counted[a])
    /\ (lockedUntil[a] # 0) = (failedAttempts[a] >= maxFailedAttempts)
    /\ Locked(a) => Beyond(a) \subseteq past[a]
=============================================================================
