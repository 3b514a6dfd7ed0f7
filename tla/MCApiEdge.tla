----------------------------- MODULE MCApiEdge -----------------------------
(* The instances of ApiEdge for TLC: logins of one user from one address.  *)
EXTENDS ApiEdge, TLC

CONSTANTS user, login1, login2, login3

TheCalls == Logins \cup Tickets
TheBucket == [c \in TheCalls |-> IF c \in Logins THEN "local_login" ELSE "ws_ticket"]
TheKey == [c \in TheCalls |-> IF c \in Logins THEN "address" ELSE user]
TheAccount == [c \in Logins |-> user]
TheHolder == [t \in Tickets |-> user]
TheArrivals == {Logins} \cup {{c} \cup Tickets : c \in Logins}

TheWindows == [b \in {TheBucket[c] : c \in TheCalls} |-> 2]
TheLimits == [b \in {TheBucket[c] : c \in TheCalls} |-> 1]

Symmetry == Permutations(Logins) \cup Permutations(Tickets) \cup Permutations(Replicas)
=============================================================================
