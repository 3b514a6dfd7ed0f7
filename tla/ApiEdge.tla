------------------------------ MODULE ApiEdge ------------------------------
(***************************************************************************)
(* The way into the API: a login goes through the limiter local_login,     *)
(* counted by the remote address of the connection, its port included, to  *)
(* Handlers.Login; its token lets the user ask, through the limiter        *)
(* ws_ticket, counted by user, for tickets; and a ticket opens a           *)
(* WebSocket.  The limiters' rows and the accounts are in the database     *)
(* that all replicas share, the tickets in each replica.                   *)
(***************************************************************************)
EXTENDS RateLimit, LocalAuth, WsTickets

CONSTANTS
  holder,      \* of a ticket: the user who asks for it
  Arrivals     \* bound: the sets of calls that come in one behaviour

ASSUME ApiEdgeAssumption ==
  /\ Calls = Logins \cup Tickets
  /\ Logins \cap Tickets = {}
  /\ \A t \in Tickets : holder[t] \in Accounts
  /\ Arrivals \subseteq SUBSET Calls

VARIABLE coming      \* the calls that come

vars == <<now, coming, rateVars, authVars, ticketVars>>

Init == now = 0 /\ coming \in Arrivals /\ RateInit /\ AuthInit /\ TicketInit

(* RequireAuthentication lets a token pass until it expires, whatever      *)
(* becomes of the account meanwhile.  Only the tokens of local logins are  *)
(* in the model, not those of Keycloak (oidc.go).                          *)
TokenOf(t) ==
  {c \in Logins : account[c] = holder[t] /\ login[c] = "done" /\ now < tokenExpires[c]}

Limiter(c) == BeginAllow(c) \/ Allow(c) \/ FailOpen(c)

PostLogin(c) ==
  \/ Limiter(c) /\ UNCHANGED <<now, coming, authVars, ticketVars>>
  \/ Served(c) /\ HandleLogin(c) /\ UNCHANGED <<now, coming, rateVars, ticketVars>>

(* Mutant: the middleware answers and calls the handler all the same.      *)
TicketHandlerAnyway(r, t) == verdict[t] \in {"pass", "open", "stop"} /\ Issue(r, t)

TicketHandler(r, t) == Served(t) /\ Issue(r, t)

PostTicket(t) ==
  \/ /\ verdict[t] = "none" => TokenOf(t) # {}
     /\ Limiter(t)
     /\ UNCHANGED <<now, coming, authVars, ticketVars>>
  \/ \E r \in Replicas : TicketHandler(r, t) /\ UNCHANGED <<now, coming, rateVars, authVars>>

(* UpgradeHandler: the ticket is all the authentication there is.          *)
Upgrade(r, t) == Redeem(r, t) /\ UNCHANGED <<now, coming, rateVars, authVars>>

Background ==
  \/ /\ \E r \in Replicas : EvictExpired(r) \/ Restart(r)
     /\ UNCHANGED <<now, coming, rateVars, authVars>>
  \/ (\E row \in Rows : Cleanup(row)) /\ UNCHANGED <<now, coming, authVars, ticketVars>>
  \/ (\E a \in Accounts : SeedAdmin(a)) /\ UNCHANGED <<now, coming, rateVars, ticketVars>>
  \/ Tick /\ UNCHANGED <<coming, rateVars, authVars, ticketVars>>

Next ==
  \/ \E c \in Logins \cap coming : PostLogin(c)
  \/ \E t \in Tickets \cap coming : PostTicket(t)
  \/ \E r \in Replicas, t \in Tickets : Upgrade(r, t)
  \/ Background

Spec == Init /\ [][Next]_vars

(* What the variables hold; a call is past its limiter before its handler  *)
(* runs, and a ticket is of a call that the limiter let through, in one    *)
(* replica at most (RateLimit in middleware.go, the order of router.go).   *)
TypeOK ==
  /\ now \in 0..LastTick
  /\ count \in [Rows -> 0..Cardinality(Calls)]
  /\ verdict \in [Calls -> {"none", "asking", "pass", "stop", "open"}]
  /\ \A c \in Logins :
       login[c] \in {"none", "comparing", "wrong", "right", "token", "done", "rejected"}
  /\ \A c \in Logins : login[c] # "none" => Served(c)
  /\ \A t \in Tickets : expiresAt[t] # 0 => Served(t)
  /\ \A t \in Tickets : Cardinality({r \in Replicas : t \in tickets[r]}) <= 1

(* A ticket opens one WebSocket at most, before it expires, and is then in *)
(* no store; and a local login of its user had a token that was good when  *)
(* the ticket was asked for (ticket.go, Redeem: "Um ticket so pode ser     *)
(* resgatado exatamente uma vez, e apenas antes de expirar").              *)
TicketOnce ==
  \A t \in Tickets : connections[t] # <<>> =>
    /\ Len(connections[t]) = 1
    /\ connections[t][1][2] <= expiresAt[t]
    /\ \A r \in Replicas : t \notin tickets[r]
    /\ \E c \in Logins : /\ account[c] = holder[t]
                         /\ login[c] = "done"
                         /\ began[t] < tokenExpires[c]
=============================================================================
