----------------------------- MODULE WsTickets -----------------------------
(***************************************************************************)
(* The tickets that authenticate a WebSocket handshake.  Each replica of   *)
(* the API keeps those it issued in memory until they are redeemed, expire *)
(* or the replica restarts.                                                *)
(***************************************************************************)
EXTENDS Clock, Sequences

CONSTANTS Replicas, Tickets, TicketTTL

ASSUME WsTicketsAssumption == TicketTTL \in Nat \ {0}

VARIABLES
  tickets,       \* of a replica: the tickets in its store
  expiresAt,     \* of a ticket; 0: not issued
  connections    \* of a ticket: those it opened, by replica and time

ticketVars == <<tickets, expiresAt, connections>>

TicketInit ==
  /\ tickets = [r \in Replicas |-> {}]
  /\ expiresAt = [t \in Tickets |-> 0]
  /\ connections = [t \in Tickets |-> <<>>]

Issue(r, t) ==
  /\ expiresAt[t] = 0
  /\ tickets' = [tickets EXCEPT ![r] = @ \cup {t}]
  /\ expiresAt' = [expiresAt EXCEPT ![t] = now + TicketTTL]
  /\ UNCHANGED connections

(* Mutant: the ticket stays until the eviction.                            *)
TakeNot(r, t) == UNCHANGED tickets

Take(r, t) == tickets' = [tickets EXCEPT ![r] = @ \ {t}]

(* The handshake may fail after the ticket is gone.                        *)
Redeem(r, t) ==
  /\ t \in tickets[r]
  /\ Take(r, t)
  /\ \/ now <= expiresAt[t] /\ connections' = [connections EXCEPT ![t] = Append(@, <<r, now>>)]
     \/ UNCHANGED connections
  /\ UNCHANGED expiresAt

EvictExpired(r) ==
  /\ \E t \in tickets[r] : now > expiresAt[t]
  /\ tickets' = [tickets EXCEPT ![r] = {t \in @ : now <= expiresAt[t]}]
  /\ UNCHANGED <<expiresAt, connections>>

Restart(r) ==
  /\ tickets[r] # {}
  /\ tickets' = [tickets EXCEPT ![r] = {}]
  /\ UNCHANGED <<expiresAt, connections>>
=============================================================================
