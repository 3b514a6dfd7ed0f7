------------------------------- MODULE Clock -------------------------------
(* The time that the parts of the API edge compare: the database's now()   *)
(* and time.Now() of the replicas, taken for one.                          *)
EXTENDS Naturals

CONSTANT LastTick    \* bound: the end of time

ASSUME ClockAssumption == LastTick \in Nat

VARIABLE now

Tick == now < LastTick /\ now' = now + 1
=============================================================================
