-------------------------- MODULE MCDiarioPipeline --------------------------
(* Fault budgets for the TLC instances of DiarioPipeline.                  *)
EXTENDS DiarioPipeline

(* One fault of any kind; these jobs do not age.                           *)
AnyFault == [k \in FaultKinds |-> IF k = "aging" THEN 0 ELSE 1]
=============================================================================
