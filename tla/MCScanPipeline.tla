--------------------------- MODULE MCScanPipeline ---------------------------
(* Instances of ScanPipeline for TLC: fault budgets and symmetry.          *)
EXTENDS ScanPipeline, TLC

Budget(any, crash, shutdown, channel, db, broker, aging) ==
  [any |-> any, crash |-> crash, shutdown |-> shutdown, channel |-> channel,
   db |-> db, broker |-> broker, aging |-> aging]

(* Any three faults, of different kinds, or a confirm missing twice, which *)
(* is when the outbox gives up.                                            *)
EveryFault == Budget(3, 1, 1, 1, 1, 2, 1)

(* One replica dies, nothing else fails.                                   *)
OneCrash == Budget(1, 1, 0, 0, 0, 0, 0)

Symmetry == Permutations(Workers)
=============================================================================
