--------------------------- MODULE MCSchedClients ---------------------------
(* A finite instance of SchedClients: model-value processes, two levels     *)
(* with one of them and a level with two between those.                     *)
EXTENDS SchedClients, TLC

CONSTANTS p1, p2, p3, p4

PrioMixed == p1 :> 0 @@ p2 :> 1 @@ p3 :> 1 @@ p4 :> 2
=============================================================================
