----------------------------- MODULE MCKillAll -----------------------------
(* Finite instances of KillAll: a level with one process and one with three, *)
(* one more than a queue has room for, and two names.                        *)
EXTENDS KillAll, TLC

CONSTANTS p1, p2, p3, p4, sh, other

PrioOver == p1 :> 0 @@ p2 :> 1 @@ p3 :> 1 @@ p4 :> 1
PathOver == p1 :> sh @@ p2 :> sh @@ p3 :> other @@ p4 :> other

(* One level, every process of its own name or of one that is not asked for. *)
PrioSame == [proc \in Proc |-> 0]
PathSame == [proc \in Proc |-> other]
=============================================================================
