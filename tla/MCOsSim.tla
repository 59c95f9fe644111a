------------------------------ MODULE MCOsSim ------------------------------
(* Finite instances of OsSim: programs of up to five instructions, loaded   *)
(* in slots 0 to 2.                                                         *)
EXTENDS OsSim, TLC

CONSTANTS p1, p2, p3

Order3 == <<p1, p2, p3>>
Program3 == p1 :> 3 @@ p2 :> 0 @@ p3 :> 5
Start3 == p1 :> 0 @@ p2 :> 2 @@ p3 :> 2
Prio3 == p1 :> 1 @@ p2 :> 1 @@ p3 :> 0

(* One process that needs two slices. *)
Order1 == <<p1>>
Program1 == p1 :> 2
Start1 == p1 :> 0
Prio1 == p1 :> 1
PrioTop1 == p1 :> 0
=============================================================================
