------------------------------ MODULE MCMemPhy ------------------------------
(* Finite instances of MemPhy: a device of a few frames, one or two CPUs.   *)
EXTENDS MemPhy
=============================================================================
