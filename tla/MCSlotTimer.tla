---------------------------- MODULE MCSlotTimer ----------------------------
(* Finite instances of SlotTimer: the .cfg files name the device threads    *)
(* and bound the slots they take part in.                                   *)
EXTENDS SlotTimer
=============================================================================
