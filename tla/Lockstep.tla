------------------------------ MODULE Lockstep ------------------------------
(***************************************************************************)
(* Slotted time as the threads of the simulator see it through next_slot,  *)
(* detach_event and current_time of src/timer.c: one clock, which ticks    *)
(* when every device has arrived at the end of the slot or has left.       *)
(*                                                                         *)
(* Coarser than SlotBarrier, where devices enter the new slot one by one:  *)
(* a device that the timer has yet to release is here one that has not     *)
(* taken its first step in the new slot.                                   *)
(***************************************************************************)
EXTENDS Naturals

CONSTANTS
  Device,
  Horizon              \* the clock value Horizon stands for itself and all later

VARIABLES time, at

vars == <<time, at>>

Init ==
  /\ time = 0
  /\ at = [d \in Device |-> "working"]

(* next_slot. *)
Arrive(d) ==
  /\ at[d] = "working"
  /\ at' = [at EXCEPT ![d] = "waiting"]
  /\ UNCHANGED time

(* detach_event. *)
Leave(d) ==
  /\ at[d] = "working"
  /\ at' = [at EXCEPT ![d] = "gone"]
  /\ UNCHANGED time

(* The timer ticks a last time when the last device has left. *)
Tick ==
  /\ \A d \in Device : at[d] # "working"
  /\ time' = IF time < Horizon THEN time + 1 ELSE time
  /\ at' = [d \in Device |-> IF at[d] = "waiting" THEN "working" ELSE at[d]]

Next == Tick \/ \E d \in Device : Arrive(d) \/ Leave(d)

Spec == Init /\ [][Next]_vars

=============================================================================
