---------------------------- MODULE SlotBarrier ----------------------------
(***************************************************************************)
(* What src/timer.c promises the threads of the simulator.                 *)
(*                                                                         *)
(* Simulated time is a sequence of slots.  Every device (each CPU thread   *)
(* and the loader thread) works in its current slot, then either arrives   *)
(* at the end of it (next_slot) or leaves the simulation for good          *)
(* (detach_event).  A device enters the next slot only after every other   *)
(* device has arrived at the end of the slot it leaves, or has left.       *)
(* There is no clock and no timer thread here: those are how SlotTimer     *)
(* implements this specification.                                          *)
(***************************************************************************)
EXTENDS Naturals

CONSTANT Device        \* The threads that attached to the timer.

VARIABLES
  slot,                \* slot[d]: the slot device d is in.
  st                   \* st[d]: what d is doing in that slot.

vars == <<slot, st>>

DeviceState == {"working", "waiting", "gone"}

TypeOK ==
  /\ slot \in [Device -> Nat]
  /\ st \in [Device -> DeviceState]

Init ==
  /\ slot = [d \in Device |-> 0]
  /\ st = [d \in Device |-> "working"]

(* d has finished the work of its slot and tells the timer so. *)
Arrive(d) ==
  /\ st[d] = "working"
  /\ st' = [st EXCEPT ![d] = "waiting"]
  /\ UNCHANGED slot

(* d stops taking part; nobody waits for it any more. *)
Leave(d) ==
  /\ st[d] = "working"
  /\ st' = [st EXCEPT ![d] = "gone"]
  /\ UNCHANGED slot

(* Nobody who is in slot k has to wait for e any longer. *)
PastSlot(e, k) ==
  \/ st[e] = "gone"
  \/ slot[e] > k
  \/ slot[e] = k /\ st[e] = "waiting"

(* d, waiting at the end of its slot, is let into the next one. *)
Advance(d) ==
  /\ st[d] = "waiting"
  /\ \A e \in Device : PastSlot(e, slot[d])
  /\ slot' = [slot EXCEPT ![d] = @ + 1]
  /\ st' = [st EXCEPT ![d] = "working"]

Next == \E d \in Device : Arrive(d) \/ Leave(d) \/ Advance(d)

Spec == Init /\ [][Next]_vars

(* A device that may go on is not kept waiting for ever. *)
LiveSpec == Spec /\ \A d \in Device : WF_vars(Advance(d))

=============================================================================
