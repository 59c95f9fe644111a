----------------------------- MODULE Allocator -----------------------------
(***************************************************************************)
(* What liballoc and libfree (src/libmem.c) promise a program about the    *)
(* memory its registers name: a region it allocates shares no address with *)
(* a region another register still names.  The promise is gone when the    *)
(* program frees a region a second time, or one it has not allocated.      *)
(***************************************************************************)
EXTENDS Integers

CONSTANTS Reg, Addr    \* registers, addresses

VARIABLES
  extent,              \* extent[r]: the addresses r names, {} when none
  careful              \* the program has freed only what it held

Nothing == [r \in Reg |-> {}]

Init == extent = Nothing /\ careful = TRUE

(* size consecutive addresses, from start on. *)
Interval(start, size) == start .. start + size - 1

Alloc(r) == \E start \in Addr, size \in Addr :
  /\ Interval(start, size) \subseteq Addr
  /\ \A o \in Reg \ {r} : Interval(start, size) \intersect extent[o] = {}
  /\ extent' = [extent EXCEPT ![r] = Interval(start, size)]

Free(r) == extent' = [extent EXCEPT ![r] = {}]

Forfeit == careful' = FALSE /\ extent' = Nothing

Next == \/ careful /\ (\E r \in Reg : Alloc(r) \/ Free(r)) /\ UNCHANGED careful
        \/ Forfeit

Spec == Init /\ [][Next]_<<extent, careful>>

=============================================================================
