----------------------------- MODULE ProcOwner -----------------------------
(***************************************************************************)
(* What the scheduler and the CPUs (src/sched.c, src/os.c) promise about   *)
(* a process: once loaded it is ready, on exactly one CPU, or finished;    *)
(* a CPU has one process at a time; and nothing takes it back from the     *)
(* finished state.                                                         *)
(***************************************************************************)
CONSTANTS Proc, CPU

VARIABLE where         \* where[q]: "new", "ready", a CPU, or "finished"

Init == where = [q \in Proc |-> "new"]

Move(q, from, to) ==
  /\ where[q] = from
  /\ where' = [where EXCEPT ![q] = to]

Submit(q) == Move(q, "new", "ready")

Dispatch(q, c) ==
  /\ \A r \in Proc : where[r] # c
  /\ Move(q, "ready", c)

Preempt(q, c) == Move(q, c, "ready")

Finish(q, c) == Move(q, c, "finished")

Next == \E q \in Proc :
  Submit(q) \/ \E c \in CPU : Dispatch(q, c) \/ Preempt(q, c) \/ Finish(q, c)

Spec == Init /\ [][Next]_where

=============================================================================
