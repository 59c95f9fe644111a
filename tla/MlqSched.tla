------------------------------ MODULE MlqSched ------------------------------
(***************************************************************************)
(* src/sched.c over src/queue.c, built with MLQ_SCHED: the multi-level     *)
(* ready queue, the scheduler's position in it and the running list.       *)
(*                                                                         *)
(* Each critical section of queue_lock is one operator or action here; a   *)
(* function of sched.c that takes the lock twice (get_mlq_proc, put_proc,  *)
(* add_proc) is two steps of its caller, and the modules that extend this  *)
(* one interleave them.                                                    *)
(***************************************************************************)
EXTENDS Integers, Sequences, SequencesExt

CONSTANTS
  Proc,                \* the processes
  prio,                \* proc->prio, set by the loader before add_proc
  MAX_PRIO,            \* number of levels, 140 in the build
  MAX_QUEUE_SIZE,      \* capacity of every queue, 10 in the build
  NULL

(* A configuration file can give a process any prio; one that is not a      *)
(* level indexes outside of mlq_ready_queue and has no defined behaviour.   *)
ASSUME SchedAssumption ==
  /\ MAX_PRIO \in Nat \ {0}
  /\ MAX_QUEUE_SIZE \in Nat \ {0}
  /\ prio \in [Proc -> 0 .. MAX_PRIO - 1]
  /\ NULL \notin Proc

VARIABLES
  mlq_ready_queue,     \* one queue for each level
  curr_prio,           \* the level being served
  curr_slot,           \* dispatches it may still have in this turn
  running_list         \* what killall searches besides the ready queues

schedVars == <<mlq_ready_queue, curr_prio, curr_slot, running_list>>

Level == 0 .. MAX_PRIO - 1

(* Dispatches in one turn of a level.  Faulty: the same for every level. *)
EqualTurns(p) == MAX_PRIO
slot(p) == MAX_PRIO - p

SchedTypeOK ==
  /\ mlq_ready_queue \in [Level -> Seq(Proc)]
  /\ curr_prio \in Level
  /\ curr_slot \in 0 .. MAX_PRIO
  /\ running_list \in Seq(Proc)

-----------------------------------------------------------------------------
(* queue.c *)

empty(q) == q = <<>>

(* A full queue ignores the process. *)
enqueue(q, proc) == IF Len(q) = MAX_QUEUE_SIZE THEN q ELSE Append(q, proc)

(* The first of the processes with the lowest prio value.  Faulty: the last *)
(* of them.                                                                 *)
LastBestIdx(q) == CHOOSE i \in DOMAIN q : \A j \in DOMAIN q :
  prio[q[i]] <= prio[q[j]] /\ (j > i => prio[q[i]] < prio[q[j]])
BestIdx(q) == CHOOSE i \in DOMAIN q : \A j \in DOMAIN q :
  prio[q[i]] <= prio[q[j]] /\ (j < i => prio[q[i]] < prio[q[j]])

(* What dequeue leaves in the queue.  Faulty: everything. *)
NothingRemoved(q) == q
Removed(q) == IF empty(q) THEN q ELSE RemoveAt(q, BestIdx(q))

(* What dequeue returns. *)
Dequeued(q) == IF empty(q) THEN NULL ELSE q[BestIdx(q)]

-----------------------------------------------------------------------------
(* sched.c *)

InitScheduler ==
  /\ mlq_ready_queue = [p \in Level |-> <<>>]
  /\ curr_prio = 0
  /\ curr_slot = MAX_PRIO
  /\ running_list = <<>>

QueueEmpty == \A p \in Level : empty(mlq_ready_queue[p])

Dequeue(p, proc) ==
  /\ proc = Dequeued(mlq_ready_queue[p])
  /\ mlq_ready_queue' = [mlq_ready_queue EXCEPT ![p] = Removed(@)]

(* The current level may have another dispatch of its turn.  Faulty: its    *)
(* turn never ends.                                                         *)
EndlessTurn == ~empty(mlq_ready_queue[curr_prio])
InTurn == curr_slot > 0 /\ ~empty(mlq_ready_queue[curr_prio])

(* How far after curr_prio, round the levels, a process waits: curr_prio    *)
(* itself is not looked at again.                                           *)
ReadyOffsets ==
  {offset \in 1 .. MAX_PRIO - 1 : ~empty(mlq_ready_queue[(curr_prio + offset) % MAX_PRIO])}

(* The search stops at the nearest one.  Faulty: at the farthest. *)
FarthestReady == {offset \in ReadyOffsets : \A o \in ReadyOffsets : offset >= o}
NearestReady == {offset \in ReadyOffsets : \A o \in ReadyOffsets : offset <= o}

(* The second critical section of get_mlq_proc, which returns proc. *)
GetFromCurrent(proc) ==
  /\ InTurn
  /\ Dequeue(curr_prio, proc)
  /\ curr_slot' = curr_slot - 1
  /\ UNCHANGED <<curr_prio, running_list>>

GetFromNext(proc) ==
  /\ ~InTurn
  /\ \E offset \in NearestReady :
       LET p == (curr_prio + offset) % MAX_PRIO
       IN  /\ Dequeue(p, proc)
           /\ curr_prio' = p
           /\ curr_slot' = slot(p) - 1
  /\ UNCHANGED running_list

GetFromFirst(proc) ==
  /\ ~InTurn
  /\ ReadyOffsets = {}
  /\ Dequeue(0, proc)
  /\ curr_prio' = 0
  /\ curr_slot' = slot(0) - 1
  /\ UNCHANGED running_list

TakeReady(proc) == GetFromCurrent(proc) \/ GetFromNext(proc) \/ GetFromFirst(proc)

(* First critical section of put_proc and of add_proc. *)
ListRunning(proc) ==
  /\ running_list' = enqueue(running_list, proc)
  /\ UNCHANGED <<mlq_ready_queue, curr_prio, curr_slot>>

(* Second one: put_mlq_proc, add_mlq_proc. *)
MakeReady(proc) ==
  /\ mlq_ready_queue' = [mlq_ready_queue EXCEPT ![prio[proc]] = enqueue(@, proc)]
  /\ UNCHANGED <<curr_prio, curr_slot, running_list>>

-----------------------------------------------------------------------------
(* What holds of the queues. *)

Ready(q) == \E p \in Level : \E j \in DOMAIN mlq_ready_queue[p] : mlq_ready_queue[p][j] = q

Rivals(proc) == {q \in Proc : prio[q] = prio[proc]}

SameLevel == \A p \in Level : \A k \in DOMAIN mlq_ready_queue[p] : prio[mlq_ready_queue[p][k]] = p

=============================================================================
