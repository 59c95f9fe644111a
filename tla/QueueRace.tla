----------------------------- MODULE QueueRace -----------------------------
(***************************************************************************)
(* A ready queue (src/queue.c) when killall (src/sys_killall.c) works on   *)
(* it without queue_lock, while other CPUs take it to get and put a        *)
(* process (src/sched.c).  A step is one access to the shared queue; the   *)
(* build does not optimise (Makefile), so they are those of the source, in *)
(* its order, and the index in q->proc[--q->size] is read from q->size     *)
(* again.                                                                  *)
(*                                                                         *)
(* One queue is followed, that of a level all of whose processes have the  *)
(* same prio, so that best_idx stays 0; the comparisons are kept for the   *)
(* NULL they may meet.  killall looks for a name that none of them has;    *)
(* what it does with running_list and the other levels is left out.  The   *)
(* tests of get_mlq_proc for an empty queue are that of dequeue, and       *)
(* add_proc of the loader takes the steps of put_proc.                     *)
(***************************************************************************)
EXTENDS Integers, Sequences, FiniteSetsExt

CONSTANTS
  Proc,
  CPU,
  Queued,              \* the processes that are queued first; CPUs have the others
  MAX_QUEUE_SIZE,
  NULL

VARIABLES
  proc, size,          \* the queue_t
  queue_lock,          \* the CPU that has it, or NULL
  cpu,                 \* the locals of each CPU's thread
  crashed              \* a NULL pointer was followed

queueVars == <<proc, size>>
raceVars == <<queueVars, queue_lock, cpu, crashed>>

Slot == 0 .. MAX_QUEUE_SIZE - 1

(* pc is the next access; job says for what enqueue or dequeue was called;  *)
(* current is the process that runs, temp_queue that of killall.            *)
Thread(current) ==
  [pc |-> "run", job |-> "none", i |-> 0, n |-> 0, moved |-> NULL, pcb |-> NULL,
   current |-> current, temp_queue |-> <<>>]

Listed(S) == CHOOSE f \in [0 .. Cardinality(S) - 1 -> S] : \A p \in S : \E k \in DOMAIN f : f[k] = p

RaceInit ==
  /\ LET list == Listed(Queued)
     IN  proc = [k \in Slot |-> IF k \in DOMAIN list THEN list[k] ELSE NULL]
  /\ size = Cardinality(Queued)
  /\ queue_lock = NULL
  /\ \E holds \in [CPU -> Proc \ Queued] :
       /\ \A p \in Proc \ Queued : \E c \in CPU : holds[c] = p
       /\ cpu = [c \in CPU |-> Thread(holds[c])]
  /\ crashed = FALSE

-----------------------------------------------------------------------------
At(c, label) == ~crashed /\ cpu[c].pc = label

Set(c, thread) == cpu' = [cpu EXCEPT ![c] = thread]

Keep == UNCHANGED <<queueVars, queue_lock, crashed>>

Crash == crashed' = TRUE /\ UNCHANGED <<queueVars, queue_lock, cpu>>

(* Bound: copies of processes do not fill the queue after its size was     *)
(* tested (a write behind the array would be one into size).               *)
HasRoom == size < MAX_QUEUE_SIZE

(* A size below zero makes dequeue write before the array, into what lies  *)
(* there: the padding of the queue of the level before.                    *)
Write(k, p) == proc' = IF k \in Slot THEN [proc EXCEPT ![k] = p] ELSE proc

(* Whoever followed the pointer in slot k would have crashed. *)
Followed(c, k, thread) ==
  IF k \in Slot /\ proc[k] # NULL THEN Set(c, thread) /\ Keep ELSE Crash

(* Back from dequeue with p. *)
Dequeued(thread, p) ==
  IF thread.job = "get" THEN [thread EXCEPT !.pc = "unlock", !.current = p, !.moved = NULL]
  ELSE IF p = NULL THEN [thread EXCEPT !.pc = "restore", !.moved = NULL]
  ELSE [thread EXCEPT !.pc = "drain", !.temp_queue = Append(@, p), !.pcb = NULL, !.moved = NULL]

Enqueued(thread) ==
  IF thread.job = "put" THEN [thread EXCEPT !.pc = "unlock", !.current = NULL, !.pcb = NULL]
  ELSE [thread EXCEPT !.pc = "restore", !.pcb = NULL]

-----------------------------------------------------------------------------
(* dequeue *)

DeqTest(c) ==
  /\ At(c, "deqTest")
  /\ Set(c, IF size = 0 THEN Dequeued(cpu[c], NULL) ELSE [cpu[c] EXCEPT !.pc = "compareTest", !.i = 1])
  /\ Keep

CompareTest(c) ==
  /\ At(c, "compareTest")
  /\ Set(c, [cpu[c] EXCEPT !.pc = IF cpu[c].i < size THEN "compare" ELSE "take"])
  /\ Keep

Compare(c) ==
  /\ At(c, "compare")
  /\ Followed(c, cpu[c].i, [cpu[c] EXCEPT !.pc = "compareBest"])

CompareBest(c) ==
  /\ At(c, "compareBest")
  /\ Followed(c, 0, [cpu[c] EXCEPT !.pc = "compareTest", !.i = @ + 1])

Take(c) ==
  /\ At(c, "take")
  /\ Set(c, [cpu[c] EXCEPT !.pc = "shiftTest", !.pcb = proc[0], !.i = 0])
  /\ Keep

ShiftTest(c) ==
  /\ At(c, "shiftTest")
  /\ Set(c, [cpu[c] EXCEPT !.pc = IF cpu[c].i < size - 1 THEN "shiftRead" ELSE "sizeRead"])
  /\ Keep

ShiftRead(c) ==
  /\ At(c, "shiftRead")
  /\ Set(c, [cpu[c] EXCEPT !.pc = "shiftWrite", !.moved = proc[cpu[c].i + 1]])
  /\ Keep

ShiftWrite(c) ==
  /\ At(c, "shiftWrite")
  /\ Write(cpu[c].i, cpu[c].moved)
  /\ Set(c, [cpu[c] EXCEPT !.pc = "shiftTest", !.i = @ + 1])
  /\ UNCHANGED <<size, queue_lock, crashed>>

(* --q->size; no test keeps it from going below zero. *)
SizeRead(c) ==
  /\ At(c, "sizeRead")
  /\ Set(c, [cpu[c] EXCEPT !.pc = "sizeWrite", !.n = size - 1])
  /\ Keep

SizeWrite(c) ==
  /\ At(c, "sizeWrite")
  /\ size' = cpu[c].n
  /\ Set(c, [cpu[c] EXCEPT !.pc = "clearRead"])
  /\ UNCHANGED <<proc, queue_lock, crashed>>

ClearRead(c) ==
  /\ At(c, "clearRead")
  /\ HasRoom
  /\ Set(c, [cpu[c] EXCEPT !.pc = "clear", !.n = size])
  /\ Keep

Clear(c) ==
  /\ At(c, "clear")
  /\ Write(cpu[c].n, NULL)
  /\ Set(c, Dequeued(cpu[c], cpu[c].pcb))
  /\ UNCHANGED <<size, queue_lock, crashed>>

Dequeue(c) ==
  \/ DeqTest(c) \/ CompareTest(c) \/ Compare(c) \/ CompareBest(c) \/ Take(c)
  \/ ShiftTest(c) \/ ShiftRead(c) \/ ShiftWrite(c) \/ SizeRead(c) \/ SizeWrite(c)
  \/ ClearRead(c) \/ Clear(c)

-----------------------------------------------------------------------------
(* enqueue *)

EnqTest(c) ==
  /\ At(c, "enqTest")
  /\ Set(c, IF size = MAX_QUEUE_SIZE THEN Enqueued(cpu[c]) ELSE [cpu[c] EXCEPT !.pc = "slotRead"])
  /\ Keep

SlotRead(c) ==
  /\ At(c, "slotRead")
  /\ HasRoom
  /\ Set(c, [cpu[c] EXCEPT !.pc = "slotWrite", !.n = size])
  /\ Keep

SlotWrite(c) ==
  /\ At(c, "slotWrite")
  /\ Write(cpu[c].n, cpu[c].pcb)
  /\ Set(c, [cpu[c] EXCEPT !.pc = "incRead"])
  /\ UNCHANGED <<size, queue_lock, crashed>>

IncRead(c) ==
  /\ At(c, "incRead")
  /\ HasRoom
  /\ Set(c, [cpu[c] EXCEPT !.pc = "incWrite", !.n = size])
  /\ Keep

IncWrite(c) ==
  /\ At(c, "incWrite")
  /\ size' = cpu[c].n + 1
  /\ Set(c, Enqueued(cpu[c]))
  /\ UNCHANGED <<proc, queue_lock, crashed>>

Enqueue(c) == EnqTest(c) \/ SlotRead(c) \/ SlotWrite(c) \/ IncRead(c) \/ IncWrite(c)

-----------------------------------------------------------------------------
(* get_mlq_proc and put_mlq_proc, with the lock. *)

Locks(c, thread) ==
  /\ queue_lock = NULL
  /\ queue_lock' = c
  /\ Set(c, thread)
  /\ UNCHANGED <<queueVars, crashed>>

Get(c) ==
  /\ At(c, "run")
  /\ cpu[c].current = NULL
  /\ Locks(c, [cpu[c] EXCEPT !.pc = "deqTest", !.job = "get"])

Put(c) ==
  /\ At(c, "run")
  /\ cpu[c].current # NULL
  /\ Locks(c, [cpu[c] EXCEPT !.pc = "enqTest", !.job = "put", !.pcb = cpu[c].current])

Unlock(c) ==
  /\ At(c, "unlock")
  /\ queue_lock' = NULL
  /\ Set(c, Thread(cpu[c].current))
  /\ UNCHANGED <<queueVars, crashed>>

-----------------------------------------------------------------------------
(* __sys_killall, without it. *)

KillStart(c) ==
  /\ At(c, "run")
  /\ cpu[c].current # NULL
  /\ Set(c, [cpu[c] EXCEPT !.pc = "drain", !.job = "killall"])
  /\ Keep

(* Any size but zero is taken for processes that are left. *)
Drain(c) ==
  /\ At(c, "drain")
  /\ Set(c, [cpu[c] EXCEPT !.pc = IF size = 0 THEN "restore" ELSE "deqTest"])
  /\ Keep

Restore(c) ==
  /\ At(c, "restore")
  /\ LET temp_queue == cpu[c].temp_queue
     IN  Set(c, IF temp_queue = <<>> THEN Thread(cpu[c].current)
                ELSE [cpu[c] EXCEPT !.pc = "enqTest", !.pcb = Head(temp_queue), !.temp_queue = Tail(temp_queue)])
  /\ Keep

KillAll(c) == KillStart(c) \/ Drain(c) \/ Restore(c)

RaceNext == \E c \in CPU : Dequeue(c) \/ Enqueue(c) \/ Get(c) \/ Put(c) \/ Unlock(c) \/ KillAll(c)

RaceSpec == RaceInit /\ [][RaceNext]_raceVars

-----------------------------------------------------------------------------
(* Properties. *)

Quiet == ~crashed /\ \A c \in CPU : cpu[c].pc = "run"

CopiesOf(p) ==
  Cardinality({k \in 0 .. size - 1 : proc[k] = p}) + Cardinality({c \in CPU : cpu[c].current = p})

(* When no CPU is in a call of the scheduler or in killall, every process   *)
(* runs or is queued, once (sys_killall.c: "Process all MLQ ready queues    *)
(* safely").                                                                *)
QueuedSafely == Quiet => \A p \in Proc : CopiesOf(p) = 1

=============================================================================
