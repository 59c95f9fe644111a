------------------------------- MODULE OsSim -------------------------------
(***************************************************************************)
(* src/os.c: the CPU threads and the loader thread, over the scheduler of  *)
(* MlqSched and the slotted time of Lockstep.                              *)
(*                                                                         *)
(* A step is a critical section of the scheduler, an access to the         *)
(* unprotected variable `done', or the end of a slot, together with the    *)
(* thread's own computation around it.  run(proc) is one instruction of    *)
(* the process: here it only moves proc->pc.                               *)
(***************************************************************************)
EXTENDS MlqSched

CONSTANTS
  CPU,
  loader,              \* the loader thread
  program,             \* program[q] = q's code->size
  start_time,          \* ld_processes.start_time, for each process
  order,               \* the processes as the configuration lists them
  TimeSlots,           \* what the configuration may give for time_slot
  Horizon              \* bound of the clock: no start_time is later

ASSUME OsAssumption ==
  /\ program \in [Proc -> Nat]
  /\ start_time \in [Proc -> 0 .. Horizon]
  /\ Horizon \in Nat
  /\ order \in Seq(Proc) /\ ToSet(order) = Proc /\ Len(order) = Cardinality(Proc)
  /\ TimeSlots \subseteq Int
  /\ loader \notin CPU

(* The places of a process that is on no CPU are the names of no CPU. *)
ASSUME PlacesAssumption == CPU \intersect {"new", "ready", "finished", "lost"} = {}

VARIABLES
  time, at,            \* the clock, and each thread's place in the slot
  done,                \* set when the loader has loaded everything
  cpc,                 \* program point of each CPU
  cur,                 \* proc of each CPU
  time_left,           \* time_left of each CPU
  time_slot,           \* length of a time slice, set by read_config
  lpc, i,              \* loader: program point, next process in order
  pc,                  \* proc->pc of each process
  finished,            \* processes whose PCB a CPU has freed
  ran,                 \* history: processes that ran in this slot
  burst                \* history: slots a process ran since it left a queue

clockVars == <<time, at>>
cpuVars == <<cpc, cur, time_left>>
loaderVars == <<lpc, i, time_slot>>
procVars == <<pc, finished>>
history == <<ran, burst>>
vars == <<schedVars, clockVars, done, cpuVars, loaderVars, procVars, history>>

Device == CPU \union {loader}

Clock == INSTANCE Lockstep

CpuPC == {"loop", "idle_take", "put", "get", "take", "recheck", "run"}

Init ==
  /\ InitScheduler
  /\ Clock!Init
  /\ done = FALSE
  /\ cpc = [c \in CPU |-> "loop"]
  /\ cur = [c \in CPU |-> NULL]
  /\ time_left = [c \in CPU |-> 0]
  /\ time_slot \in TimeSlots
  /\ lpc = "load"
  /\ i = 1
  /\ pc = [q \in Proc |-> 0]
  /\ finished = {}
  /\ ran = {}
  /\ burst = [q \in Proc |-> 0]

Goto(c, label) == cpc' = [cpc EXCEPT ![c] = label]

(* CPU c's thread is at this point of its loop, and its slot has begun. *)
CpuAt(c, label) == at[c] = "working" /\ cpc[c] = label

-----------------------------------------------------------------------------
(* cpu_routine *)

(* proc == NULL: the CPU asks for a process, and without one it goes to the *)
(* next slot straight away.                                                 *)
IdleSkip(c) ==
  /\ CpuAt(c, "loop")
  /\ cur[c] = NULL
  /\ QueueEmpty
  /\ Clock!Arrive(c)
  /\ UNCHANGED <<schedVars, done, cpuVars, loaderVars, procVars, history>>

IdleGet(c) ==
  /\ CpuAt(c, "loop")
  /\ cur[c] = NULL
  /\ ~QueueEmpty
  /\ Goto(c, "idle_take")
  /\ UNCHANGED <<schedVars, clockVars, done, cur, time_left, loaderVars, procVars, history>>

IdleTakeNothing(c) ==
  /\ CpuAt(c, "idle_take")
  /\ TakeReady(NULL)
  /\ Clock!Arrive(c)
  /\ Goto(c, "loop")
  /\ UNCHANGED <<done, cur, time_left, loaderVars, procVars, history>>

(* get_proc returned a process: a new time slice begins if none is left of  *)
(* the old one.                                                             *)
Dispatched(c, q) ==
  /\ cur' = [cur EXCEPT ![c] = q]
  /\ time_left' = [time_left EXCEPT ![c] = IF @ = 0 THEN time_slot ELSE @]
  /\ Goto(c, "run")
  /\ UNCHANGED <<clockVars, done, loaderVars, procVars, history>>

IdleTake(c, q) ==
  /\ CpuAt(c, "idle_take")
  /\ TakeReady(q)
  /\ Dispatched(c, q)

(* free(proc).  Faulty: what was left of the time slice is passed on.       *)
KeepTimeLeft(c) == UNCHANGED time_left
ClearTimeLeft(c) == time_left' = [time_left EXCEPT ![c] = 0]

(* Faulty: one instruction past the last is expected. *)
HasRunPast(c) == pc[cur[c]] > program[cur[c]]
HasFinished(c) == pc[cur[c]] = program[cur[c]]

ProcFinished(c) ==
  /\ CpuAt(c, "loop")
  /\ cur[c] # NULL
  /\ HasFinished(c)
  /\ finished' = finished \union {cur[c]}
  /\ cur' = [cur EXCEPT ![c] = NULL]
  /\ ClearTimeLeft(c)
  /\ Goto(c, "get")
  /\ UNCHANGED <<schedVars, clockVars, done, loaderVars, pc, history>>

(* The time slice is used up: put_proc. *)
PutProcList(c) ==
  /\ CpuAt(c, "loop")
  /\ cur[c] # NULL
  /\ ~HasFinished(c)
  /\ time_left[c] = 0
  /\ ListRunning(cur[c])
  /\ Goto(c, "put")
  /\ UNCHANGED <<clockVars, done, cur, time_left, loaderVars, procVars, history>>

PutProcReady(c) ==
  /\ CpuAt(c, "put")
  /\ MakeReady(cur[c])
  /\ cur' = [cur EXCEPT ![c] = NULL]
  /\ burst' = [burst EXCEPT ![cur[c]] = 0]
  /\ Goto(c, "get")
  /\ UNCHANGED <<clockVars, done, time_left, loaderVars, procVars, ran>>

(* get_proc of a CPU that had a process. *)
GetEmpty(c) ==
  /\ CpuAt(c, "get")
  /\ QueueEmpty
  /\ Goto(c, "recheck")
  /\ UNCHANGED <<schedVars, clockVars, done, cur, time_left, loaderVars, procVars, history>>

GetNotEmpty(c) ==
  /\ CpuAt(c, "get")
  /\ ~QueueEmpty
  /\ Goto(c, "take")
  /\ UNCHANGED <<schedVars, clockVars, done, cur, time_left, loaderVars, procVars, history>>

TakeNothing(c) ==
  /\ CpuAt(c, "take")
  /\ TakeReady(NULL)
  /\ Goto(c, "recheck")
  /\ UNCHANGED <<clockVars, done, cur, time_left, loaderVars, procVars, history>>

Take(c, q) ==
  /\ CpuAt(c, "take")
  /\ TakeReady(q)
  /\ Dispatched(c, q)

(* The CPU that got no process stops if the loader is done.  Faulty: it     *)
(* does not ask the loader.                                                 *)
NobodyAsked == TRUE
LoaderDone == done

Stop(c) ==
  /\ CpuAt(c, "recheck")
  /\ LoaderDone
  /\ Clock!Leave(c)
  /\ UNCHANGED <<schedVars, done, cpuVars, loaderVars, procVars, history>>

SkipSlot(c) ==
  /\ CpuAt(c, "recheck")
  /\ ~LoaderDone
  /\ Clock!Arrive(c)
  /\ Goto(c, "loop")
  /\ UNCHANGED <<schedVars, done, cur, time_left, loaderVars, procVars, history>>

(* run(proc) does nothing when pc is past the last instruction.  Faulty: it *)
(* moves pc all the same.                                                   *)
ExecutePast(q) == pc' = [pc EXCEPT ![q] = @ + 1]
Execute(q) == pc' = [pc EXCEPT ![q] = IF @ < program[q] THEN @ + 1 ELSE @]

(* next_slot after run.  Faulty: the process runs on in the same slot.      *)
RunOn(c) == UNCHANGED clockVars
EndSlot(c) == Clock!Arrive(c)

(* A process just dispatched, or one with time left, runs for this slot. *)
Run(c) ==
  /\ \/ CpuAt(c, "run")
     \/ CpuAt(c, "loop") /\ cur[c] # NULL /\ ~HasFinished(c) /\ time_left[c] # 0
  /\ Execute(cur[c])
  /\ time_left' = [time_left EXCEPT ![c] = @ - 1]
  /\ EndSlot(c)
  /\ Goto(c, "loop")
  /\ ran' = ran \union {cur[c]}
  /\ burst' = [burst EXCEPT ![cur[c]] = @ + 1]
  /\ UNCHANGED <<schedVars, done, cur, loaderVars, finished>>

Cpu(c) ==
  \/ IdleSkip(c) \/ IdleGet(c) \/ IdleTakeNothing(c)
  \/ ProcFinished(c) \/ PutProcList(c) \/ PutProcReady(c)
  \/ GetEmpty(c) \/ GetNotEmpty(c) \/ TakeNothing(c)
  \/ Stop(c) \/ SkipSlot(c) \/ Run(c)
  \/ \E q \in Proc : IdleTake(c, q) \/ Take(c, q)

-----------------------------------------------------------------------------
(* ld_routine *)

LoaderAt(label) == at[loader] = "working" /\ lpc = label

(* current_time() >= start_time.  Faulty: the loader does not wait. *)
AlwaysDue(q) == TRUE
Due(q) == time >= start_time[q]

LoaderWait ==
  /\ LoaderAt("load")
  /\ i <= Len(order)
  /\ ~Due(order[i])
  /\ Clock!Arrive(loader)
  /\ UNCHANGED <<schedVars, done, cpuVars, loaderVars, procVars, history>>

(* add_proc, then the end of the slot. *)
AddProcList ==
  /\ LoaderAt("load")
  /\ i <= Len(order)
  /\ Due(order[i])
  /\ ListRunning(order[i])
  /\ lpc' = "add"
  /\ UNCHANGED <<clockVars, done, cpuVars, i, time_slot, procVars, history>>

AddProcReady ==
  /\ LoaderAt("add")
  /\ MakeReady(order[i])
  /\ i' = i + 1
  /\ lpc' = "load"
  /\ Clock!Arrive(loader)
  /\ UNCHANGED <<done, cpuVars, time_slot, procVars, history>>

LoaderSetDone ==
  /\ LoaderAt("load")
  /\ i > Len(order)
  /\ done' = TRUE
  /\ lpc' = "detach"
  /\ UNCHANGED <<schedVars, clockVars, cpuVars, i, time_slot, procVars, history>>

LoaderDetach ==
  /\ LoaderAt("detach")
  /\ Clock!Leave(loader)
  /\ UNCHANGED <<schedVars, done, cpuVars, loaderVars, procVars, history>>

Loader == LoaderWait \/ AddProcList \/ AddProcReady \/ LoaderSetDone \/ LoaderDetach

-----------------------------------------------------------------------------
SlotEnds ==
  /\ Clock!Tick
  /\ ran' = {}
  /\ UNCHANGED <<schedVars, done, cpuVars, loaderVars, procVars, burst>>

Stopped == \A d \in Device : at[d] = "gone"

(* main has joined every thread and returned. *)
Terminated == Stopped /\ UNCHANGED vars

Next == (\E c \in CPU : Cpu(c)) \/ Loader \/ SlotEnds \/ Terminated

Spec == Init /\ [][Next]_vars

(* Every thread runs, and time passes once all of them wait for it (the     *)
(* liveness SlotTimer shows of the timer).                                  *)
LiveSpec ==
  /\ Spec
  /\ \A c \in CPU : WF_vars(Cpu(c))
  /\ WF_vars(Loader)
  /\ WF_vars(SlotEnds)

-----------------------------------------------------------------------------
(* Properties. *)

TypeOK ==
  /\ SchedTypeOK
  /\ time \in 0 .. Horizon
  /\ at \in [Device -> {"working", "waiting", "gone"}]
  /\ done \in BOOLEAN
  /\ cpc \in [CPU -> CpuPC]
  /\ cur \in [CPU -> Proc \union {NULL}]
  /\ time_slot \in TimeSlots
  /\ time_left \in [CPU -> Int]
  /\ lpc \in {"load", "add", "detach"}
  /\ i \in 1 .. Len(order) + 1
  /\ pc \in [Proc -> Nat] /\ \A q \in Proc : pc[q] <= program[q]
  /\ finished \in SUBSET Proc

(* The loader has yet to make q ready. *)
New(q) == \E k \in i .. Len(order) : order[k] = q

(* Where process q is; "lost" when it is nowhere. *)
Where == [q \in Proc |->
  IF q \in finished THEN "finished"
  ELSE IF \E c \in CPU : cur[c] = q THEN CHOOSE c \in CPU : cur[c] = q
  ELSE IF Ready(q) THEN "ready"
  ELSE IF New(q) THEN "new"
  ELSE "lost"]

Owner == INSTANCE ProcOwner WITH where <- Where

(* Whatever the interleaving of CPUs and loader, a process is on one CPU,   *)
(* ready or finished, a CPU gives it up before another takes it, and a      *)
(* freed process never comes back (cpu_routine, sched.c).                   *)
ImplementsOwner == Owner!Spec

(* No process runs twice in one slot, not even one that a CPU puts back and *)
(* another CPU takes at once: put_proc comes at the start of a slot, before *)
(* the CPU that ran it last can have run in it.                             *)
OneInstructionPerSlot == [][\A c \in CPU : Run(c) => cur[c] \notin ran]_vars

(* A process keeps its CPU for exactly time_slot slots unless it finishes:  *)
(* no rest of another process's slice is passed to it and it is not put     *)
(* back early.  With a time_slot of 0 it is not put back at all, since the  *)
(* first instruction takes time_left below the 0 cpu_routine compares with. *)
ExactSlice ==
  /\ time_slot > 0 => \A q \in Proc : burst[q] <= time_slot
  /\ \A c \in CPU : cpc[c] = "put" => time_slot > 0 /\ burst[cur[c]] = time_slot

(* A process is not seen by any CPU before its start_time. *)
NotBeforeStart == \A q \in Proc : Where[q] # "new" => time >= start_time[q]

(* When all CPUs have stopped no process is left unfinished (os.c: a CPU    *)
(* stops when there is "No process to run, exit").                          *)
NoneStranded == (\A c \in CPU : at[c] = "gone") => finished = Proc

(* Every process of the configuration is run to its end. *)
AllFinish == <>(finished = Proc)

(* main's joins return (os.c: "Wait for CPU and loader finishing"). *)
SimulationEnds == <>Stopped

=============================================================================
