---------------------------- MODULE SchedClients ----------------------------
(***************************************************************************)
(* The scheduler of MlqSched under all the callers it can have: CPU        *)
(* threads that take a process, hold it and put it back or finish it, and  *)
(* a loader that adds the processes in any order, at any time.  Slots play *)
(* no part here; OsSim adds them and the control flow of the callers.      *)
(***************************************************************************)
EXTENDS MlqSched

CONSTANT CPU

(* num_processes is a number. *)
ASSUME ClientAssumption == IsFiniteSet(Proc)

VARIABLES
  cpc,                 \* where each CPU is in get_proc or put_proc
  cur,                 \* the process each CPU holds, or NULL
  unborn,              \* processes not given to add_proc yet
  adding,              \* the process inside add_proc, or NULL
  finished,            \* processes that ended
  passed               \* history: passed[p][o] dispatches of level o were
                       \* made while a process of level p was ready, since
                       \* level p was last served

clientVars == <<cpc, cur, unborn, adding, finished>>
vars == <<schedVars, clientVars, passed>>

CpuPC == {"idle", "take", "hold", "put"}

Init ==
  /\ InitScheduler
  /\ cpc = [c \in CPU |-> "idle"]
  /\ cur = [c \in CPU |-> NULL]
  /\ unborn = Proc
  /\ adding = NULL
  /\ finished = {}
  /\ passed = [p \in Level |-> [o \in Level |-> 0]]

(* The history after a call that returned proc. *)
Dispatched(proc) ==
  passed' = [p \in Level |-> [o \in Level |->
    IF empty(mlq_ready_queue[p]) \/ prio[proc] = p THEN 0
    ELSE passed[p][o] + (IF prio[proc] = o THEN 1 ELSE 0)]]

(* get_mlq_proc gives up when queue_empty says so; the lock is then free    *)
(* until the second critical section.                                       *)
GetEmpty(c) ==
  /\ cpc[c] = "idle"
  /\ QueueEmpty
  /\ UNCHANGED vars

GetNotEmpty(c) ==
  /\ cpc[c] = "idle"
  /\ ~QueueEmpty
  /\ cpc' = [cpc EXCEPT ![c] = "take"]
  /\ UNCHANGED <<schedVars, cur, unborn, adding, finished, passed>>

GetProc(c, proc) ==
  /\ cpc[c] = "take"
  /\ TakeReady(proc)
  /\ proc # NULL
  /\ Dispatched(proc)
  /\ cur' = [cur EXCEPT ![c] = proc]
  /\ cpc' = [cpc EXCEPT ![c] = "hold"]
  /\ UNCHANGED <<unborn, adding, finished>>

GetNothing(c) ==
  /\ cpc[c] = "take"
  /\ TakeReady(NULL)
  /\ cpc' = [cpc EXCEPT ![c] = "idle"]
  /\ UNCHANGED <<cur, unborn, adding, finished, passed>>

PutList(c) ==
  /\ cpc[c] = "hold"
  /\ ListRunning(cur[c])
  /\ cpc' = [cpc EXCEPT ![c] = "put"]
  /\ UNCHANGED <<cur, unborn, adding, finished, passed>>

PutReady(c) ==
  /\ cpc[c] = "put"
  /\ MakeReady(cur[c])
  /\ cur' = [cur EXCEPT ![c] = NULL]
  /\ cpc' = [cpc EXCEPT ![c] = "idle"]
  /\ UNCHANGED <<unborn, adding, finished, passed>>

Finish(c) ==
  /\ cpc[c] = "hold"
  /\ finished' = finished \union {cur[c]}
  /\ cur' = [cur EXCEPT ![c] = NULL]
  /\ cpc' = [cpc EXCEPT ![c] = "idle"]
  /\ UNCHANGED <<schedVars, unborn, adding, passed>>

AddList(proc) ==
  /\ adding = NULL
  /\ proc \in unborn
  /\ ListRunning(proc)
  /\ unborn' = unborn \ {proc}
  /\ adding' = proc
  /\ UNCHANGED <<cpc, cur, finished, passed>>

AddReady ==
  /\ adding # NULL
  /\ MakeReady(adding)
  /\ adding' = NULL
  /\ UNCHANGED <<cpc, cur, unborn, finished, passed>>

Get(c) == GetEmpty(c) \/ GetNotEmpty(c) \/ GetNothing(c) \/ \E proc \in Proc : GetProc(c, proc)

Release(c) == PutList(c) \/ PutReady(c) \/ Finish(c)

Next ==
  \/ \E c \in CPU : Get(c) \/ Release(c)
  \/ \E proc \in Proc : AddList(proc)
  \/ AddReady

Spec == Init /\ [][Next]_vars

(* A CPU keeps asking for a process (cpu_routine calls get_proc again in    *)
(* the next slot) and gives up the one it has after its time slice.         *)
LiveSpec == Spec /\ \A c \in CPU : WF_vars(Get(c) \/ Release(c))

-----------------------------------------------------------------------------
(* Properties. *)

TypeOK ==
  /\ SchedTypeOK
  /\ cpc \in [CPU -> CpuPC]
  /\ cur \in [CPU -> Proc \union {NULL}]
  /\ unborn \in SUBSET Proc
  /\ adding \in Proc \union {NULL}
  /\ finished \in SUBSET Proc
  /\ passed \in [Level -> [Level -> Nat]]

ReadyAt(proc) == {pi \in Level \X (1 .. MAX_QUEUE_SIZE) :
                    pi[2] \in DOMAIN mlq_ready_queue[pi[1]] /\ mlq_ready_queue[pi[1]][pi[2]] = proc}

Holders(proc) == {c \in CPU : cur[c] = proc}

(* The places process proc is in. *)
Places(proc) == Cardinality(ReadyAt(proc)) + Cardinality(Holders(proc))
  + (IF proc \in unborn THEN 1 ELSE 0) + (IF adding = proc THEN 1 ELSE 0)
  + (IF proc \in finished THEN 1 ELSE 0)

(* No process is in two places: in a ready queue, on a CPU, with the        *)
(* loader, or ended; and one whose level has no more processes than a queue *)
(* has room for is in one.  No interleaving of the two critical sections of *)
(* get_mlq_proc, put_proc and add_proc duplicates a process, and only the   *)
(* full queue of queue.c loses one.                                         *)
OnePlace == \A proc \in Proc :
  /\ Places(proc) <= 1
  /\ Cardinality(Rivals(proc)) <= MAX_QUEUE_SIZE => Places(proc) = 1

(* However get_mlq_proc's turns, its searches and the early returns that    *)
(* leave curr_prio and curr_slot behind interleave, a level with a ready    *)
(* process is passed over for at most MAX_PRIO - o dispatches of each other *)
(* level o before it is served (the MLQ policy sched.c states).             *)
LevelShare == \A p, o \in Level : o # p => passed[p][o] <= MAX_PRIO - o

(* How far level p is ahead of level c, round the levels. *)
Ahead(c, p) == IF p > c THEN p - c ELSE p - c + MAX_PRIO

HoldsOne == \A c \in CPU : cpc[c] \in {"hold", "put"} => cur[c] \in Proc

(* How often level p has been passed over by level o: not at all if nothing *)
(* waits there or its turn was the last, or if the round since p was served *)
(* has not come to o; and else by what o has used up of its turn.           *)
PassedInv == \A p \in Level :
  /\ curr_prio = p \/ empty(mlq_ready_queue[p]) => \A o \in Level : passed[p][o] = 0
  /\ \A o \in Level \ {p} : curr_prio # p => passed[p][o] <=
       IF o = curr_prio THEN slot(o) - curr_slot
       ELSE IF Ahead(curr_prio, o) < Ahead(curr_prio, p) THEN 0 ELSE slot(o)

(* The inductive invariant for LevelShare: every queue holds processes of   *)
(* its level only (put_mlq_proc), the turn of a level is no longer than its *)
(* slot, and the search of get_mlq_proc goes round the levels without       *)
(* leaving out one that waits.                                              *)
TurnInv ==
  /\ TypeOK
  /\ HoldsOne
  /\ SameLevel
  /\ curr_slot <= slot(curr_prio)
  /\ PassedInv

IsReady(proc) == ReadyAt(proc) # {}

(* No process is ready for ever, whatever the others do: the                *)
(* turns of get_mlq_proc starve no level and dequeue starves nobody within  *)
(* a level.                                                                 *)
NoStarvation == \A proc \in Proc : []<>~IsReady(proc)

=============================================================================
