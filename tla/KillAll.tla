------------------------------ MODULE KillAll ------------------------------
(***************************************************************************)
(* System call 101 (src/sys_killall.c) over the scheduler and its callers: *)
(* a process that has a CPU looks through the running list and the ready   *)
(* queues for the processes of a name, takes those out, and puts the rest  *)
(* back by way of a queue of its own.                                      *)
(*                                                                         *)
(* killall never takes queue_lock.  These are the killalls during which    *)
(* no other thread is in a queue (NoKillAll in the guards of the others):  *)
(* not all that the code may do, but those in which it should do its work. *)
(* With nobody to see what is between, a call of enqueue or dequeue is one *)
(* step.  QueueRace has the others in the queue meanwhile.                 *)
(*                                                                         *)
(* libfree of the registers of the processes found does not touch the      *)
(* scheduler and is left out.                                              *)
(***************************************************************************)
EXTENDS SchedClients

CONSTANTS
  Name,                \* what a process may give killall as a name
  path                 \* proc->path, which load has cut to 16 characters

ASSUME KillAssumption ==
  /\ Name # {}
  /\ path \in [Proc -> Name]

VARIABLES
  kpc,                 \* where each CPU is in killall, "no" when it is not
  pr,                  \* the queue it works on: a level, or -1, running_list
  proc_name,           \* the name it looks for
  temp_queue,          \* the queue of its own
  killed,              \* history: processes taken out of a ready queue
  before               \* history: mlq_ready_queue when the killall began

killLocals == <<kpc, pr, proc_name, temp_queue>>
killVars == <<vars, killLocals, killed, before>>

AnyName == CHOOSE n \in Name : TRUE

KillInit ==
  /\ Init
  /\ kpc = [c \in CPU |-> "no"]
  /\ pr = [c \in CPU |-> -1]
  /\ proc_name = [c \in CPU |-> AnyName]
  /\ temp_queue = [c \in CPU |-> <<>>]
  /\ killed = {}
  /\ before = [c \in CPU |-> mlq_ready_queue]

NoKillAll == \A c \in CPU : kpc[c] = "no"

-----------------------------------------------------------------------------
(* The queue under work, and its new contents. *)

QueueOf(c) == IF pr[c] = -1 THEN running_list ELSE mlq_ready_queue[pr[c]]

SetQueue(c, q) ==
  /\ IF pr[c] = -1
     THEN running_list' = q /\ UNCHANGED mlq_ready_queue
     ELSE mlq_ready_queue' = [mlq_ready_queue EXCEPT ![pr[c]] = q] /\ UNCHANGED running_list
  /\ UNCHANGED <<curr_prio, curr_slot, clientVars, passed>>

(* The positions dequeue may choose.  running_list keeps processes that     *)
(* have been freed: their prio is whatever the memory holds now.            *)
Candidates(q) == {k \in DOMAIN q : q[k] \in finished \/
  \A j \in DOMAIN q : q[j] \notin finished =>
    prio[q[k]] <= prio[q[j]] /\ (j < k => prio[q[k]] < prio[q[j]])}

(* strcmp(proc->path, proc_name) == 0, of a freed process either way.       *)
(* Faulty: every process matches.                                           *)
MatchesAny(proc, name) == {TRUE}
Matches(proc, name) == IF proc \in finished THEN BOOLEAN ELSE {path[proc] = name}

-----------------------------------------------------------------------------
(* The name read from user memory is any; when it cannot be read killall    *)
(* returns without having done anything.                                    *)
KillStart(c, name) ==
  /\ kpc[c] = "no"
  /\ cpc[c] = "hold"
  /\ NoKillAll
  /\ kpc' = [kpc EXCEPT ![c] = "drain"]
  /\ proc_name' = [proc_name EXCEPT ![c] = name]
  /\ before' = [before EXCEPT ![c] = mlq_ready_queue]
  /\ UNCHANGED <<vars, pr, temp_queue, killed>>

(* dequeue; the process is kept in temp_queue if it does not match. *)
Drain(c) ==
  /\ kpc[c] = "drain"
  /\ \E k \in Candidates(QueueOf(c)) :
       LET proc == QueueOf(c)[k]
       IN  \E found \in Matches(proc, proc_name[c]) :
             /\ SetQueue(c, RemoveAt(QueueOf(c), k))
             /\ temp_queue' = IF found THEN temp_queue
                              ELSE [temp_queue EXCEPT ![c] = enqueue(@, proc)]
             /\ killed' = IF found /\ pr[c] # -1 THEN killed \union {proc} ELSE killed
  /\ UNCHANGED <<kpc, pr, proc_name, before>>

DrainEnd(c) ==
  /\ kpc[c] = "drain"
  /\ empty(QueueOf(c))
  /\ kpc' = [kpc EXCEPT ![c] = "restore"]
  /\ UNCHANGED <<vars, pr, proc_name, temp_queue, killed, before>>

(* enqueue(queue, dequeue(&temp_queue)) *)
Restore(c) ==
  /\ kpc[c] = "restore"
  /\ \E k \in Candidates(temp_queue[c]) :
       /\ SetQueue(c, enqueue(QueueOf(c), temp_queue[c][k]))
       /\ temp_queue' = [temp_queue EXCEPT ![c] = RemoveAt(@, k)]
  /\ UNCHANGED <<kpc, pr, proc_name, killed, before>>

(* Faulty: the last process is left in temp_queue. *)
AllButOneRestored(c) == Len(temp_queue[c]) <= 1
AllRestored(c) == empty(temp_queue[c])

(* Faulty: one past the last level. *)
OnePastLast(c) == pr[c] = MAX_PRIO
LastQueue(c) == pr[c] = MAX_PRIO - 1

NextQueue(c) ==
  /\ kpc[c] = "restore"
  /\ AllRestored(c)
  /\ ~LastQueue(c)
  /\ pr' = [pr EXCEPT ![c] = @ + 1]
  /\ temp_queue' = [temp_queue EXCEPT ![c] = <<>>]
  /\ kpc' = [kpc EXCEPT ![c] = "drain"]
  /\ UNCHANGED <<vars, proc_name, killed, before>>

(* Its variables are forgotten. *)
KillEnd(c) ==
  /\ kpc[c] = "restore"
  /\ AllRestored(c)
  /\ LastQueue(c)
  /\ kpc' = [kpc EXCEPT ![c] = "no"]
  /\ pr' = [pr EXCEPT ![c] = -1]
  /\ proc_name' = [proc_name EXCEPT ![c] = AnyName]
  /\ temp_queue' = [temp_queue EXCEPT ![c] = <<>>]
  /\ before' = [before EXCEPT ![c] = [p \in Level |-> <<>>]]
  /\ UNCHANGED <<vars, killed>>

KillAll(c) ==
  \/ Drain(c) \/ DrainEnd(c) \/ Restore(c) \/ NextQueue(c) \/ KillEnd(c)
  \/ \E name \in Name : KillStart(c, name)

(* Everybody else, and the CPU itself while it is not in killall. *)
Others ==
  /\ NoKillAll
  /\ Next
  /\ UNCHANGED <<killLocals, killed, before>>

KillNext == Others \/ \E c \in CPU : KillAll(c)

KillSpec == KillInit /\ [][KillNext]_killVars

-----------------------------------------------------------------------------
(* Properties. *)

KillTypeOK ==
  /\ TypeOK
  /\ kpc \in [CPU -> {"no", "drain", "restore"}]
  /\ pr \in [CPU -> -1 .. MAX_PRIO - 1]
  /\ proc_name \in [CPU -> Name]
  /\ temp_queue \in [CPU -> Seq(Proc)]
  /\ killed \in SUBSET Proc

KillPlaces(proc) == Places(proc) + (IF proc \in killed THEN 1 ELSE 0)

(* Between the killalls no process is in two places: in a ready queue, on   *)
(* a CPU, with the loader, ended or taken out by killall.  One whose level  *)
(* has no more processes than a queue has room for is in none too few; only *)
(* a full queue loses a process (enqueue of queue.c; the queues are drained *)
(* and refilled "safely", says sys_killall.c).                              *)
NoneLost == NoKillAll => \A proc \in Proc :
  /\ KillPlaces(proc) <= 1
  /\ Cardinality(Rivals(proc)) <= MAX_QUEUE_SIZE => KillPlaces(proc) = 1

(* Those of a queue that a killall of the name does not take. *)
Spared(q, name) == {proc \in ToSet(q) : path[proc] # name}

Precedes(x, y, q) == \E j, k \in DOMAIN q : j < k /\ q[j] = x /\ q[k] = y

(* Each two of the processes of queue r are in queue q, in the same order. *)
InOrder(r, q) == \A j, k \in DOMAIN r : j < k => Precedes(r[j], r[k], q)

(* What a killall leaves of each ready queue are the processes of other     *)
(* names, in the order in which they were before: the queue by which they   *)
(* are passed changes nobody's turn (__sys_killall).                        *)
KillsExactly == [][\A c \in CPU : KillEnd(c) => \A p \in Level :
  /\ ToSet(mlq_ready_queue[p]) = Spared(before[c][p], proc_name[c])
  /\ InOrder(mlq_ready_queue[p], before[c][p])]_killVars

(* killall reads no process that has been freed (sys_killall.c: "Process    *)
(* the running list safely").                                               *)
ReadsLiveProcs == \A c \in CPU : kpc[c] = "drain" =>
  ToSet(QueueOf(c)) \intersect finished = {}

=============================================================================
