---------------------------- MODULE OsSimProofs ----------------------------
(***************************************************************************)
(* Safety of the CPU threads and the loader of src/os.c, for every number  *)
(* of CPUs, levels and processes, every program length, start time and     *)
(* time slice.                                                             *)
(***************************************************************************)
EXTENDS OsSim, MlqSchedProofs

(* The inductive invariants. *)

(* A process has one place at a time: on one CPU, in a queue, finished or   *)
(* still with the loader.                                                   *)
OnePlace ==
  /\ \A c, d \in CPU : cur[c] = cur[d] /\ cur[c] # NULL => c = d
  /\ \A c \in CPU : cur[c] # NULL => ~Ready(cur[c]) /\ cur[c] \notin finished /\ ~New(cur[c])
  /\ \A q \in Proc : Ready(q) => q \notin finished /\ ~New(q)
  /\ \A q \in finished : ~New(q)

(* A CPU has a process, and the loader one to load, where its code uses one. *)
PointsInv ==
  /\ lpc = "add" => i <= Len(order)
  /\ \A c \in CPU :
       /\ cpc[c] = "put" \/ cpc[c] = "run" => cur[c] # NULL
       /\ cpc[c] \in {"idle_take", "get", "take", "recheck"} => cur[c] = NULL

OwnerInv == TypeOK /\ QueueInv /\ OnePlace /\ PointsInv

(* No process is in no place. *)
NothingLost == \A q \in Proc :
  q \in finished \/ Ready(q) \/ New(q) \/ \E c \in CPU : cur[c] = q

(* What the process of a CPU has run of its slice and what the CPU has left *)
(* of it make up the slice.  A slice of 0 or less is never used up.         *)
Share(c) ==
  /\ cur[c] = NULL => time_left[c] = 0
  /\ cpc[c] = "put" => time_slot > 0 /\ time_left[c] = 0
  /\ cur[c] # NULL /\ time_slot > 0 =>
       /\ burst[cur[c]] + time_left[c] = time_slot
       /\ time_left[c] >= 0
       /\ cpc[c] = "run" => time_left[c] > 0
  /\ cur[c] # NULL /\ time_slot <= 0 =>
       /\ time_left[c] <= 0
       /\ cpc[c] # "run" => time_left[c] < 0

SliceInv ==
  /\ burst \in [Proc -> Nat]
  /\ \A c \in CPU : Share(c)
  /\ \A q \in Proc \ finished : (\A c \in CPU : cur[c] # q) => burst[q] = 0
  /\ time_slot > 0 => \A q \in Proc : burst[q] <= time_slot

(* The loader is past the processes whose start_time has come. *)
StartInv ==
  /\ \A k \in 1 .. i - 1 : time >= start_time[order[k]]
  /\ lpc = "add" => time >= start_time[order[i]]

(* A process that ran in this slot is still on its CPU, waiting for the next. *)
RanInv == \A q \in ran : \E c \in CPU : cur[c] = q /\ at[c] = "waiting"

-----------------------------------------------------------------------------
(* The configuration lists every process, and once. *)
LEMMA OrderProperties ==
  ASSUME OsAssumption
  PROVE  /\ Len(order) \in Nat
         /\ order \in [1 .. Len(order) -> Proc]
         /\ \A j, k \in 1 .. Len(order) : order[j] = order[k] => j = k
         /\ \A q \in Proc : \E k \in 1 .. Len(order) : order[k] = q
<1>1. Len(order) \in Nat /\ order \in [1 .. Len(order) -> Proc] /\ DOMAIN order = 1 .. Len(order)
  BY LenProperties DEF OsAssumption
<1>2. \A q \in Proc : \E k \in 1 .. Len(order) : order[k] = q
  BY <1>1 DEF OsAssumption, ToSet
<1>3. order \in Surjection(1 .. Len(order), Proc)
  BY <1>1, <1>2 DEF Surjection
<1>4. IsFiniteSet(1 .. Len(order)) /\ Cardinality(1 .. Len(order)) = Len(order)
  BY <1>1, FS_Interval
<1>5. order \in Injection(1 .. Len(order), Proc)
  BY <1>3, <1>4, FS_SurjSameCardinalityImpliesInj DEF OsAssumption
<1>6. \A j, k \in 1 .. Len(order) : order[j] = order[k] => j = k
  BY <1>5 DEF Injection, IsInjective
<1> QED BY <1>1, <1>2, <1>6

(* What the loader has not made ready yet. *)
LEMMA NewProperties ==
  ASSUME OsAssumption, i \in 1 .. Len(order), i' = i + 1
  PROVE  \A q \in Proc : New(q)' <=> New(q) /\ q # order[i]
<1>1. Len(order) \in Nat /\ \A j, k \in 1 .. Len(order) : order[j] = order[k] => j = k
  BY OrderProperties
<1>2. ASSUME NEW q \in Proc PROVE New(q)' <=> New(q) /\ q # order[i]
  BY SMTT(30), <1>1 DEF New
<1> QED BY <1>2

-----------------------------------------------------------------------------
(* The types. *)

LEMMA TypeStep ==
  ASSUME SchedAssumption, OsAssumption, OwnerInv, QueueInv', [Next]_vars
  PROVE  TypeOK'
<1>1. /\ TypeOK /\ SchedTypeOK' /\ NULL \notin Proc
      /\ \A c \in CPU : cpc[c] = "put" \/ cpc[c] = "run" => cur[c] # NULL
      /\ lpc = "add" => i <= Len(order)
      /\ Len(order) \in Nat
  BY OrderProperties DEF OwnerInv, PointsInv, QueueInv, SchedAssumption
<1> USE DEF TypeOK, Device, CpuPC, Goto, CpuAt, Clock!Arrive, Clock!Leave, cpuVars, loaderVars, procVars, clockVars
<1>2. CASE UNCHANGED vars
  BY <1>1, <1>2 DEF vars
<1>3. ASSUME NEW c \in CPU, IdleSkip(c) \/ IdleTakeNothing(c) \/ SkipSlot(c) PROVE TypeOK'
  BY <1>1, <1>3 DEF IdleSkip, IdleTakeNothing, SkipSlot
<1>4. ASSUME NEW c \in CPU, IdleGet(c) \/ GetEmpty(c) \/ GetNotEmpty(c) \/ TakeNothing(c) PROVE TypeOK'
  BY <1>1, <1>4 DEF IdleGet, GetEmpty, GetNotEmpty, TakeNothing
<1>5. ASSUME NEW c \in CPU, NEW q \in Proc, IdleTake(c, q) \/ Take(c, q) PROVE TypeOK'
  <2>1. time_left' \in [CPU -> Int]
    BY <1>1, <1>5 DEF IdleTake, Take, Dispatched, OsAssumption
  <2>2. /\ cur' = [cur EXCEPT ![c] = q] /\ cpc' = [cpc EXCEPT ![c] = "run"]
        /\ UNCHANGED <<time, at, done, lpc, i, time_slot, pc, finished>>
    BY <1>5 DEF IdleTake, Take, Dispatched
  <2> QED BY <1>1, <2>1, <2>2
<1>6. ASSUME NEW c \in CPU, ProcFinished(c) PROVE TypeOK'
  BY <1>1, <1>6 DEF ProcFinished, ClearTimeLeft
<1>7. ASSUME NEW c \in CPU, PutProcList(c) \/ PutProcReady(c) PROVE TypeOK'
  BY <1>1, <1>7 DEF PutProcList, PutProcReady
<1>8. ASSUME NEW c \in CPU, Stop(c) PROVE TypeOK'
  BY <1>1, <1>8 DEF Stop
<1>9. ASSUME NEW c \in CPU, Run(c) PROVE TypeOK'
  <2>1. PICK q \in Proc : q = cur[c]
    BY <1>1, <1>9 DEF Run
  <2>2. pc' = [pc EXCEPT ![q] = IF pc[q] < program[q] THEN pc[q] + 1 ELSE pc[q]]
    BY <1>1, <1>9, <2>1 DEF Run, Execute
  <2>3. program \in [Proc -> Nat] /\ pc \in [Proc -> Nat] /\ \A r \in Proc : pc[r] <= program[r]
    BY <1>1 DEF OsAssumption
  <2>4. pc' \in [Proc -> Nat] /\ \A r \in Proc : pc'[r] <= program[r]
    BY <2>1, <2>2, <2>3
  <2>5. time_left' \in [CPU -> Int]
    BY SMTT(30), <1>1, <1>9 DEF Run
  <2> QED BY <1>1, <1>9, <2>4, <2>5 DEF Run, EndSlot
<1>10. CASE Loader
  <2>1. CASE LoaderWait \/ LoaderDetach
    BY <1>1, <2>1 DEF LoaderWait, LoaderDetach
  <2>2. CASE AddProcList \/ LoaderSetDone
    BY <1>1, <2>2, <1>10 DEF AddProcList, LoaderSetDone, LoaderAt
  <2>3. CASE AddProcReady
    <3>1. /\ i <= Len(order) /\ i' = i + 1 /\ lpc' = "load"
          /\ at' = [at EXCEPT ![loader] = "waiting"]
          /\ UNCHANGED <<time, done, cpc, cur, time_left, time_slot, pc, finished>>
      BY <1>1, <2>3 DEF AddProcReady, LoaderAt
    <3>2. i' \in 1 .. Len(order) + 1
      BY <1>1, <3>1
    <3> QED BY <1>1, <3>1, <3>2
  <2> QED BY <1>10, <2>1, <2>2, <2>3 DEF Loader
<1>11. CASE SlotEnds
  BY <1>1, <1>11 DEF SlotEnds, Clock!Tick, OsAssumption
<1> QED BY <1>2, <1>3, <1>4, <1>5, <1>6, <1>7, <1>8, <1>9, <1>10, <1>11 DEF Next, Cpu, Terminated

-----------------------------------------------------------------------------
(* The places. *)

(* A step that moves no process keeps every place. *)
LEMMA NothingMoves ==
  ASSUME OnePlace, UNCHANGED <<cur, finished, i>>, \A q : Ready(q)' <=> Ready(q)
  PROVE  OnePlace' /\ (NothingLost => NothingLost')
<1>1. OnePlace'
  BY DEF OnePlace, New
<1>2. NothingLost => NothingLost'
  BY DEF NothingLost, New
<1> QED BY <1>1, <1>2

(* get_mlq_proc hands CPU c a process that was ready. *)
LEMMA TakeMoves ==
  ASSUME SchedAssumption, OwnerInv, NEW c \in CPU, NEW proc \in Proc,
         cur[c] = NULL, TakeReady(proc), Dispatched(c, proc)
  PROVE  QueueInv' /\ OnePlace' /\ (NothingLost => NothingLost')
<1>1. TypeOK /\ QueueInv /\ OnePlace /\ NULL \notin Proc
  BY DEF OwnerInv, SchedAssumption
<1>2. QueueInv' /\ Ready(proc) /\ ~Ready(proc)' /\ \A q : q # proc => (Ready(q)' <=> Ready(q))
  BY <1>1, TakeReadyTakes
<1>3. cur' = [cur EXCEPT ![c] = proc] /\ UNCHANGED <<finished, i>> /\ cur \in [CPU -> Proc \union {NULL}]
  BY <1>1 DEF Dispatched, loaderVars, procVars, TypeOK
<1>4. \A q : New(q)' <=> New(q)
  BY <1>3 DEF New
<1>5. proc \notin finished /\ ~New(proc) /\ \A d \in CPU : cur[d] # proc
  BY <1>1, <1>2 DEF OnePlace
<1>6. \A d \in CPU : cur'[d] = IF d = c THEN proc ELSE cur[d]
  BY <1>3
<1>7. OnePlace'
  BY <1>1, <1>2, <1>3, <1>4, <1>5, <1>6 DEF OnePlace
<1>8. NothingLost => NothingLost'
  <2> SUFFICES ASSUME NothingLost, NEW q \in Proc
               PROVE  q \in finished' \/ Ready(q)' \/ New(q)' \/ \E d \in CPU : cur'[d] = q
    BY DEF NothingLost
  <2>1. CASE q = proc
    BY <1>6, <2>1
  <2>2. CASE q # proc
    BY <1>1, <1>2, <1>3, <1>4, <1>6, <2>2 DEF NothingLost
  <2> QED BY <2>1, <2>2
<1> QED BY <1>2, <1>7, <1>8

(* put_mlq_proc puts CPU c's process back. *)
LEMMA PutMoves ==
  ASSUME SchedAssumption, OwnerInv, NEW c \in CPU, NEW proc \in Proc, proc = cur[c],
         MakeReady(proc), cur' = [cur EXCEPT ![c] = NULL], UNCHANGED <<finished, i>>
  PROVE  QueueInv' /\ OnePlace' /\ (NeverFull /\ NothingLost => NothingLost')
<1>1. TypeOK /\ QueueInv /\ OnePlace /\ NULL \notin Proc /\ cur \in [CPU -> Proc \union {NULL}]
  BY DEF OwnerInv, SchedAssumption, TypeOK
<1>2. ~Ready(proc) /\ proc \notin finished /\ ~New(proc)
  BY <1>1 DEF OnePlace
<1>3. /\ QueueInv' /\ \A q : q # proc => (Ready(q)' <=> Ready(q))
      /\ NeverFull => Ready(proc)'
  BY <1>1, <1>2, MakeReadyAdds DEF NeverFull
<1>4. \A q : New(q)' <=> New(q)
  BY DEF New
<1>5. \A d \in CPU : cur'[d] = IF d = c THEN NULL ELSE cur[d]
  BY <1>1
<1>6. \A d \in CPU : cur'[d] # NULL => cur'[d] # proc /\ cur'[d] = cur[d]
  BY <1>1, <1>5 DEF OnePlace
<1>7. OnePlace'
  BY <1>1, <1>2, <1>3, <1>4, <1>5, <1>6 DEF OnePlace
<1>8. NeverFull /\ NothingLost => NothingLost'
  <2> SUFFICES ASSUME NeverFull, NothingLost, NEW q \in Proc
               PROVE  q \in finished' \/ Ready(q)' \/ New(q)' \/ \E d \in CPU : cur'[d] = q
    BY DEF NothingLost
  <2>1. CASE q = proc
    BY <1>3, <2>1
  <2>2. CASE q # proc
    BY <1>1, <1>3, <1>4, <1>5, <2>2 DEF NothingLost
  <2> QED BY <2>1, <2>2
<1> QED BY <1>3, <1>7, <1>8

(* add_mlq_proc makes the loader's next process ready. *)
LEMMA AddMoves ==
  ASSUME SchedAssumption, OsAssumption, OwnerInv, i <= Len(order), MakeReady(order[i]),
         i' = i + 1, UNCHANGED <<cur, finished>>
  PROVE  QueueInv' /\ OnePlace' /\ (NeverFull /\ NothingLost => NothingLost')
<1>1. TypeOK /\ QueueInv /\ OnePlace /\ NULL \notin Proc /\ cur \in [CPU -> Proc \union {NULL}]
      /\ finished \subseteq Proc
  BY DEF OwnerInv, SchedAssumption, TypeOK
<1>2. Len(order) \in Nat /\ order \in [1 .. Len(order) -> Proc] /\ i \in 1 .. Len(order)
  BY <1>1, OrderProperties DEF TypeOK
<1>3. PICK proc \in Proc : proc = order[i]
  BY <1>2
<1>4. New(proc)
  BY <1>2, <1>3 DEF New
<1>5. ~Ready(proc) /\ proc \notin finished /\ \A c \in CPU : cur[c] # proc
  BY <1>1, <1>3, <1>4 DEF OnePlace
<1>6. /\ QueueInv' /\ \A q : q # proc => (Ready(q)' <=> Ready(q))
      /\ NeverFull => Ready(proc)'
  BY <1>1, <1>3, <1>5, MakeReadyAdds DEF NeverFull
<1>7. \A q \in Proc : New(q)' <=> New(q) /\ q # proc
  BY <1>2, <1>3, NewProperties
<1>8. OnePlace'
  BY <1>1, <1>5, <1>6, <1>7 DEF OnePlace
<1>9. NeverFull /\ NothingLost => NothingLost'
  BY <1>6, <1>7 DEF NothingLost
<1> QED BY <1>6, <1>8, <1>9

(* Every step keeps the places and the program points. *)
LEMMA OwnerStep ==
  ASSUME SchedAssumption, OsAssumption, OwnerInv, [Next]_vars
  PROVE  OwnerInv' /\ (NeverFull /\ NothingLost => NothingLost')
<1> DEFINE Kept == QueueInv' /\ OnePlace' /\ PointsInv' /\ (NeverFull /\ NothingLost => NothingLost')
<1>1. TypeOK /\ QueueInv /\ OnePlace /\ PointsInv /\ NULL \notin Proc
  BY DEF OwnerInv, SchedAssumption
<1>2. /\ cur \in [CPU -> Proc \union {NULL}] /\ cpc \in [CPU -> CpuPC] /\ finished \subseteq Proc
      /\ order \in [1 .. Len(order) -> Proc] /\ Len(order) \in Nat /\ i \in 1 .. Len(order) + 1
  BY <1>1, OrderProperties DEF TypeOK
<1> USE DEF cpuVars, loaderVars, procVars
<1>3. ASSUME UNCHANGED vars PROVE Kept
  <2>1. QueueInv' /\ \A q : Ready(q)' <=> Ready(q)
    BY <1>1, <1>3, QueuesUnchanged DEF vars
  <2>2. UNCHANGED <<cur, cpc, finished, i, lpc>>
    BY <1>3 DEF vars
  <2>3. PointsInv'
    BY <1>1, <2>2 DEF PointsInv
  <2> QED BY <1>1, <2>1, <2>2, <2>3, NothingMoves
<1>4. ASSUME NEW c \in CPU,
             \/ IdleSkip(c) \/ IdleGet(c) \/ GetEmpty(c) \/ GetNotEmpty(c) \/ Stop(c) \/ SkipSlot(c)
      PROVE  Kept
  <2>1. UNCHANGED <<schedVars, cur, finished, i, lpc>>
    BY <1>4 DEF IdleSkip, IdleGet, GetEmpty, GetNotEmpty, Stop, SkipSlot
  <2>2. QueueInv' /\ \A q : Ready(q)' <=> Ready(q)
    BY <1>1, <2>1, QueuesUnchanged
  <2>3. PointsInv'
    BY <1>1, <1>2, <1>4, <2>1
       DEF PointsInv, IdleSkip, IdleGet, GetEmpty, GetNotEmpty, Stop, SkipSlot, Goto, CpuAt, CpuPC
  <2> QED BY <1>1, <2>1, <2>2, <2>3, NothingMoves
<1>5. ASSUME NEW c \in CPU, IdleTakeNothing(c) \/ TakeNothing(c) PROVE Kept
  <2>1. UNCHANGED <<cur, finished, i, lpc>> /\ TakeReady(NULL)
    BY <1>5 DEF IdleTakeNothing, TakeNothing
  <2>2. QueueInv' /\ \A q : Ready(q)' <=> Ready(q)
    BY <1>1, <2>1, TakeReadyTakes
  <2>3. PointsInv'
    BY <1>1, <1>2, <1>5, <2>1 DEF PointsInv, IdleTakeNothing, TakeNothing, Goto, CpuAt
  <2> QED BY <1>1, <2>1, <2>2, <2>3, NothingMoves
<1>6. ASSUME NEW c \in CPU, NEW q \in Proc, IdleTake(c, q) \/ Take(c, q) PROVE Kept
  <2>1. TakeReady(q) /\ Dispatched(c, q) /\ cur[c] = NULL
    BY <1>1, <1>6 DEF IdleTake, Take, CpuAt, PointsInv
  <2>2. QueueInv' /\ OnePlace' /\ (NothingLost => NothingLost')
    BY <2>1, TakeMoves
  <2>3. PointsInv'
    BY <1>1, <1>2, <2>1 DEF PointsInv, Dispatched, Goto
  <2> QED BY <2>2, <2>3
<1>7. ASSUME NEW c \in CPU, ProcFinished(c) PROVE Kept
  <2>1. PICK proc \in Proc : proc = cur[c]
    BY <1>2, <1>7 DEF ProcFinished
  <2>2. /\ cur' = [cur EXCEPT ![c] = NULL] /\ cpc' = [cpc EXCEPT ![c] = "get"]
        /\ finished' = finished \union {proc} /\ UNCHANGED <<schedVars, i, lpc>>
    BY <1>7, <2>1 DEF ProcFinished, Goto
  <2>3. QueueInv' /\ \A q : Ready(q)' <=> Ready(q)
    BY <1>1, <2>2, QueuesUnchanged
  <2>4. \A q : New(q)' <=> New(q)
    BY <2>2 DEF New
  <2>5. ~Ready(proc) /\ ~New(proc) /\ \A d \in CPU : d # c => cur[d] # proc
    BY <1>1, <2>1 DEF OnePlace
  <2>6. \A d \in CPU : cur'[d] = IF d = c THEN NULL ELSE cur[d]
    BY <1>2, <2>2
  <2>7. OnePlace'
    BY <1>1, <1>2, <2>2, <2>3, <2>4, <2>5, <2>6 DEF OnePlace
  <2>8. PointsInv'
    BY <1>1, <1>2, <2>2, <2>6 DEF PointsInv
  <2>9. NothingLost => NothingLost'
    BY <2>1, <2>2, <2>3, <2>4, <2>6 DEF NothingLost
  <2> QED BY <2>3, <2>7, <2>8, <2>9
<1>8. ASSUME NEW c \in CPU, PutProcList(c) PROVE Kept
  <2>1. cur[c] \in Proc /\ ListRunning(cur[c]) /\ UNCHANGED <<cur, finished, i, lpc>>
    BY <1>2, <1>8 DEF PutProcList
  <2>2. QueueInv' /\ \A q : Ready(q)' <=> Ready(q)
    BY <1>1, <2>1, ListRunningKeeps
  <2>3. PointsInv'
    BY <1>1, <1>2, <1>8, <2>1 DEF PointsInv, PutProcList, Goto
  <2> QED BY <1>1, <2>1, <2>2, <2>3, NothingMoves
<1>9. ASSUME NEW c \in CPU, PutProcReady(c) PROVE Kept
  <2>1. PICK proc \in Proc : proc = cur[c]
    BY <1>1, <1>2, <1>9 DEF PutProcReady, CpuAt, PointsInv
  <2>2. /\ MakeReady(proc) /\ cur' = [cur EXCEPT ![c] = NULL] /\ cpc' = [cpc EXCEPT ![c] = "get"]
        /\ UNCHANGED <<finished, i, lpc>>
    BY <1>9, <2>1 DEF PutProcReady, Goto
  <2>3. QueueInv' /\ OnePlace' /\ (NeverFull /\ NothingLost => NothingLost')
    BY <2>1, <2>2, PutMoves
  <2>4. PointsInv'
    BY <1>1, <1>2, <2>2 DEF PointsInv
  <2> QED BY <2>3, <2>4
<1>10. ASSUME NEW c \in CPU, Run(c) PROVE Kept
  <2>1. UNCHANGED <<schedVars, cur, finished, i, lpc>> /\ cpc' = [cpc EXCEPT ![c] = "loop"]
    BY <1>10 DEF Run, Goto
  <2>2. QueueInv' /\ \A q : Ready(q)' <=> Ready(q)
    BY <1>1, <2>1, QueuesUnchanged
  <2>3. PointsInv'
    BY <1>1, <1>2, <2>1 DEF PointsInv
  <2> QED BY <1>1, <2>1, <2>2, <2>3, NothingMoves
<1>11. ASSUME LoaderWait \/ LoaderSetDone \/ LoaderDetach \/ SlotEnds PROVE Kept
  <2>1. UNCHANGED <<schedVars, cur, cpc, finished, i>> /\ (lpc' = "add" => lpc = "add")
    BY <1>11 DEF LoaderWait, LoaderSetDone, LoaderDetach, SlotEnds
  <2>2. QueueInv' /\ \A q : Ready(q)' <=> Ready(q)
    BY <1>1, <2>1, QueuesUnchanged
  <2>3. PointsInv'
    BY <1>1, <2>1 DEF PointsInv
  <2> QED BY <1>1, <2>1, <2>2, <2>3, NothingMoves
<1>12. ASSUME AddProcList PROVE Kept
  <2>1. i <= Len(order) /\ ListRunning(order[i]) /\ UNCHANGED <<cur, cpc, finished, i>>
    BY <1>12 DEF AddProcList
  <2>2. QueueInv' /\ \A q : Ready(q)' <=> Ready(q)
    BY <1>1, <1>2, <2>1, ListRunningKeeps
  <2>3. PointsInv'
    BY <1>1, <2>1 DEF PointsInv
  <2> QED BY <1>1, <2>1, <2>2, <2>3, NothingMoves
<1>13. ASSUME AddProcReady PROVE Kept
  <2>1. /\ i <= Len(order) /\ MakeReady(order[i]) /\ i' = i + 1 /\ lpc' = "load"
        /\ UNCHANGED <<cur, cpc, finished>>
    BY <1>1, <1>13 DEF AddProcReady, LoaderAt, PointsInv
  <2>2. QueueInv' /\ OnePlace' /\ (NeverFull /\ NothingLost => NothingLost')
    BY <2>1, AddMoves
  <2>3. PointsInv'
    BY <1>1, <2>1 DEF PointsInv
  <2> QED BY <2>2, <2>3
<1>14. Kept
  <2>1. ASSUME NEW c \in CPU, Cpu(c) PROVE Kept
    BY <2>1, <1>4, <1>5, <1>6, <1>7, <1>8, <1>9, <1>10 DEF Cpu
  <2>2. ASSUME Loader PROVE Kept
    BY <2>2, <1>11, <1>12, <1>13 DEF Loader
  <2> HIDE DEF Kept
  <2> QED BY <2>1, <2>2, <1>3, <1>11 DEF Next, Terminated
<1>15. TypeOK'
  BY <1>14, TypeStep
<1> QED BY <1>14, <1>15 DEF OwnerInv

LEMMA OwnerInit ==
  ASSUME SchedAssumption, OsAssumption, Init
  PROVE  OwnerInv /\ NothingLost /\ \A q \in Proc : New(q)
<1>1. QueueInv /\ \A q : ~Ready(q)
  BY QueuesInit DEF Init
<1>2. /\ Len(order) \in Nat /\ order \in [1 .. Len(order) -> Proc]
      /\ \A q \in Proc : \E k \in 1 .. Len(order) : order[k] = q
  BY OrderProperties
<1>3. \A q \in Proc : New(q)
  BY <1>2 DEF Init, New
<1>4. TypeOK
  <2>1. SchedTypeOK /\ 1 \in 1 .. Len(order) + 1 /\ 0 \in 0 .. Horizon /\ \A q \in Proc : program[q] \in Nat
    BY <1>1, <1>2 DEF QueueInv, OsAssumption
  <2>2. /\ time \in 0 .. Horizon /\ at \in [Device -> {"working", "waiting", "gone"}]
        /\ done \in BOOLEAN /\ lpc \in {"load", "add", "detach"} /\ i \in 1 .. Len(order) + 1
        /\ finished \in SUBSET Proc /\ time_slot \in TimeSlots
    BY <2>1 DEF Init, Clock!Init
  <2>3. /\ cpc \in [CPU -> CpuPC] /\ cur \in [CPU -> Proc \union {NULL}] /\ time_left \in [CPU -> Int]
    BY DEF Init, CpuPC
  <2>4. pc \in [Proc -> Nat] /\ \A q \in Proc : pc[q] <= program[q]
    BY <2>1 DEF Init
  <2> QED BY <2>1, <2>2, <2>3, <2>4 DEF TypeOK
<1>5. OnePlace /\ PointsInv /\ NothingLost
  BY <1>1, <1>3 DEF Init, OnePlace, PointsInv, NothingLost
<1> QED BY <1>1, <1>3, <1>4, <1>5 DEF OwnerInv

-----------------------------------------------------------------------------
(* The slices. *)

LEMMA SliceInit ==
  ASSUME OsAssumption, Init
  PROVE  SliceInv
BY DEF OsAssumption, Init, SliceInv, Share

(* A CPU that a step leaves alone keeps its share.                          *)
LEMMA ShareKept ==
  ASSUME NEW c \in CPU, Share(c), time_slot' = time_slot, cur'[c] = cur[c], time_left'[c] = time_left[c],
         cpc'[c] = cpc[c], cur[c] # NULL => burst'[cur[c]] = burst[cur[c]]
  PROVE  Share(c)'
BY DEF Share

(* A step after which every CPU has the process and the program point it    *)
(* had, or another point than "put" and "run", keeps the slices.            *)
LEMMA SliceKept ==
  ASSUME SliceInv, UNCHANGED <<cur, time_left, time_slot, finished, burst>>,
         \A c \in CPU : cpc'[c] = cpc[c] \/ (cpc[c] # "run" /\ cpc'[c] # "put" /\ cpc'[c] # "run")
  PROVE  SliceInv'
<1>1. ASSUME NEW c \in CPU PROVE Share(c)'
  <2>1. Share(c)
    BY DEF SliceInv
  <2>2. CASE cpc'[c] = cpc[c]
    BY <2>1, <2>2 DEF Share
  <2>3. CASE cpc[c] # "run" /\ cpc'[c] # "put" /\ cpc'[c] # "run"
    BY <2>1, <2>3 DEF Share
  <2> QED BY <2>2, <2>3
<1> QED BY <1>1 DEF SliceInv

(* A process that no CPU had starts a slice. *)
LEMMA SliceStarts ==
  ASSUME OsAssumption, OwnerInv, SliceInv, NEW c \in CPU, NEW proc \in Proc \ finished,
         cur[c] = NULL, \A d \in CPU : cur[d] # proc, Dispatched(c, proc), NULL \notin Proc
  PROVE  SliceInv'
<1>1. /\ cur' = [cur EXCEPT ![c] = proc] /\ time_left' = [time_left EXCEPT ![c] = time_slot]
      /\ cpc' = [cpc EXCEPT ![c] = "run"] /\ UNCHANGED <<time_slot, finished, burst>>
  <2>1. time_left[c] = 0
    BY DEF SliceInv, Share
  <2> QED BY <2>1 DEF Dispatched, Goto, loaderVars, procVars, history
<1>2. /\ cur \in [CPU -> Proc \union {NULL}] /\ time_left \in [CPU -> Int] /\ cpc \in [CPU -> CpuPC]
      /\ time_slot \in Int
  BY DEF OwnerInv, TypeOK, OsAssumption
<1>3. burst[proc] = 0
  BY DEF SliceInv
<1>4. \A d \in CPU : /\ cur'[d] = IF d = c THEN proc ELSE cur[d]
                     /\ time_left'[d] = IF d = c THEN time_slot ELSE time_left[d]
                     /\ cpc'[d] = IF d = c THEN "run" ELSE cpc[d]
  BY <1>1, <1>2
<1> HIDE DEF CpuPC
<1>5. ASSUME NEW d \in CPU PROVE Share(d)'
  <2>1. Share(d)
    BY DEF SliceInv
  <2>2. CASE d = c
    BY <1>1, <1>2, <1>3, <1>4, <2>2 DEF Share
  <2>3. CASE d # c
    BY <1>1, <1>4, <2>1, <2>3, ShareKept
  <2> QED BY <2>2, <2>3
<1>6. \A q \in Proc \ finished : (\A d \in CPU : cur'[d] # q) => burst[q] = 0
  <2>1. \A q \in Proc \ finished : (\A d \in CPU : cur[d] # q) => burst[q] = 0
    BY DEF SliceInv
  <2> QED BY SMTT(30), <1>4, <2>1
<1>7. burst \in [Proc -> Nat] /\ (time_slot > 0 => \A q \in Proc : burst[q] <= time_slot)
  BY DEF SliceInv
<1> QED BY <1>1, <1>5, <1>6, <1>7 DEF SliceInv

(* One instruction of CPU c's process.                                      *)
LEMMA SliceRuns ==
  ASSUME SchedAssumption, OsAssumption, OwnerInv, SliceInv, NEW c \in CPU, Run(c)
  PROVE  SliceInv'
<1>1. /\ cur \in [CPU -> Proc \union {NULL}] /\ time_left \in [CPU -> Int] /\ cpc \in [CPU -> CpuPC]
      /\ time_slot \in Int /\ burst \in [Proc -> Nat] /\ OnePlace /\ PointsInv /\ NULL \notin Proc
  BY DEF OwnerInv, TypeOK, OsAssumption, SliceInv, SchedAssumption
<1>2. PICK proc \in Proc : proc = cur[c]
  BY <1>1 DEF Run, PointsInv, CpuAt
<1>3. /\ time_left' = [time_left EXCEPT ![c] = time_left[c] - 1] /\ cpc' = [cpc EXCEPT ![c] = "loop"]
      /\ burst' = [burst EXCEPT ![proc] = burst[proc] + 1]
      /\ UNCHANGED <<cur, time_slot, finished>>
  BY <1>1, <1>2 DEF Run, Goto, loaderVars
<1>4. \A d \in CPU : /\ time_left'[d] = IF d = c THEN time_left[c] - 1 ELSE time_left[d]
                     /\ cpc'[d] = IF d = c THEN "loop" ELSE cpc[d]
                     /\ cur[d] # NULL => burst'[cur[d]] = IF d = c THEN burst[proc] + 1 ELSE burst[cur[d]]
  BY <1>1, <1>2, <1>3 DEF OnePlace
<1>5. /\ time_slot > 0 => time_left[c] > 0 /\ burst[proc] + time_left[c] = time_slot
      /\ time_slot <= 0 => time_left[c] <= 0
  <2>1. Share(c)
    BY DEF SliceInv
  <2>2. cpc[c] = "run" \/ (cpc[c] = "loop" /\ time_left[c] # 0)
    BY DEF Run, CpuAt
  <2> QED BY <1>1, <1>2, <2>1, <2>2 DEF Share
<1> HIDE DEF CpuPC
<1>6. ASSUME NEW d \in CPU PROVE Share(d)'
  <2>1. Share(d)
    BY DEF SliceInv
  <2>2. CASE d = c
    <3>1. /\ cur'[d] = proc /\ proc # NULL /\ time_left'[d] = time_left[c] - 1 /\ cpc'[d] = "loop"
          /\ burst'[proc] = burst[proc] + 1 /\ burst[proc] \in Nat /\ time_left[c] \in Int
          /\ time_slot \in Int
      BY <1>1, <1>2, <1>3, <1>4, <2>2
    <3>2. CASE time_slot > 0
      <4>1. time_left[c] > 0 /\ burst[proc] + time_left[c] = time_slot
        BY <1>5, <3>2
      <4>2. burst'[proc] + time_left'[d] = time_slot
        BY <3>1, <4>1
      <4>3. time_left'[d] >= 0
        BY <3>1, <4>1
      <4>4. time_slot' = time_slot
        BY <1>3
      <4> QED BY <3>1, <3>2, <4>2, <4>3, <4>4 DEF Share
    <3>3. CASE time_slot <= 0
      BY <1>1, <1>3, <1>5, <3>1, <3>3 DEF Share
    <3> QED BY <1>1, <3>2, <3>3
  <2>3. CASE d # c
    BY <1>3, <1>4, <2>1, <2>3, ShareKept
  <2> QED BY <2>2, <2>3
<1>7. \A q \in Proc \ finished : (\A d \in CPU : cur[d] # q) => burst'[q] = 0
  BY <1>1, <1>2, <1>3 DEF SliceInv
<1>8. burst' \in [Proc -> Nat] /\ (time_slot > 0 => \A q \in Proc : burst'[q] <= time_slot)
  BY SMTT(30), <1>1, <1>2, <1>3, <1>5 DEF SliceInv
<1> QED BY <1>3, <1>6, <1>7, <1>8 DEF SliceInv

(* CPU c gives its process up, at the end of its slice or finished.         *)
LEMMA SliceEnds ==
  ASSUME SchedAssumption, OsAssumption, OwnerInv, SliceInv, NEW c \in CPU, ProcFinished(c) \/ PutProcReady(c)
  PROVE  SliceInv'
<1>1. /\ cur \in [CPU -> Proc \union {NULL}] /\ time_left \in [CPU -> Int] /\ cpc \in [CPU -> CpuPC]
      /\ time_slot \in Int /\ burst \in [Proc -> Nat] /\ OnePlace /\ PointsInv /\ NULL \notin Proc
  BY DEF OwnerInv, TypeOK, OsAssumption, SliceInv, SchedAssumption
<1>2. PICK proc \in Proc : proc = cur[c]
  BY <1>1 DEF ProcFinished, PutProcReady, PointsInv, CpuAt
<1>3. /\ cur' = [cur EXCEPT ![c] = NULL] /\ cpc' = [cpc EXCEPT ![c] = "get"] /\ time_slot' = time_slot
      /\ time_left' = [time_left EXCEPT ![c] = 0]
      /\ \/ finished' = finished \union {proc} /\ burst' = burst
         \/ finished' = finished /\ burst' = [burst EXCEPT ![proc] = 0]
  <2>1. CASE ProcFinished(c)
    BY <1>1, <1>2, <2>1 DEF ProcFinished, ClearTimeLeft, Goto, loaderVars, history
  <2>2. CASE PutProcReady(c)
    <3>1. time_left[c] = 0 /\ time_left' = time_left
      BY <2>2 DEF PutProcReady, CpuAt, SliceInv, Share
    <3> QED BY <1>1, <1>2, <2>2, <3>1 DEF PutProcReady, Goto, loaderVars, procVars
  <2> QED BY <2>1, <2>2
<1>4. \A d \in CPU : /\ time_left'[d] = IF d = c THEN 0 ELSE time_left[d]
                     /\ cpc'[d] = IF d = c THEN "get" ELSE cpc[d]
                     /\ cur'[d] = IF d = c THEN NULL ELSE cur[d]
  BY <1>1, <1>3
<1>5. \A d \in CPU : cur'[d] # NULL => cur'[d] \in Proc \ {proc} /\ burst'[cur'[d]] = burst[cur[d]]
  BY SMTT(30), <1>1, <1>2, <1>3, <1>4 DEF OnePlace
<1> HIDE DEF CpuPC
<1>6. ASSUME NEW d \in CPU PROVE Share(d)'
  <2>1. Share(d)
    BY DEF SliceInv
  <2>2. CASE d = c
    BY <1>4, <2>2 DEF Share
  <2>3. CASE d # c
    <3>1. /\ time_slot' = time_slot /\ cur'[d] = cur[d] /\ time_left'[d] = time_left[d] /\ cpc'[d] = cpc[d]
      BY <1>3, <1>4, <2>3
    <3>2. cur[d] # NULL => burst'[cur[d]] = burst[cur[d]]
      BY <1>5, <3>1
    <3> QED BY <2>1, <3>1, <3>2, ShareKept
  <2> QED BY <2>2, <2>3
<1>7. \A q \in Proc \ finished' : (\A d \in CPU : cur'[d] # q) => burst'[q] = 0
  BY <1>1, <1>2, <1>3, <1>4 DEF SliceInv
<1>8. burst' \in [Proc -> Nat] /\ (time_slot > 0 => \A q \in Proc : burst'[q] <= time_slot)
  <2>1. time_slot > 0 => \A q \in Proc : burst[q] <= time_slot
    BY DEF SliceInv
  <2>2. CASE burst' = burst
    BY <1>1, <1>3, <2>1, <2>2
  <2>3. CASE burst' = [burst EXCEPT ![proc] = 0]
    BY <1>1, <1>3, <2>1, <2>3
  <2> QED BY <1>3, <2>2, <2>3
<1> QED BY <1>3, <1>6, <1>7, <1>8 DEF SliceInv

LEMMA SliceStep ==
  ASSUME SchedAssumption, OsAssumption, OwnerInv, SliceInv, [Next]_vars
  PROVE  SliceInv'
<1>1. TypeOK /\ QueueInv /\ OnePlace /\ PointsInv /\ NULL \notin Proc /\ cpc \in [CPU -> CpuPC]
  BY DEF OwnerInv, SchedAssumption, TypeOK
<1> USE DEF cpuVars, loaderVars, procVars, history
<1>2. CASE UNCHANGED vars
  <2>1. UNCHANGED <<cur, time_left, time_slot, finished, burst, cpc>>
    BY <1>2 DEF vars
  <2> QED BY <2>1, SliceKept
<1>3. ASSUME NEW c \in CPU,
             \/ IdleSkip(c) \/ IdleGet(c) \/ IdleTakeNothing(c) \/ TakeNothing(c)
             \/ GetEmpty(c) \/ GetNotEmpty(c) \/ Stop(c) \/ SkipSlot(c)
      PROVE  SliceInv'
  <2>1. UNCHANGED <<cur, time_left, time_slot, finished, burst>>
    BY <1>3 DEF IdleSkip, IdleGet, IdleTakeNothing, TakeNothing, GetEmpty, GetNotEmpty, Stop, SkipSlot
  <2>2. \A d \in CPU : cpc'[d] = cpc[d] \/ (cpc[d] # "run" /\ cpc'[d] # "put" /\ cpc'[d] # "run")
    BY <1>1, <1>3
       DEF IdleSkip, IdleGet, IdleTakeNothing, TakeNothing, GetEmpty, GetNotEmpty, Stop, SkipSlot, Goto, CpuAt
  <2> QED BY <2>1, <2>2, SliceKept
<1>4. ASSUME NEW c \in CPU, NEW q \in Proc, IdleTake(c, q) \/ Take(c, q) PROVE SliceInv'
  <2>1. TakeReady(q) /\ Dispatched(c, q) /\ cur[c] = NULL
    BY <1>1, <1>4 DEF IdleTake, Take, CpuAt, PointsInv
  <2>2. Ready(q)
    BY <1>1, <2>1, TakeReadyTakes
  <2>3. q \notin finished /\ \A d \in CPU : cur[d] # q
    <3>1. /\ Ready(q) => q \notin finished
          /\ \A d \in CPU : cur[d] # NULL => ~Ready(cur[d])
      BY <1>1 DEF OnePlace
    <3>2. q # NULL
      BY <1>1
    <3> QED BY <2>2, <3>1, <3>2
  <2> QED BY <1>1, <2>1, <2>3, SliceStarts
<1>5. ASSUME NEW c \in CPU, PutProcList(c) PROVE SliceInv'
  <2>1. UNCHANGED <<cur, time_left, time_slot, finished, burst>> /\ cpc' = [cpc EXCEPT ![c] = "put"]
    BY <1>5 DEF PutProcList, Goto
  <2>2. cur[c] # NULL /\ time_left[c] = 0 /\ cpc[c] = "loop"
    BY <1>5 DEF PutProcList, CpuAt
  <2>3. \A d \in CPU : cpc'[d] = IF d = c THEN "put" ELSE cpc[d]
    BY <1>1, <2>1
  <2>4. time_slot \in Int
    BY <1>1 DEF TypeOK, OsAssumption
  <2>5. time_slot > 0
    <3>1. Share(c)
      BY DEF SliceInv
    <3>2. CASE time_slot <= 0
      BY <2>2, <3>1, <3>2 DEF Share
    <3> QED BY <2>4, <3>2
  <2>6. ASSUME NEW d \in CPU PROVE Share(d)'
    <3>1. Share(d)
      BY DEF SliceInv
    <3>2. CASE d = c
      BY <2>1, <2>2, <2>3, <2>5, <3>1, <3>2 DEF Share
    <3>3. CASE d # c
      BY <2>1, <2>3, <3>1, <3>3, ShareKept
    <3> QED BY <3>2, <3>3
  <2> QED BY <2>1, <2>6 DEF SliceInv
<1>6. CASE Loader \/ SlotEnds
  <2>1. UNCHANGED <<cur, time_left, time_slot, finished, burst, cpc>>
    BY <1>6 DEF Loader, LoaderWait, AddProcList, AddProcReady, LoaderSetDone, LoaderDetach, SlotEnds
  <2> QED BY <2>1, SliceKept
<1>7. ASSUME NEW c \in CPU, Cpu(c) PROVE SliceInv'
  BY <1>3, <1>4, <1>5, <1>7, SliceRuns, SliceEnds DEF Cpu
<1> QED BY <1>2, <1>6, <1>7 DEF Next, Terminated

-----------------------------------------------------------------------------
(* Start times and slots. *)

LEMMA StartStep ==
  ASSUME SchedAssumption, OsAssumption, OwnerInv, StartInv, [Next]_vars
  PROVE  StartInv'
<1>1. /\ time \in Nat /\ i \in Nat /\ Len(order) \in Nat /\ order \in [1 .. Len(order) -> Proc]
      /\ lpc = "add" => i \in 1 .. Len(order)
      /\ \A q \in Proc : start_time[q] \in Int
  BY OrderProperties DEF OwnerInv, TypeOK, PointsInv, OsAssumption
<1> USE DEF clockVars, loaderVars
<1>2. CASE UNCHANGED <<time, lpc, i>>
  BY <1>2 DEF StartInv
<1>3. ASSUME NEW c \in CPU, Cpu(c) PROVE UNCHANGED <<time, lpc, i>>
  BY <1>3 DEF Cpu, IdleSkip, IdleGet, IdleTakeNothing, IdleTake, Dispatched, ProcFinished, PutProcList,
              PutProcReady, GetEmpty, GetNotEmpty, TakeNothing, Take, Stop, SkipSlot, Run, EndSlot,
              Clock!Arrive, Clock!Leave
<1>4. CASE LoaderWait \/ LoaderSetDone \/ LoaderDetach
  <2>1. UNCHANGED <<time, i>> /\ (lpc' # "add" \/ lpc' = lpc)
    BY <1>4 DEF LoaderWait, LoaderSetDone, LoaderDetach, Clock!Arrive, Clock!Leave
  <2> QED BY <2>1 DEF StartInv
<1>5. CASE AddProcList
  BY <1>5 DEF AddProcList, Due, StartInv
<1>6. CASE AddProcReady
  <2>1. /\ i \in 1 .. Len(order) /\ time >= start_time[order[i]]
        /\ time' = time /\ i' = i + 1 /\ lpc' = "load"
    BY <1>1, <1>6 DEF AddProcReady, LoaderAt, StartInv, Clock!Arrive
  <2>2. \A k \in 1 .. i : time >= start_time[order[k]]
    <3>1. \A k \in 1 .. i - 1 : time >= start_time[order[k]]
      BY DEF StartInv
    <3> QED BY <1>1, <2>1, <3>1
  <2> QED BY <1>1, <2>1, <2>2 DEF StartInv
<1>7. CASE SlotEnds
  <2>1. time' \in Nat /\ time' >= time /\ UNCHANGED <<i, lpc>>
    BY <1>1, <1>7 DEF SlotEnds, Clock!Tick
  <2>2. ASSUME NEW k \in 1 .. i - 1 PROVE time' >= start_time[order[k]]
    <3>1. time >= start_time[order[k]]
      BY DEF StartInv
    <3>2. start_time[order[k]] \in Int
      BY <1>1 DEF OwnerInv, TypeOK
    <3> QED BY <1>1, <2>1, <3>1, <3>2
  <2>3. ASSUME lpc = "add" PROVE time' >= start_time[order[i]]
    <3>1. time >= start_time[order[i]]
      BY <2>3 DEF StartInv
    <3>2. start_time[order[i]] \in Int
      BY <1>1, <2>3
    <3> QED BY <1>1, <2>1, <3>1, <3>2
  <2> QED BY <2>1, <2>2, <2>3 DEF StartInv
<1>8. UNCHANGED vars => UNCHANGED <<time, lpc, i>>
  BY DEF vars
<1> QED BY <1>2, <1>3, <1>4, <1>5, <1>6, <1>7, <1>8 DEF Next, Loader, Terminated

LEMMA RanStep ==
  ASSUME SchedAssumption, OwnerInv, RanInv, [Next]_vars
  PROVE  RanInv'
<1>1. cur \in [CPU -> Proc \union {NULL}] /\ at \in [Device -> {"working", "waiting", "gone"}]
  BY DEF OwnerInv, TypeOK
<1> USE DEF clockVars, cpuVars, loaderVars, history, Device
<1>2. ASSUME UNCHANGED <<ran, cur>>, \A c \in CPU : at[c] = "waiting" => at'[c] = "waiting"
      PROVE  RanInv'
  BY <1>2 DEF RanInv
<1>3. ASSUME NEW c \in CPU, at[c] = "working", ran' = ran, \A d \in CPU : d # c => cur'[d] = cur[d],
             at' = at
      PROVE  RanInv'
  BY <1>3 DEF RanInv
<1>4. ASSUME NEW c \in CPU, Run(c) PROVE RanInv'
  <2>1. /\ ran' = ran \union {cur[c]} /\ cur' = cur /\ at[c] = "working"
        /\ at' = [at EXCEPT ![c] = "waiting"]
    BY <1>4 DEF Run, EndSlot, Clock!Arrive
  <2> QED BY <1>1, <2>1 DEF RanInv
<1>5. ASSUME NEW c \in CPU, IdleSkip(c) \/ IdleTakeNothing(c) \/ SkipSlot(c) \/ Stop(c) PROVE RanInv'
  <2>1. UNCHANGED <<ran, cur>> /\ \A d \in CPU : at[d] = "waiting" => at'[d] = "waiting"
    BY <1>1, <1>5 DEF IdleSkip, IdleTakeNothing, SkipSlot, Stop, Clock!Arrive, Clock!Leave
  <2> QED BY <1>2, <2>1
<1>6. ASSUME NEW c \in CPU, IdleGet(c) \/ PutProcList(c) \/ GetEmpty(c) \/ GetNotEmpty(c) \/ TakeNothing(c)
      PROVE  RanInv'
  BY <1>2, <1>6 DEF IdleGet, PutProcList, GetEmpty, GetNotEmpty, TakeNothing
<1>7. ASSUME NEW c \in CPU, ProcFinished(c) \/ PutProcReady(c) \/ \E q \in Proc : IdleTake(c, q) \/ Take(c, q)
      PROVE  RanInv'
  <2>1. at[c] = "working" /\ ran' = ran /\ at' = at
    BY <1>7 DEF ProcFinished, PutProcReady, IdleTake, Take, Dispatched, CpuAt
  <2>2. \A d \in CPU : d # c => cur'[d] = cur[d]
    BY <1>1, <1>7 DEF ProcFinished, PutProcReady, IdleTake, Take, Dispatched
  <2> QED BY <1>3, <2>1, <2>2
<1>8. CASE Loader
  <2>1. UNCHANGED <<ran, cur>> /\ \A d \in CPU : at[d] = "waiting" => at'[d] = "waiting"
    BY <1>1, <1>8 DEF Loader, LoaderWait, AddProcList, AddProcReady, LoaderSetDone, LoaderDetach, LoaderAt,
                      Clock!Arrive, Clock!Leave
  <2> QED BY <1>2, <2>1
<1>9. CASE SlotEnds
  BY <1>9 DEF SlotEnds, RanInv
<1>10. CASE UNCHANGED vars
  BY <1>2, <1>10 DEF vars
<1>11. ASSUME NEW c \in CPU, Cpu(c) PROVE RanInv'
  BY <1>4, <1>5, <1>6, <1>7, <1>11 DEF Cpu
<1> QED BY <1>8, <1>9, <1>10, <1>11 DEF Next, Terminated

-----------------------------------------------------------------------------
(* Where a process is. *)

Located(q) ==
  /\ q \in finished => Where[q] = "finished"
  /\ \A c \in CPU : cur[c] = q => Where[q] = c
  /\ Ready(q) => Where[q] = "ready"
  /\ New(q) => Where[q] = "new"

LEMMA WhereIs ==
  ASSUME SchedAssumption, OnePlace, NEW q \in Proc
  PROVE  Located(q)
<1>1. q # NULL
  BY DEF SchedAssumption
<1>2. q \in finished => Where[q] = "finished"
  BY DEF Where
<1>3. ASSUME NEW c \in CPU, cur[c] = q PROVE Where[q] = c
  <2>1. q \notin finished
    BY <1>1, <1>3 DEF OnePlace
  <2>2. \A d \in CPU : cur[d] = q => d = c
    BY <1>1, <1>3 DEF OnePlace
  <2>3. (CHOOSE d \in CPU : cur[d] = q) = c
    BY <1>3, <2>2
  <2> QED BY <1>3, <2>1, <2>3 DEF Where
<1>4. ASSUME Ready(q) PROVE Where[q] = "ready"
  <2>1. q \notin finished /\ \A c \in CPU : cur[c] # q
    BY <1>1, <1>4 DEF OnePlace
  <2> QED BY <1>4, <2>1 DEF Where
<1>5. ASSUME New(q) PROVE Where[q] = "new"
  <2>1. q \notin finished /\ ~Ready(q) /\ \A c \in CPU : cur[c] # q
    BY <1>1, <1>5 DEF OnePlace
  <2> QED BY <1>5, <2>1 DEF Where
<1> QED BY <1>2, <1>3, <1>4, <1>5 DEF Located

LEMMA AllLocated == OnePlace => \A q \in Proc : Located(q)
BY SchedAssumption, WhereIs

(* q's place is what it was. *)
Stays(q) ==
  /\ q \in finished <=> q \in finished'
  /\ \A c \in CPU : cur[c] = q <=> cur'[c] = q
  /\ Ready(q) <=> Ready(q)'
  /\ New(q) <=> New(q)'

LEMMA StaysWhere ==
  ASSUME NothingLost, NEW q \in Proc, Stays(q), Located(q), Located(q)'
  PROVE  Where'[q] = Where[q]
BY DEF NothingLost, Stays, Located

LEMMA AllStay ==
  ASSUME NothingLost, \A q \in Proc : Located(q) /\ Located(q)' /\ Stays(q)
  PROVE  Where' = Where
<1>1. \A q \in Proc : Where'[q] = Where[q]
  BY StaysWhere
<1> QED BY <1>1 DEF Where

LEMMA OneMoves ==
  ASSUME NothingLost, \A q \in Proc : Located(q) /\ Located(q)',
         NEW proc \in Proc, NEW to, Where'[proc] = to, \A q \in Proc \ {proc} : Stays(q)
  PROVE  Where' = [Where EXCEPT ![proc] = to]
<1>1. \A q \in Proc \ {proc} : Where'[q] = Where[q]
  BY StaysWhere
<1>2. DOMAIN Where = Proc /\ DOMAIN Where' = Proc
  BY DEF Where
<1>3. \A q \in Proc : Where'[q] = [Where EXCEPT ![proc] = to][q]
  BY <1>1, <1>2
<1> QED BY <1>2, <1>3 DEF Where

(* Every step moves one process as ProcOwner allows, or none.               *)
LEMMA OwnerRefined ==
  ASSUME SchedAssumption, OsAssumption, PlacesAssumption, NeverFull, OwnerInv, NothingLost,
         \A q \in Proc : Located(q) /\ Located(q)', [Next]_vars
  PROVE  [Owner!Next]_Where
<1>1. TypeOK /\ QueueInv /\ OnePlace /\ PointsInv /\ NULL \notin Proc
  BY DEF OwnerInv, SchedAssumption
<1>2. /\ cur \in [CPU -> Proc \union {NULL}] /\ finished \subseteq Proc
      /\ order \in [1 .. Len(order) -> Proc] /\ Len(order) \in Nat /\ i \in 1 .. Len(order) + 1
  BY <1>1, OrderProperties DEF TypeOK
<1> USE DEF cpuVars, loaderVars, procVars
<1>3. ASSUME UNCHANGED <<cur, finished, i>>, \A q : Ready(q)' <=> Ready(q)
      PROVE  Where' = Where
  <2>1. \A q \in Proc : Stays(q)
    BY <1>3 DEF Stays, New
  <2> QED BY <2>1, AllStay
<1>4. ASSUME UNCHANGED <<schedVars, cur, finished, i>> PROVE Where' = Where
  BY <1>1, <1>3, <1>4, QueuesUnchanged
<1>5. UNCHANGED vars => UNCHANGED <<schedVars, cur, finished, i>>
  BY DEF vars
<1>6. ASSUME NEW c \in CPU,
             \/ IdleSkip(c) \/ IdleGet(c) \/ GetEmpty(c) \/ GetNotEmpty(c) \/ Stop(c) \/ SkipSlot(c) \/ Run(c)
      PROVE  Where' = Where
  <2>1. UNCHANGED <<schedVars, cur, finished, i>>
    BY <1>6 DEF IdleSkip, IdleGet, GetEmpty, GetNotEmpty, Stop, SkipSlot, Run
  <2> QED BY <1>4, <2>1
<1>7. ASSUME NEW c \in CPU, IdleTakeNothing(c) \/ TakeNothing(c) PROVE Where' = Where
  <2>1. UNCHANGED <<cur, finished, i>> /\ TakeReady(NULL)
    BY <1>7 DEF IdleTakeNothing, TakeNothing
  <2>2. \A q : Ready(q)' <=> Ready(q)
    BY <1>1, <2>1, TakeReadyTakes
  <2> QED BY <1>3, <2>1, <2>2
<1>8. ASSUME NEW c \in CPU, PutProcList(c) PROVE Where' = Where
  <2>1. cur[c] \in Proc /\ ListRunning(cur[c]) /\ UNCHANGED <<cur, finished, i>>
    BY <1>2, <1>8 DEF PutProcList
  <2>2. \A q : Ready(q)' <=> Ready(q)
    BY <1>1, <2>1, ListRunningKeeps
  <2> QED BY <1>3, <2>1, <2>2
<1>9. ASSUME NEW c \in CPU, NEW q \in Proc, IdleTake(c, q) \/ Take(c, q) PROVE Owner!Dispatch(q, c)
  <2>1. TakeReady(q) /\ cur' = [cur EXCEPT ![c] = q] /\ UNCHANGED <<finished, i>> /\ cur[c] = NULL
    BY <1>1, <1>9 DEF IdleTake, Take, CpuAt, PointsInv, Dispatched
  <2>2. Ready(q) /\ ~Ready(q)' /\ \A r : r # q => (Ready(r)' <=> Ready(r))
    BY <1>1, <2>1, TakeReadyTakes
  <2>3. \A d \in CPU : cur'[d] = IF d = c THEN q ELSE cur[d]
    BY <1>2, <2>1
  <2>4. \A r \in Proc \ {q} : Stays(r)
    BY <1>1, <2>1, <2>2, <2>3 DEF Stays, New
  <2>5. Where[q] = "ready" /\ Where'[q] = c
    BY <2>2, <2>3 DEF Located
  <2>6. Where' = [Where EXCEPT ![q] = c]
    BY <2>4, <2>5, OneMoves
  <2>7. \A r \in Proc : Where[r] # c
    BY <1>1, <2>1 DEF NothingLost, Located, PlacesAssumption
  <2> QED BY <2>5, <2>6, <2>7 DEF Owner!Dispatch, Owner!Move
<1>10. ASSUME NEW c \in CPU, ProcFinished(c) PROVE \E q \in Proc : Owner!Finish(q, c)
  <2>1. PICK q \in Proc : q = cur[c]
    BY <1>2, <1>10 DEF ProcFinished
  <2>2. /\ cur' = [cur EXCEPT ![c] = NULL] /\ finished' = finished \union {q} /\ i' = i
        /\ UNCHANGED schedVars
    BY <1>10, <2>1 DEF ProcFinished
  <2>3. \A r : Ready(r)' <=> Ready(r)
    BY <1>1, <2>2, QueuesUnchanged
  <2>4. \A d \in CPU : cur'[d] = IF d = c THEN NULL ELSE cur[d]
    BY <1>2, <2>2
  <2>5. \A r \in Proc \ {q} : Stays(r)
    BY <1>1, <2>1, <2>2, <2>3, <2>4 DEF Stays, New
  <2>6. Where[q] = c /\ Where'[q] = "finished"
    BY <2>1, <2>2 DEF Located
  <2>7. Where' = [Where EXCEPT ![q] = "finished"]
    BY <2>5, <2>6, OneMoves
  <2> QED BY <2>6, <2>7 DEF Owner!Finish, Owner!Move
<1>11. ASSUME NEW c \in CPU, PutProcReady(c) PROVE \E q \in Proc : Owner!Preempt(q, c)
  <2>1. PICK q \in Proc : q = cur[c]
    BY <1>1, <1>2, <1>11 DEF PutProcReady, CpuAt, PointsInv
  <2>2. MakeReady(q) /\ cur' = [cur EXCEPT ![c] = NULL] /\ UNCHANGED <<finished, i>>
    BY <1>11, <2>1 DEF PutProcReady
  <2>3. ~Ready(q)
    BY <1>1, <2>1 DEF OnePlace
  <2>4. Ready(q)' /\ \A r : r # q => (Ready(r)' <=> Ready(r))
    BY <1>1, <2>2, <2>3, MakeReadyAdds DEF NeverFull
  <2>5. \A d \in CPU : cur'[d] = IF d = c THEN NULL ELSE cur[d]
    BY <1>2, <2>2
  <2>6. \A r \in Proc \ {q} : Stays(r)
    BY <1>1, <2>1, <2>2, <2>4, <2>5 DEF Stays, New
  <2>7. Where[q] = c /\ Where'[q] = "ready"
    BY <2>1, <2>4 DEF Located
  <2>8. Where' = [Where EXCEPT ![q] = "ready"]
    BY <2>6, <2>7, OneMoves
  <2> QED BY <2>7, <2>8 DEF Owner!Preempt, Owner!Move
<1>12. ASSUME LoaderWait \/ LoaderSetDone \/ LoaderDetach \/ SlotEnds PROVE Where' = Where
  <2>1. UNCHANGED <<schedVars, cur, finished, i>>
    BY <1>12 DEF LoaderWait, LoaderSetDone, LoaderDetach, SlotEnds
  <2> QED BY <1>4, <2>1
<1>13. ASSUME AddProcList PROVE Where' = Where
  <2>1. i <= Len(order) /\ ListRunning(order[i]) /\ UNCHANGED <<cur, finished, i>>
    BY <1>13 DEF AddProcList
  <2>2. \A q : Ready(q)' <=> Ready(q)
    BY <1>1, <1>2, <2>1, ListRunningKeeps
  <2> QED BY <1>3, <2>1, <2>2
<1>14. ASSUME AddProcReady PROVE \E q \in Proc : Owner!Submit(q)
  <2>1. /\ i \in 1 .. Len(order) /\ MakeReady(order[i]) /\ i' = i + 1
        /\ UNCHANGED <<cur, finished>>
    BY <1>1, <1>2, <1>14 DEF AddProcReady, LoaderAt, PointsInv
  <2>2. PICK q \in Proc : q = order[i]
    BY <1>2, <2>1
  <2>3. New(q)
    BY <1>2, <2>1, <2>2 DEF New
  <2>4. ~Ready(q)
    BY <1>1, <2>3 DEF OnePlace
  <2>5. Ready(q)' /\ \A r : r # q => (Ready(r)' <=> Ready(r))
    BY <1>1, <2>1, <2>2, <2>4, MakeReadyAdds DEF NeverFull
  <2>6. \A r \in Proc : New(r)' <=> New(r) /\ r # q
    BY <2>1, <2>2, NewProperties
  <2>7. \A r \in Proc \ {q} : Stays(r)
    BY <2>1, <2>5, <2>6 DEF Stays
  <2>8. Where[q] = "new" /\ Where'[q] = "ready"
    BY <2>3, <2>5 DEF Located
  <2>9. Where' = [Where EXCEPT ![q] = "ready"]
    BY <2>7, <2>8, OneMoves
  <2> QED BY <2>8, <2>9 DEF Owner!Submit, Owner!Move
<1>15. ASSUME NEW c \in CPU, Cpu(c) PROVE Owner!Next \/ Where' = Where
  BY <1>6, <1>7, <1>8, <1>9, <1>10, <1>11, <1>15 DEF Cpu, Owner!Next
<1>16. ASSUME Loader PROVE Owner!Next \/ Where' = Where
  BY <1>12, <1>13, <1>14, <1>16 DEF Loader, Owner!Next
<1> QED BY <1>4, <1>5, <1>12, <1>15, <1>16 DEF Next, Terminated

-----------------------------------------------------------------------------
(* What has been used of a turn. *)

(* The time slices a process needs, and those of all processes of level p.  *)
Slices(q, ts) == {k \in 0 .. program[q] : k = 0 \/ (ts > 0 /\ k * ts < program[q])}

Work(p, ts) == UNION {{q} \X Slices(q, ts) : q \in {r \in Proc : prio[r] = p}}

(* Level p can be run to its end within one turn. *)
FitsTurn(p) == \A ts \in TimeSlots : IsFiniteSet(Work(p, ts)) /\ Cardinality(Work(p, ts)) <= slot(p)

(* q has been dispatched for the slice that starts where its pc is. *)
Entered(q) ==
  /\ ~Ready(q)
  /\ ~New(q)
  /\ program[q] = 0 \/ \E c \in CPU : cur[c] = q /\ cpc[c] = "run"

SliceBegun(q, k) == k * time_slot < pc[q] \/ (k * time_slot = pc[q] /\ Entered(q))

Begun(p) == {w \in Work(p, time_slot) : SliceBegun(w[1], w[2])}

(* A process that is ready has another slice to run.                        *)
AtSlice(q) == \E k \in Slices(q, time_slot) : pc[q] = k * time_slot

AlignInv ==
  /\ \A q \in Proc : New(q) => pc[q] = 0
  /\ \A q \in Proc : Ready(q) => AtSlice(q)
  /\ \A c \in CPU : cpc[c] \in {"put", "run"} => AtSlice(cur[c])
  /\ \A c \in CPU : cpc[c] = "put" => pc[cur[c]] < program[cur[c]]
  /\ \A c \in CPU : cur[c] # NULL /\ time_slot > 0 /\ program[cur[c]] > 0 =>
       \E k \in Nat : pc[cur[c]] = k * time_slot + burst[cur[c]]

(* Each dispatch of the turn has been for a slice of its own.               *)
UsedInv == curr_prio # 0 /\ FitsTurn(curr_prio) => slot(curr_prio) - curr_slot <= Cardinality(Begun(curr_prio))

(* A step that brings no process forward and makes none ready.              *)
LEMMA AlignKept ==
  ASSUME AlignInv, UNCHANGED <<pc, time_slot, burst>>,
         \A q \in Proc : (New(q)' => New(q)) /\ (Ready(q)' => Ready(q)),
         \A c \in CPU : /\ cpc'[c] \in {"put", "run"} => cpc'[c] = cpc[c] /\ cur'[c] = cur[c]
                        /\ cur'[c] # NULL => cur'[c] = cur[c]
  PROVE  AlignInv'
<1>1. \A q : AtSlice(q)' <=> AtSlice(q)
  BY DEF AtSlice
<1> QED BY <1>1 DEF AlignInv

(* The slice after one that was used up.                                    *)
LEMMA NextSlice ==
  ASSUME NEW ts \in Nat \ {0}, NEW k \in Nat, NEW q, program[q] \in Nat, k * ts + ts < program[q]
  PROVE  /\ k + 1 \in Slices(q, ts)
         /\ (k + 1) * ts = k * ts + ts
<1>1. (k + 1) * ts = k * ts + ts
  OBVIOUS
<1>2. k * ts \in Nat /\ k <= k * ts
  OBVIOUS
<1>3. k + 1 \in 0 .. program[q]
  BY <1>2
<1> QED BY <1>1, <1>3 DEF Slices

LEMMA FirstSlice ==
  ASSUME NEW ts \in Int, NEW q, program[q] \in Nat
  PROVE  0 \in Slices(q, ts) /\ 0 * ts = 0
BY DEF Slices

(* A process with a slice to run and a program is not at its end.           *)
LEMMA SliceAhead ==
  ASSUME OsAssumption, OwnerInv, NEW q \in Proc, AtSlice(q), program[q] > 0
  PROVE  pc[q] < program[q]
<1>1. time_slot \in Int /\ program[q] \in Nat /\ 0 * time_slot = 0
  BY DEF OsAssumption, OwnerInv, TypeOK
<1> QED BY <1>1 DEF AtSlice, Slices

LEMMA AlignStep ==
  ASSUME SchedAssumption, OsAssumption, OwnerInv, SliceInv, AlignInv, [Next]_vars
  PROVE  AlignInv'
<1>1. /\ TypeOK /\ QueueInv /\ OnePlace /\ PointsInv /\ NULL \notin Proc
      /\ cur \in [CPU -> Proc \union {NULL}] /\ cpc \in [CPU -> CpuPC]
      /\ time_slot \in Int /\ pc \in [Proc -> Nat] /\ program \in [Proc -> Nat] /\ burst \in [Proc -> Nat]
      /\ \A q \in Proc : pc[q] <= program[q]
      /\ \A c, d \in CPU : cur[c] = cur[d] /\ cur[c] # NULL => c = d
      /\ order \in [1 .. Len(order) -> Proc] /\ Len(order) \in Nat /\ i \in 1 .. Len(order) + 1
  BY OrderProperties DEF OwnerInv, TypeOK, SchedAssumption, OsAssumption, SliceInv, OnePlace
<1> USE DEF cpuVars, loaderVars, procVars, history
<1>2. ASSUME UNCHANGED <<pc, time_slot, burst, cur, i>>, \A q : Ready(q)' <=> Ready(q),
             \A c \in CPU : cpc'[c] = cpc[c] \/ cpc'[c] \notin {"put", "run"}
      PROVE  AlignInv'
  <2>1. \A q \in Proc : New(q)' <=> New(q)
    BY <1>2 DEF New
  <2> QED BY <1>2, <2>1, AlignKept
<1>3. CASE UNCHANGED vars
  <2>1. UNCHANGED <<pc, time_slot, burst, cur, i, cpc, schedVars>>
    BY <1>3 DEF vars
  <2> QED BY <1>1, <1>2, <2>1, QueuesUnchanged
<1>4. ASSUME NEW c \in CPU,
             \/ IdleSkip(c) \/ IdleGet(c) \/ GetEmpty(c) \/ GetNotEmpty(c) \/ Stop(c) \/ SkipSlot(c)
      PROVE  AlignInv'
  <2>1. /\ UNCHANGED <<schedVars, pc, time_slot, burst, cur, i>>
        /\ \A d \in CPU : cpc'[d] = cpc[d] \/ cpc'[d] \notin {"put", "run"}
    BY <1>1, <1>4 DEF IdleSkip, IdleGet, GetEmpty, GetNotEmpty, Stop, SkipSlot, Goto
  <2> QED BY <1>1, <1>2, <2>1, QueuesUnchanged
<1>5. ASSUME NEW c \in CPU, IdleTakeNothing(c) \/ TakeNothing(c) PROVE AlignInv'
  <2>1. /\ UNCHANGED <<pc, time_slot, burst, cur, i>> /\ TakeReady(NULL)
        /\ \A d \in CPU : cpc'[d] = cpc[d] \/ cpc'[d] \notin {"put", "run"}
    BY <1>1, <1>5 DEF IdleTakeNothing, TakeNothing, Goto
  <2> QED BY <1>1, <1>2, <2>1, TakeReadyTakes
<1>6. ASSUME NEW c \in CPU, NEW q \in Proc, IdleTake(c, q) \/ Take(c, q) PROVE AlignInv'
  <2>1. /\ TakeReady(q) /\ UNCHANGED <<pc, time_slot, burst, i>>
        /\ cur' = [cur EXCEPT ![c] = q] /\ cpc' = [cpc EXCEPT ![c] = "run"]
    BY <1>6 DEF IdleTake, Take, Dispatched, Goto
  <2>2. Ready(q) /\ \A r : Ready(r)' => Ready(r)
    BY <1>1, <2>1, TakeReadyTakes
  <2>3. \A r \in Proc : New(r)' <=> New(r)
    BY <2>1 DEF New
  <2>4. \A r : AtSlice(r)' <=> AtSlice(r)
    BY <2>1 DEF AtSlice
  <2>5. burst[q] = 0
    <3>1. q \notin finished /\ \A d \in CPU : cur[d] # q
      BY <1>1, <2>2 DEF OnePlace
    <3> QED BY <3>1 DEF SliceInv
  <2>6. PICK k \in Slices(q, time_slot) : pc[q] = k * time_slot
    BY <2>2 DEF AlignInv, AtSlice
  <2>7. k \in Nat /\ pc[q] = k * time_slot + burst[q]
    BY <1>1, <2>5, <2>6 DEF Slices
  <2>8. \A d \in CPU : /\ cur'[d] = IF d = c THEN q ELSE cur[d]
                       /\ cpc'[d] = IF d = c THEN "run" ELSE cpc[d]
    BY <1>1, <2>1
  <2>9. AtSlice(q)
    BY <2>2 DEF AlignInv
  <2>10. \A r \in Proc : (New(r)' => pc'[r] = 0) /\ (Ready(r)' => AtSlice(r)')
    BY <2>1, <2>2, <2>3, <2>4 DEF AlignInv
  <2>11. \A d \in CPU : /\ cpc'[d] \in {"put", "run"} => AtSlice(cur'[d])
                        /\ cpc'[d] = "put" => pc[cur'[d]] < program[cur'[d]]
    BY <2>8, <2>9 DEF AlignInv
  <2>12. \A d \in CPU : cur'[d] # NULL /\ time_slot > 0 /\ program[cur'[d]] > 0 =>
           \E j \in Nat : pc[cur'[d]] = j * time_slot + burst[cur'[d]]
    BY <2>7, <2>8 DEF AlignInv
  <2>13. UNCHANGED <<pc, time_slot, burst>>
    BY <2>1
  <2>14. \A d \in CPU : cpc'[d] \in {"put", "run"} => AtSlice(cur[d])'
    BY <2>11, <2>13 DEF AtSlice
  <2> QED BY <2>10, <2>11, <2>12, <2>13, <2>14 DEF AlignInv
<1>7. ASSUME NEW c \in CPU, ProcFinished(c) PROVE AlignInv'
  <2>1. /\ UNCHANGED <<schedVars, pc, time_slot, burst, i>>
        /\ cur' = [cur EXCEPT ![c] = NULL] /\ cpc' = [cpc EXCEPT ![c] = "get"]
    BY <1>7 DEF ProcFinished, Goto
  <2>2. \A q \in Proc : (New(q)' <=> New(q)) /\ (Ready(q)' <=> Ready(q))
    BY <1>1, <2>1, QueuesUnchanged DEF New
  <2>3. \A d \in CPU : /\ cur'[d] = IF d = c THEN NULL ELSE cur[d]
                       /\ cpc'[d] = IF d = c THEN "get" ELSE cpc[d]
    BY <1>1, <2>1
  <2> QED BY <2>1, <2>2, <2>3, AlignKept
<1>8. ASSUME NEW c \in CPU, PutProcList(c) PROVE AlignInv'
  <2>1. PICK q \in Proc : q = cur[c]
    BY <1>1, <1>8 DEF PutProcList
  <2>2. /\ UNCHANGED <<pc, time_slot, burst, i, cur>> /\ cpc[c] = "loop" /\ ListRunning(q)
        /\ cpc' = [cpc EXCEPT ![c] = "put"] /\ time_left[c] = 0 /\ pc[q] # program[q]
    BY <1>8, <2>1 DEF PutProcList, Goto, CpuAt, HasFinished
  <2>3. \A r \in Proc : (New(r)' <=> New(r)) /\ (Ready(r)' <=> Ready(r))
    BY <1>1, <2>1, <2>2, ListRunningKeeps DEF New
  <2>4. time_slot > 0 /\ burst[q] = time_slot
    <3>1. Share(c) /\ cur[c] = q /\ q # NULL /\ burst[q] \in Nat
      BY <1>1, <2>1 DEF SliceInv
    <3>2. CASE time_slot > 0
      BY <1>1, <2>2, <3>1, <3>2 DEF Share
    <3>3. CASE time_slot <= 0
      BY <2>2, <3>1, <3>3 DEF Share
    <3> QED BY <1>1, <3>2, <3>3
  <2>5. pc[q] < program[q] /\ program[q] > 0
    BY <1>1, <2>2
  <2>6. PICK k \in Nat : pc[q] = k * time_slot + time_slot
    BY <1>1, <2>1, <2>4, <2>5 DEF AlignInv
  <2>7. AtSlice(q)
    <3>1. time_slot \in Nat \ {0} /\ program[q] \in Nat /\ k * time_slot + time_slot < program[q]
      BY <1>1, <2>4, <2>5, <2>6
    <3>2. k + 1 \in Slices(q, time_slot) /\ (k + 1) * time_slot = pc[q]
      BY <2>6, <3>1, NextSlice
    <3> QED BY <3>2 DEF AtSlice
  <2>8. \A r : AtSlice(r)' <=> AtSlice(r)
    BY <2>2 DEF AtSlice
  <2>9. \A d \in CPU : cpc'[d] = IF d = c THEN "put" ELSE cpc[d]
    BY <1>1, <2>2
  <2> QED BY <2>1, <2>2, <2>3, <2>5, <2>7, <2>8, <2>9 DEF AlignInv
<1>9. ASSUME NEW c \in CPU, PutProcReady(c) PROVE AlignInv'
  <2>1. PICK q \in Proc : q = cur[c]
    BY <1>1, <1>9 DEF PutProcReady, CpuAt, PointsInv
  <2>2. /\ UNCHANGED <<pc, time_slot, i>> /\ cpc[c] = "put" /\ MakeReady(q)
        /\ cpc' = [cpc EXCEPT ![c] = "get"] /\ cur' = [cur EXCEPT ![c] = NULL]
        /\ burst' = [burst EXCEPT ![q] = 0]
    BY <1>9, <2>1 DEF PutProcReady, Goto, CpuAt
  <2>3. \A r : r # q => (Ready(r)' <=> Ready(r))
    BY <1>1, <2>1, <2>2, MakeReadyAdds DEF OnePlace
  <2>4. \A r : (AtSlice(r)' <=> AtSlice(r)) /\ (New(r)' <=> New(r))
    BY <2>2 DEF AtSlice, New
  <2>5. AtSlice(q)
    BY <2>1, <2>2 DEF AlignInv
  <2>6. \A d \in CPU : /\ cur'[d] = IF d = c THEN NULL ELSE cur[d]
                       /\ cpc'[d] = IF d = c THEN "get" ELSE cpc[d]
                       /\ d # c => cur[d] # q
    BY <1>1, <2>1, <2>2
  <2>7. \A r \in Proc : r # q => burst'[r] = burst[r]
    BY <1>1, <2>2
  <2>8. \A d \in CPU : cur'[d] # NULL /\ time_slot > 0 /\ program[cur'[d]] > 0 =>
          \E k \in Nat : pc[cur'[d]] = k * time_slot + burst'[cur'[d]]
    <3> SUFFICES ASSUME NEW d \in CPU, cur'[d] # NULL, time_slot > 0, program[cur'[d]] > 0
                 PROVE  \E k \in Nat : pc[cur'[d]] = k * time_slot + burst'[cur'[d]]
      OBVIOUS
    <3>1. PICK r \in Proc : r = cur[d] /\ r = cur'[d] /\ r # q
      BY <1>1, <2>6
    <3>2. \E k \in Nat : pc[r] = k * time_slot + burst[r]
      BY <1>1, <3>1 DEF AlignInv
    <3>3. burst'[r] = burst[r]
      BY <2>7, <3>1
    <3> QED BY <3>1, <3>2, <3>3
  <2> QED BY <2>2, <2>3, <2>4, <2>5, <2>6, <2>8 DEF AlignInv
<1>10. ASSUME NEW c \in CPU, Run(c) PROVE AlignInv'
  <2>1. PICK q \in Proc : q = cur[c]
    BY <1>1, <1>10 DEF Run, CpuAt, PointsInv
  <2>2. /\ UNCHANGED <<schedVars, time_slot, i, cur>> /\ cpc' = [cpc EXCEPT ![c] = "loop"]
        /\ pc' = [pc EXCEPT ![q] = IF @ < program[q] THEN @ + 1 ELSE @]
        /\ burst' = [burst EXCEPT ![q] = @ + 1]
        /\ cpc[c] = "run" \/ pc[q] # program[q]
    BY <1>10, <2>1 DEF Run, Goto, CpuAt, Execute, HasFinished
  <2>3. \A r : (Ready(r)' <=> Ready(r)) /\ (New(r)' <=> New(r))
    BY <1>1, <2>2, QueuesUnchanged DEF New
  <2>4. ~Ready(q) /\ ~New(q) /\ \A d \in CPU : d # c => cur[d] # q
    BY <1>1, <2>1 DEF OnePlace
  <2>5. \A r \in Proc : r # q => pc'[r] = pc[r] /\ burst'[r] = burst[r]
    BY <1>1, <2>2
  <2>6. \A r \in Proc : r # q => (AtSlice(r)' <=> AtSlice(r))
    BY <2>2, <2>5 DEF AtSlice
  <2>7. ASSUME time_slot > 0, program[q] > 0 PROVE \E k \in Nat : pc'[q] = k * time_slot + burst'[q]
    <3>1. pc[q] < program[q]
      BY <1>1, <2>1, <2>2, <2>7, SliceAhead DEF AlignInv
    <3>2. pc'[q] = pc[q] + 1 /\ burst'[q] = burst[q] + 1
      BY <1>1, <2>2, <3>1
    <3>3. PICK k \in Nat : pc[q] = k * time_slot + burst[q]
      BY <1>1, <2>1, <2>7 DEF AlignInv
    <3>4. pc'[q] = k * time_slot + burst'[q]
      BY <1>1, <3>2, <3>3
    <3> QED BY <3>4
  <2>8. \A d \in CPU : cpc'[d] = IF d = c THEN "loop" ELSE cpc[d]
    BY <1>1, <2>2
  <2>9. /\ \A r \in Proc : New(r)' => pc'[r] = 0
        /\ \A r \in Proc : Ready(r)' => AtSlice(r)'
    BY <2>3, <2>4, <2>5, <2>6 DEF AlignInv
  <2>10. \A d \in CPU : cpc'[d] \in {"put", "run"} => cur[d] \in Proc \ {q}
    BY <1>1, <2>4, <2>8 DEF PointsInv
  <2>11. /\ \A d \in CPU : cpc'[d] \in {"put", "run"} => AtSlice(cur[d])'
         /\ \A d \in CPU : cpc'[d] = "put" => pc'[cur'[d]] < program[cur'[d]]
    <3> SUFFICES ASSUME NEW d \in CPU, cpc'[d] \in {"put", "run"}
                 PROVE  AtSlice(cur[d])' /\ (cpc'[d] = "put" => pc'[cur'[d]] < program[cur'[d]])
      OBVIOUS
    <3>1. cur'[d] = cur[d] /\ cur[d] \in Proc \ {q} /\ cpc'[d] = cpc[d]
      BY <2>2, <2>8, <2>10
    <3>2. AtSlice(cur[d]) /\ (cpc[d] = "put" => pc[cur[d]] < program[cur[d]])
      BY <3>1 DEF AlignInv
    <3>3. PICK r \in Proc : r = cur[d] /\ r = cur'[d] /\ r # q
      BY <3>1
    <3>4. AtSlice(r)' /\ pc'[r] = pc[r]
      BY <2>5, <2>6, <3>2, <3>3
    <3>5. AtSlice(cur[d])' <=> AtSlice(r)'
      BY <3>3 DEF AtSlice
    <3> QED BY <3>1, <3>2, <3>3, <3>4, <3>5
  <2>12. \A d \in CPU : cur'[d] # NULL /\ time_slot > 0 /\ program[cur'[d]] > 0 =>
           \E k \in Nat : pc'[cur'[d]] = k * time_slot + burst'[cur'[d]]
    <3> SUFFICES ASSUME NEW d \in CPU, cur[d] # NULL, time_slot > 0, program[cur[d]] > 0
                 PROVE  \E k \in Nat : pc'[cur[d]] = k * time_slot + burst'[cur[d]]
      BY <2>2
    <3>1. CASE cur[d] = q
      BY <2>7, <3>1
    <3>2. CASE cur[d] # q
      <4>1. PICK r \in Proc : r = cur[d] /\ r # q
        BY <1>1, <3>2
      <4>2. \E k \in Nat : pc[r] = k * time_slot + burst[r]
        BY <1>1, <4>1 DEF AlignInv
      <4>3. pc'[r] = pc[r] /\ burst'[r] = burst[r]
        BY <2>5, <4>1
      <4> QED BY <4>1, <4>2, <4>3
    <3> QED BY <3>1, <3>2
  <2>13. time_slot' = time_slot
    BY <2>2
  <2> QED BY <2>9, <2>11, <2>12, <2>13 DEF AlignInv
<1>11. CASE LoaderWait \/ LoaderSetDone \/ LoaderDetach \/ SlotEnds
  <2>1. UNCHANGED <<schedVars, pc, time_slot, burst, cur, i, cpc>>
    BY <1>11 DEF LoaderWait, LoaderSetDone, LoaderDetach, SlotEnds
  <2> QED BY <1>1, <1>2, <2>1, QueuesUnchanged
<1>12. CASE AddProcList
  <2>1. i <= Len(order) /\ ListRunning(order[i]) /\ UNCHANGED <<pc, time_slot, burst, cur, i, cpc>>
    BY <1>12 DEF AddProcList
  <2>2. order[i] \in Proc
    BY <1>1, <2>1
  <2>3. \A q : Ready(q)' <=> Ready(q)
    BY <1>1, <2>1, <2>2, ListRunningKeeps
  <2> QED BY <1>2, <2>1, <2>3
<1>13. CASE AddProcReady
  <2>1. /\ i \in 1 .. Len(order) /\ MakeReady(order[i]) /\ i' = i + 1
        /\ UNCHANGED <<pc, time_slot, burst, cur, cpc>>
    BY <1>1, <1>13 DEF AddProcReady, LoaderAt, PointsInv
  <2>2. PICK q \in Proc : q = order[i]
    BY <1>1, <2>1
  <2>3. New(q)
    BY <1>1, <2>1, <2>2 DEF New
  <2>4. \A r \in Proc : New(r)' => New(r)
    BY <2>1, NewProperties
  <2>5. \A r : r # q => (Ready(r)' <=> Ready(r))
    BY <1>1, <2>1, <2>2, <2>3, MakeReadyAdds DEF OnePlace
  <2>6. AtSlice(q)
    BY <1>1, <2>3, FirstSlice DEF AlignInv, AtSlice
  <2>7. \A r : AtSlice(r)' <=> AtSlice(r)
    BY <2>1 DEF AtSlice
  <2> QED BY <2>1, <2>4, <2>5, <2>6, <2>7 DEF AlignInv
<1>14. ASSUME NEW c \in CPU, Cpu(c) PROVE AlignInv'
  BY <1>14, <1>4, <1>5, <1>6, <1>7, <1>8, <1>9, <1>10 DEF Cpu
<1> QED BY <1>3, <1>11, <1>12, <1>13, <1>14 DEF Next, Loader, Terminated

(* No process loses a slice that has begun: pc only grows, and a process    *)
(* dispatched is not ready again before it has run.                         *)
Forward(q) == pc[q] <= pc'[q] /\ (Entered(q) => Entered(q)' \/ pc[q] < pc'[q])

LEMMA ForwardKept ==
  ASSUME OwnerInv, NEW q \in Proc, pc'[q] = pc[q], Entered(q) => ~Ready(q)', New(q)' => New(q),
         \A c \in CPU : cpc[c] = "run" /\ cur[c] = q => cpc'[c] = "run" /\ cur'[c] = q
  PROVE  Forward(q)
<1>1. pc[q] \in Nat
  BY DEF OwnerInv, TypeOK
<1> QED BY <1>1 DEF Forward, Entered

LEMMA ForwardStep ==
  ASSUME SchedAssumption, OsAssumption, OwnerInv, AlignInv, [Next]_vars
  PROVE  \A q \in Proc : Forward(q)
<1>1. /\ TypeOK /\ QueueInv /\ OnePlace /\ PointsInv /\ NULL \notin Proc
      /\ cur \in [CPU -> Proc \union {NULL}] /\ cpc \in [CPU -> CpuPC]
      /\ pc \in [Proc -> Nat] /\ program \in [Proc -> Nat]
      /\ order \in [1 .. Len(order) -> Proc] /\ Len(order) \in Nat /\ i \in 1 .. Len(order) + 1
  BY OrderProperties DEF OwnerInv, TypeOK, SchedAssumption, OsAssumption, OnePlace
<1> USE DEF cpuVars, loaderVars, procVars, history
<1>2. ASSUME UNCHANGED <<pc, cur, i>>, \A q : Ready(q)' <=> Ready(q),
             \A c \in CPU : cpc'[c] = cpc[c] \/ cpc[c] # "run", NEW q \in Proc
      PROVE  Forward(q)
  <2>1. New(q)' <=> New(q)
    BY <1>2 DEF New
  <2>2. Entered(q) => ~Ready(q)'
    BY <1>2 DEF Entered
  <2> QED BY <1>2, <2>1, <2>2, ForwardKept
<1>3. ASSUME UNCHANGED vars, NEW q \in Proc PROVE Forward(q)
  <2>1. UNCHANGED <<pc, cur, i, cpc, schedVars>>
    BY <1>3 DEF vars
  <2> QED BY <1>1, <1>2, <2>1, QueuesUnchanged
<1>4. ASSUME NEW c \in CPU, NEW q \in Proc,
             \/ IdleSkip(c) \/ IdleGet(c) \/ GetEmpty(c) \/ GetNotEmpty(c) \/ Stop(c) \/ SkipSlot(c)
      PROVE  Forward(q)
  <2>1. /\ UNCHANGED <<schedVars, pc, cur, i>>
        /\ \A d \in CPU : cpc'[d] = cpc[d] \/ cpc[d] # "run"
    BY <1>1, <1>4 DEF IdleSkip, IdleGet, GetEmpty, GetNotEmpty, Stop, SkipSlot, Goto, CpuAt
  <2> QED BY <1>1, <1>2, <2>1, QueuesUnchanged
<1>5. ASSUME NEW c \in CPU, NEW q \in Proc, IdleTakeNothing(c) \/ TakeNothing(c) PROVE Forward(q)
  <2>1. /\ UNCHANGED <<pc, cur, i>> /\ TakeReady(NULL)
        /\ \A d \in CPU : cpc'[d] = cpc[d] \/ cpc[d] # "run"
    BY <1>1, <1>5 DEF IdleTakeNothing, TakeNothing, Goto, CpuAt
  <2> QED BY <1>1, <1>2, <2>1, TakeReadyTakes
<1>6. ASSUME NEW c \in CPU, NEW r \in Proc, NEW q \in Proc, IdleTake(c, r) \/ Take(c, r) PROVE Forward(q)
  <2>1. /\ TakeReady(r) /\ UNCHANGED <<pc, i>> /\ cpc[c] # "run"
        /\ cur' = [cur EXCEPT ![c] = r] /\ cpc' = [cpc EXCEPT ![c] = "run"]
    BY <1>6 DEF IdleTake, Take, Dispatched, Goto, CpuAt
  <2>2. Ready(q)' => Ready(q)
    BY <1>1, <2>1, TakeReadyTakes
  <2>3. New(q)' <=> New(q)
    BY <2>1 DEF New
  <2>4. Entered(q) => ~Ready(q)'
    BY <2>2 DEF Entered
  <2>5. \A d \in CPU : cpc[d] = "run" => cpc'[d] = "run" /\ cur'[d] = cur[d]
    BY <1>1, <2>1
  <2> QED BY <2>1, <2>3, <2>4, <2>5, ForwardKept
<1>7. ASSUME NEW c \in CPU, NEW q \in Proc, ProcFinished(c) \/ PutProcList(c) PROVE Forward(q)
  <2>1. /\ UNCHANGED <<pc, i>> /\ cpc[c] # "run" /\ \A d \in CPU \ {c} : cpc'[d] = cpc[d] /\ cur'[d] = cur[d]
    BY <1>1, <1>7 DEF ProcFinished, PutProcList, Goto, CpuAt
  <2>2. Ready(q)' <=> Ready(q)
    <3>1. CASE ProcFinished(c)
      BY <1>1, <3>1, QueuesUnchanged DEF ProcFinished
    <3>2. CASE PutProcList(c)
      <4>1. cur[c] \in Proc /\ ListRunning(cur[c])
        BY <1>1, <3>2 DEF PutProcList
      <4> QED BY <1>1, <4>1, ListRunningKeeps
    <3> QED BY <1>7, <3>1, <3>2
  <2>3. New(q)' <=> New(q)
    BY <2>1 DEF New
  <2>4. Entered(q) => ~Ready(q)'
    BY <2>2 DEF Entered
  <2> QED BY <2>1, <2>3, <2>4, ForwardKept
<1>8. ASSUME NEW c \in CPU, NEW q \in Proc, PutProcReady(c) PROVE Forward(q)
  <2>1. PICK r \in Proc : r = cur[c]
    BY <1>1, <1>8 DEF PutProcReady, CpuAt, PointsInv
  <2>2. /\ UNCHANGED <<pc, i>> /\ cpc[c] = "put" /\ MakeReady(r)
        /\ \A d \in CPU \ {c} : cpc'[d] = cpc[d] /\ cur'[d] = cur[d]
    BY <1>1, <1>8, <2>1 DEF PutProcReady, Goto, CpuAt
  <2>3. ~Ready(r) /\ \A s : s # r => (Ready(s)' <=> Ready(s))
    BY <1>1, <2>1, <2>2, MakeReadyAdds DEF OnePlace
  <2>4. ~Entered(r)
    <3>1. program[r] > 0
      BY <1>1, <2>1, <2>2 DEF AlignInv
    <3>2. \A d \in CPU : cur[d] = r => cpc[d] # "run"
      BY <1>1, <2>1, <2>2 DEF OnePlace
    <3> QED BY <3>1, <3>2 DEF Entered
  <2>5. Entered(q) => ~Ready(q)'
    BY <2>3, <2>4 DEF Entered
  <2>6. New(q)' <=> New(q)
    BY <2>2 DEF New
  <2>7. \A d \in CPU : cpc[d] = "run" => cpc'[d] = "run" /\ cur'[d] = cur[d]
    BY <2>2
  <2> QED BY <2>2, <2>5, <2>6, <2>7, ForwardKept
<1>9. ASSUME NEW c \in CPU, NEW q \in Proc, Run(c) PROVE Forward(q)
  <2>1. PICK r \in Proc : r = cur[c]
    BY <1>1, <1>9 DEF Run, CpuAt, PointsInv
  <2>2. /\ UNCHANGED <<schedVars, i, cur>> /\ cpc' = [cpc EXCEPT ![c] = "loop"]
        /\ pc' = [pc EXCEPT ![r] = IF @ < program[r] THEN @ + 1 ELSE @]
        /\ cpc[c] = "run" \/ pc[r] # program[r]
    BY <1>9, <2>1 DEF Run, Goto, CpuAt, Execute, HasFinished
  <2>3. (Ready(q)' <=> Ready(q)) /\ (New(q)' <=> New(q))
    BY <1>1, <2>2, QueuesUnchanged DEF New
  <2>4. CASE q # r
    <3>1. pc'[q] = pc[q] /\ \A d \in CPU : cur[d] = q => cpc'[d] = cpc[d] /\ cur'[d] = cur[d]
      BY <1>1, <2>1, <2>2, <2>4
    <3>2. Entered(q) => ~Ready(q)'
      BY <2>3 DEF Entered
    <3> QED BY <2>2, <2>3, <3>1, <3>2, ForwardKept
  <2>5. CASE q = r /\ program[q] = 0
    <3>1. pc'[q] >= pc[q]
      BY <1>1, <2>2, <2>5
    <3> QED BY <1>1, <2>3, <2>5, <3>1 DEF Forward, Entered
  <2>6. CASE q = r /\ program[q] > 0
    <3>1. pc[q] < program[q]
      <4>1. CASE cpc[c] = "run"
        <5>1. AtSlice(q)
          BY <2>1, <2>6, <4>1 DEF AlignInv
        <5> QED BY <2>6, <5>1, SliceAhead
      <4>2. CASE pc[q] # program[q]
        BY <1>1, <4>2 DEF TypeOK
      <4> QED BY <2>2, <2>6, <4>1, <4>2
    <3>2. pc'[q] = pc[q] + 1
      BY <1>1, <2>2, <2>6, <3>1
    <3> QED BY <1>1, <3>2 DEF Forward
  <2> QED BY <1>1, <2>4, <2>5, <2>6
<1>10. ASSUME NEW q \in Proc, LoaderWait \/ LoaderSetDone \/ LoaderDetach \/ SlotEnds PROVE Forward(q)
  <2>1. UNCHANGED <<schedVars, pc, cur, i, cpc>>
    BY <1>10 DEF LoaderWait, LoaderSetDone, LoaderDetach, SlotEnds
  <2> QED BY <1>1, <1>2, <2>1, QueuesUnchanged
<1>11. ASSUME NEW q \in Proc, AddProcList PROVE Forward(q)
  <2>1. i <= Len(order) /\ ListRunning(order[i]) /\ UNCHANGED <<pc, cur, i, cpc>>
    BY <1>11 DEF AddProcList
  <2>2. order[i] \in Proc
    BY <1>1, <2>1
  <2> QED BY <1>1, <1>2, <2>1, <2>2, ListRunningKeeps
<1>12. ASSUME NEW q \in Proc, AddProcReady PROVE Forward(q)
  <2>1. /\ i \in 1 .. Len(order) /\ MakeReady(order[i]) /\ i' = i + 1
        /\ UNCHANGED <<pc, cur, cpc>>
    BY <1>1, <1>12 DEF AddProcReady, LoaderAt, PointsInv
  <2>2. PICK r \in Proc : r = order[i]
    BY <1>1, <2>1
  <2>3. New(r) /\ (New(q)' => New(q))
    <3>1. New(r)
      BY <1>1, <2>1, <2>2 DEF New
    <3> QED BY <2>1, <3>1, NewProperties
  <2>4. \A s : s # r => (Ready(s)' <=> Ready(s))
    BY <1>1, <2>1, <2>2, <2>3, MakeReadyAdds DEF OnePlace
  <2>5. Entered(q) => ~Ready(q)'
    BY <2>3, <2>4 DEF Entered
  <2> QED BY <2>1, <2>3, <2>5, ForwardKept
<1>13. ASSUME NEW c \in CPU, NEW q \in Proc, Cpu(c) PROVE Forward(q)
  BY <1>13, <1>4, <1>5, <1>6, <1>7, <1>8, <1>9 DEF Cpu
<1> SUFFICES ASSUME NEW q \in Proc PROVE Forward(q)
  OBVIOUS
<1>14. CASE Loader
  BY <1>14, <1>10, <1>11, <1>12 DEF Loader
<1>15. CASE UNCHANGED vars
  BY <1>15, <1>3
<1>16. CASE Next
  <2>1. CASE \E c \in CPU : Cpu(c)
    BY <2>1, <1>13
  <2>2. CASE SlotEnds
    BY <2>2, <1>10
  <2>3. CASE Terminated
    BY <2>3, <1>15 DEF Terminated
  <2> QED BY <1>14, <1>16, <2>1, <2>2, <2>3 DEF Next
<1> QED BY <1>15, <1>16

(* The slices of a level that have begun only become more. *)
LEMMA BegunGrows ==
  ASSUME OsAssumption, OwnerInv, OwnerInv', time_slot' = time_slot, NEW p,
         IsFiniteSet(Work(p, time_slot)), \A q \in Proc : Forward(q)
  PROVE  /\ Begun(p) \subseteq Begun(p)'
         /\ IsFiniteSet(Begun(p)) /\ IsFiniteSet(Begun(p)')
         /\ Cardinality(Begun(p)) <= Cardinality(Begun(p)')
<1>1. /\ \A q \in Proc : pc[q] \in Nat /\ pc'[q] \in Nat
      /\ time_slot \in Int
  BY DEF OwnerInv, TypeOK, OsAssumption
<1>2. ASSUME NEW q \in Proc, NEW k \in Int, SliceBegun(q, k) PROVE SliceBegun(q, k)'
  <2>1. k * time_slot \in Int
    BY <1>1
  <2> HIDE DEF Entered
  <2> QED BY <1>1, <1>2, <2>1 DEF SliceBegun, Forward
<1>3. Work(p, time_slot) \subseteq Proc \X Int
  BY DEF Work, Slices
<1>4. Begun(p) \subseteq Begun(p)'
  BY <1>2, <1>3 DEF Begun
<1>5. Begun(p)' \in SUBSET Work(p, time_slot)
  BY DEF Begun
<1>6. IsFiniteSet(Begun(p)')
  BY <1>5, FS_Subset
<1> QED BY <1>4, <1>6, FS_Subset

(* A dispatch begins a slice that had not begun. *)
LEMMA OneMoreBegun ==
  ASSUME SchedAssumption, OsAssumption, OwnerInv, OwnerInv', AlignInv, time_slot' = time_slot,
         NEW q \in Proc, IsFiniteSet(Work(prio[q], time_slot)), \A r \in Proc : Forward(r),
         Ready(q), pc'[q] = pc[q], NEW c \in CPU, cur'[c] = q, cpc'[c] = "run"
  PROVE  Cardinality(Begun(prio[q])) + 1 <= Cardinality(Begun(prio[q])')
<1> DEFINE p == prio[q]
           old == Begun(p)
           new == Begun(p)'
<1>1. PICK k \in Slices(q, time_slot) : pc[q] = k * time_slot
  BY DEF AlignInv, AtSlice
<1>2. <<q, k>> \in Work(p, time_slot)
  BY <1>1 DEF Work
<1>3. pc[q] \in Nat /\ time_slot \in Int /\ NULL \notin Proc
  BY DEF OwnerInv, TypeOK, OsAssumption, SchedAssumption
<1>4. <<q, k>> \notin old
  BY <1>1, <1>3 DEF Begun, SliceBegun, Entered
<1>5. Entered(q)'
  <2>1. ~Ready(q)' /\ ~New(q)'
    BY <1>3 DEF OwnerInv, OnePlace
  <2> QED BY <2>1 DEF Entered
<1>6. <<q, k>> \in new
  BY <1>1, <1>2, <1>5 DEF Begun, SliceBegun
<1>7. old \subseteq new /\ IsFiniteSet(old) /\ IsFiniteSet(new)
  BY BegunGrows
<1> HIDE DEF old, new
<1>8. Cardinality(old \union {<<q, k>>}) = Cardinality(old) + 1
  BY <1>4, <1>7, FS_AddElement
<1>9. old \union {<<q, k>>} \in SUBSET new
  BY <1>6, <1>7
<1>10. Cardinality(old \union {<<q, k>>}) <= Cardinality(new)
  BY <1>7, <1>9, FS_Subset
<1>11. Cardinality(old) + 1 <= Cardinality(new)
  BY <1>8, <1>10
<1> QED BY <1>11 DEF old, new

LEMMA UsedStep ==
  ASSUME SchedAssumption, OsAssumption, OwnerInv, OwnerInv', AlignInv, UsedInv, [Next]_vars
  PROVE  UsedInv'
<1>1. PICK p \in Level : p = curr_prio'
  BY DEF OwnerInv, TypeOK, SchedTypeOK
<1> SUFFICES ASSUME p # 0, FitsTurn(p)
             PROVE  slot(p) - curr_slot' <= Cardinality(Begun(p)')
  BY <1>1 DEF UsedInv, Begun, SliceBegun, Entered, New, Ready
<1>2. /\ QueueInv /\ NULL \notin Proc /\ curr_slot \in Nat /\ curr_slot' \in Nat
      /\ p \in Nat /\ slot(p) \in Int /\ time_slot \in TimeSlots
  BY DEF OwnerInv, TypeOK, SchedTypeOK, SchedAssumption, slot, Level
<1>3. IsFiniteSet(Work(p, time_slot)) /\ \A q \in Proc : Forward(q)
  BY <1>2, ForwardStep DEF FitsTurn
<1>4. ASSUME Begun(p) \subseteq Begun(p)', IsFiniteSet(Begun(p)), IsFiniteSet(Begun(p)')
      PROVE  Cardinality(Begun(p)) \in Nat /\ Cardinality(Begun(p)') \in Nat
  BY <1>4, FS_CardinalityType
<1>5. ASSUME UNCHANGED <<curr_prio, curr_slot, time_slot>>
      PROVE  slot(p) - curr_slot' <= Cardinality(Begun(p)')
  <2>1. /\ Cardinality(Begun(p)) <= Cardinality(Begun(p)')
        /\ Cardinality(Begun(p)) \in Nat /\ Cardinality(Begun(p)') \in Nat
    BY <1>3, <1>4, <1>5, BegunGrows
  <2>2. slot(p) - curr_slot <= Cardinality(Begun(p))
    BY <1>1, <1>5 DEF UsedInv
  <2> QED BY <1>2, <1>5, <2>1, <2>2
<1>6. ASSUME NEW c \in CPU, NEW q \in Proc, IdleTake(c, q) \/ Take(c, q)
      PROVE  slot(p) - curr_slot' <= Cardinality(Begun(p)')
  <2>1. TakeReady(q) /\ UNCHANGED <<pc, time_slot>> /\ cur' = [cur EXCEPT ![c] = q] /\ cpc' = [cpc EXCEPT ![c] = "run"]
    BY <1>6 DEF IdleTake, Take, Dispatched, Goto, loaderVars, procVars
  <2>2. cur'[c] = q /\ cpc'[c] = "run"
    BY <2>1 DEF OwnerInv, TypeOK
  <2>3. /\ Ready(q) /\ prio[q] = p
        /\ (p = curr_prio /\ curr_slot' = curr_slot - 1) \/ curr_slot' = slot(p) - 1
    BY <1>1, <1>2, <2>1, TakeReadyTakes, TakenInTurn
  <2>4. PICK old \in Nat, new \in Nat : old = Cardinality(Begun(p)) /\ new = Cardinality(Begun(p)')
    BY <1>3, <1>4, <2>1, BegunGrows
  <2>5. old + 1 <= new
    BY <1>3, <2>1, <2>2, <2>3, <2>4, OneMoreBegun
  <2>6. CASE p = curr_prio /\ curr_slot' = curr_slot - 1
    <3>1. slot(p) - curr_slot <= old
      BY <2>4, <2>6 DEF UsedInv
    <3>2. slot(p) - curr_slot' <= new
      BY <1>2, <2>5, <2>6, <3>1
    <3> QED BY <2>4, <3>2
  <2>7. CASE curr_slot' = slot(p) - 1
    <3>1. slot(p) - curr_slot' <= new
      BY <1>2, <2>5, <2>7
    <3> QED BY <2>4, <3>1
  <2> QED BY <2>3, <2>6, <2>7
<1>7. ASSUME NEW c \in CPU, IdleTakeNothing(c) \/ TakeNothing(c) PROVE FALSE
  BY <1>1, <1>2, <1>7, NothingTaken DEF IdleTakeNothing, TakeNothing
<1>8. ASSUME NEW c \in CPU,
             \/ IdleSkip(c) \/ IdleGet(c) \/ ProcFinished(c) \/ PutProcList(c) \/ PutProcReady(c)
             \/ GetEmpty(c) \/ GetNotEmpty(c) \/ Stop(c) \/ SkipSlot(c) \/ Run(c)
      PROVE  UNCHANGED <<curr_prio, curr_slot, time_slot>>
  BY <1>8 DEF IdleSkip, IdleGet, ProcFinished, PutProcList, PutProcReady, GetEmpty, GetNotEmpty, Stop, SkipSlot,
              Run, ListRunning, MakeReady, schedVars, loaderVars
<1>9. CASE Loader \/ SlotEnds \/ UNCHANGED vars
  <2>1. UNCHANGED <<curr_prio, curr_slot, time_slot>>
    BY <1>9 DEF Loader, LoaderWait, AddProcList, AddProcReady, LoaderSetDone, LoaderDetach, SlotEnds,
                ListRunning, MakeReady, vars, schedVars, loaderVars
  <2> QED BY <1>5, <2>1
<1>10. ASSUME NEW c \in CPU, Cpu(c) PROVE slot(p) - curr_slot' <= Cardinality(Begun(p)')
  BY <1>5, <1>6, <1>7, <1>8, <1>10 DEF Cpu
<1> QED BY <1>9, <1>10 DEF Next, Terminated

(* A level whose turn has ended and that fits a turn has no process ready.  *)
LEMMA TurnFits ==
  ASSUME SchedAssumption, OsAssumption, OwnerInv, AlignInv, UsedInv, curr_slot = 0, curr_prio # 0, FitsTurn(curr_prio),
         NEW q \in Proc, Ready(q)
  PROVE  prio[q] # curr_prio
<1> SUFFICES ASSUME prio[q] = curr_prio PROVE FALSE
  OBVIOUS
<1> DEFINE work == Work(curr_prio, time_slot)
           begun == Begun(curr_prio)
<1>1. PICK k \in Slices(q, time_slot) : pc[q] = k * time_slot
  BY DEF AlignInv, AtSlice
<1>2. <<q, k>> \in work
  BY <1>1 DEF Work
<1>3. pc[q] \in Nat /\ time_slot \in TimeSlots /\ slot(curr_prio) \in Int
  BY DEF OwnerInv, TypeOK, SchedTypeOK, Level, slot, SchedAssumption
<1>4. <<q, k>> \notin begun
  BY <1>1, <1>3 DEF Begun, SliceBegun, Entered
<1>5. IsFiniteSet(work) /\ Cardinality(work) <= slot(curr_prio)
  BY <1>3 DEF FitsTurn
<1>6. slot(curr_prio) <= Cardinality(begun)
  BY <1>3 DEF UsedInv
<1>7. begun \in SUBSET (work \ {<<q, k>>})
  BY <1>4 DEF Begun
<1> HIDE DEF work, begun
<1>8. IsFiniteSet(work \ {<<q, k>>}) /\ Cardinality(work \ {<<q, k>>}) = Cardinality(work) - 1
  BY <1>2, <1>5, FS_RemoveElement
<1>9. IsFiniteSet(begun) /\ Cardinality(begun) <= Cardinality(work) - 1
  BY <1>7, <1>8, FS_Subset
<1>10. Cardinality(begun) \in Nat /\ Cardinality(work) \in Nat
  BY <1>5, <1>9, FS_CardinalityType
<1> QED BY <1>3, <1>5, <1>6, <1>9, <1>10

LEMMA TurnsInit ==
  ASSUME SchedAssumption, OsAssumption, Init
  PROVE  AlignInv /\ UsedInv
<1>1. /\ \A q : ~Ready(q)
      /\ \A q \in Proc : pc[q] = 0
      /\ \A c \in CPU : cpc[c] = "loop" /\ cur[c] = NULL
      /\ curr_prio = 0
  BY QueuesInit DEF Init, InitScheduler
<1> QED BY <1>1 DEF AlignInv, UsedInv

-----------------------------------------------------------------------------
(* The end. *)

(* Everything is loaded, and that not in this slot. *)
LoaderPast == i > Len(order) /\ at[loader] # "waiting"

(* What is ready is of one level, which needs more than a turn. *)
ReadyOneLevel == \A q, r \in Proc : Ready(q) /\ Ready(r) =>
  prio[q] = prio[r] /\ prio[q] # 0 /\ ~FitsTurn(prio[q])

(* A CPU that stops has asked for a process in this slot, and so after the  *)
(* last one was added.                                                      *)
StopInv ==
  /\ done => LoaderPast
  /\ \A c \in CPU : at[c] = "gone" => done /\ cpc[c] = "recheck"
  /\ \A c \in CPU : at[c] = "waiting" => cpc[c] = "loop"
  /\ LoaderPast /\ (\A c \in CPU : cpc[c] = "recheck") => ReadyOneLevel

(* A step of CPU c, which ends at a place and a program point. *)
LEMMA CpuStopKept ==
  ASSUME OsAssumption, OwnerInv, StopInv, NEW c \in CPU, NEW place, NEW label,
         UNCHANGED <<done, i>>,
         at' = [at EXCEPT ![c] = place], cpc' = [cpc EXCEPT ![c] = label],
         place = "gone" => done /\ label = "recheck",
         place = "waiting" => label = "loop",
         label = "recheck" => \/ ReadyOneLevel'
                              \/ cpc[c] = "recheck" /\ \A q : Ready(q)' <=> Ready(q)
  PROVE  StopInv'
<1>1. /\ at \in [Device -> {"working", "waiting", "gone"}] /\ cpc \in [CPU -> CpuPC]
      /\ c # loader /\ c \in Device /\ loader \in Device /\ CPU \subseteq Device
  BY DEF OwnerInv, TypeOK, OsAssumption, Device
<1>2. LoaderPast' <=> LoaderPast
  BY <1>1 DEF LoaderPast
<1>3. \A d \in CPU : /\ at'[d] = IF d = c THEN place ELSE at[d]
                     /\ cpc'[d] = IF d = c THEN label ELSE cpc[d]
  BY <1>1
<1>4. /\ \A d \in CPU : at'[d] = "gone" => done' /\ cpc'[d] = "recheck"
      /\ \A d \in CPU : at'[d] = "waiting" => cpc'[d] = "loop"
  BY <1>3 DEF StopInv
<1>5. ASSUME LoaderPast', \A d \in CPU : cpc'[d] = "recheck" PROVE ReadyOneLevel'
  <2>1. CASE cpc[c] = "recheck" /\ \A q : Ready(q)' <=> Ready(q)
    <3>1. \A d \in CPU : cpc[d] = "recheck"
      BY <1>3, <1>5, <2>1
    <3>2. ReadyOneLevel
      BY <1>2, <1>5, <3>1 DEF StopInv
    <3> QED BY <2>1, <3>2 DEF ReadyOneLevel
  <2> QED BY <1>3, <1>5, <2>1
<1> QED BY <1>2, <1>4, <1>5 DEF StopInv

(* The order of the loader's last add_proc, of done and of the CPUs' last   *)
(* get_proc is kept by every step.                                          *)
LEMMA StopStep ==
  ASSUME SchedAssumption, OsAssumption, CPU # {}, OwnerInv, AlignInv, UsedInv, StopInv, [Next]_vars
  PROVE  StopInv'
<1>1. /\ at \in [Device -> {"working", "waiting", "gone"}] /\ cpc \in [CPU -> CpuPC]
      /\ TypeOK /\ QueueInv /\ PointsInv /\ loader \in Device /\ CPU \subseteq Device /\ loader \notin CPU
      /\ Len(order) \in Nat /\ i \in Nat /\ done \in BOOLEAN
  BY OrderProperties DEF OwnerInv, TypeOK, OsAssumption, Device
<1>2. ASSUME UNCHANGED <<done, i, at, cpc>>, \A q : Ready(q)' <=> Ready(q) PROVE StopInv'
  <2>1. (LoaderPast' <=> LoaderPast) /\ (ReadyOneLevel' <=> ReadyOneLevel)
    BY <1>2 DEF LoaderPast, ReadyOneLevel
  <2> QED BY <1>2, <2>1 DEF StopInv
<1>3. CASE UNCHANGED vars
  <2>1. UNCHANGED <<done, i, at, cpc, schedVars>>
    BY <1>3 DEF vars, clockVars, cpuVars, loaderVars
  <2> QED BY <1>1, <1>2, <2>1, QueuesUnchanged
<1>4. ASSUME NEW c \in CPU, Cpu(c) PROVE StopInv'
  <2>1. at[c] = "working" /\ UNCHANGED <<done, i>> /\ at = [at EXCEPT ![c] = "working"]
    <3>1. at[c] = "working" /\ UNCHANGED <<done, i>>
      BY <1>4 DEF Cpu, IdleSkip, IdleGet, IdleTakeNothing, IdleTake, ProcFinished, PutProcList, PutProcReady,
                  GetEmpty, GetNotEmpty, TakeNothing, Take, Stop, SkipSlot, Run, CpuAt, loaderVars, Dispatched
    <3> QED BY <1>1, <3>1
  <2>2. CASE IdleSkip(c)
    <3>1. cpc[c] = "loop" /\ at' = [at EXCEPT ![c] = "waiting"] /\ cpc' = cpc
      BY <2>2 DEF IdleSkip, CpuAt, Clock!Arrive, cpuVars
    <3>2. cpc' = [cpc EXCEPT ![c] = "loop"]
      BY <1>1, <3>1
    <3> QED BY <2>1, <3>1, <3>2, CpuStopKept
  <2>3. CASE IdleGet(c) \/ ProcFinished(c) \/ PutProcList(c) \/ PutProcReady(c) \/ GetNotEmpty(c)
    <3>1. at' = at /\ \E label \in {"idle_take", "get", "put", "take"} : cpc' = [cpc EXCEPT ![c] = label]
      BY <2>3 DEF IdleGet, ProcFinished, PutProcList, PutProcReady, GetNotEmpty, Goto, clockVars
    <3> QED BY <2>1, <3>1, CpuStopKept
  <2>4. CASE \E q \in Proc : IdleTake(c, q) \/ Take(c, q)
    <3>1. at' = at /\ cpc' = [cpc EXCEPT ![c] = "run"]
      BY <2>4 DEF IdleTake, Take, Dispatched, Goto, clockVars
    <3> QED BY <2>1, <3>1, CpuStopKept
  <2>5. CASE IdleTakeNothing(c) \/ SkipSlot(c) \/ Run(c)
    <3>1. at' = [at EXCEPT ![c] = "waiting"] /\ cpc' = [cpc EXCEPT ![c] = "loop"]
      BY <2>5 DEF IdleTakeNothing, SkipSlot, Run, Goto, EndSlot, Clock!Arrive
    <3> QED BY <2>1, <3>1, CpuStopKept
  <2>6. CASE GetEmpty(c)
    <3>1. at' = at /\ cpc' = [cpc EXCEPT ![c] = "recheck"] /\ UNCHANGED schedVars /\ QueueEmpty
      BY <2>6 DEF GetEmpty, Goto, clockVars
    <3>2. \A q : ~Ready(q)
      BY <3>1 DEF QueueEmpty, Ready, empty
    <3>3. ReadyOneLevel'
      BY <1>1, <3>1, <3>2, QueuesUnchanged DEF ReadyOneLevel
    <3> QED BY <2>1, <3>1, <3>3, CpuStopKept
  <2>7. CASE TakeNothing(c)
    <3>1. at' = at /\ cpc' = [cpc EXCEPT ![c] = "recheck"] /\ TakeReady(NULL)
      BY <2>7 DEF TakeNothing, Goto, clockVars
    <3>2. ASSUME NEW q \in Proc, Ready(q)' PROVE prio[q] = curr_prio /\ curr_prio # 0 /\ ~FitsTurn(prio[q])
      <4>1. Ready(q) /\ prio[q] = curr_prio /\ curr_prio # 0 /\ curr_slot = 0
        BY <1>1, <3>1, <3>2, TakeReadyTakes, NothingTaken
      <4>2. ~FitsTurn(curr_prio)
        BY <4>1, TurnFits
      <4> QED BY <4>1, <4>2
    <3>3. ReadyOneLevel'
      <4>1. \A q, r \in Proc : Ready(q)' /\ Ready(r)' => prio[q] = prio[r] /\ prio[q] # 0 /\ ~FitsTurn(prio[q])
        BY <3>2
      <4> QED BY <4>1 DEF ReadyOneLevel
    <3> QED BY <2>1, <3>1, <3>3, CpuStopKept
  <2>8. CASE Stop(c)
    <3>1. /\ cpc[c] = "recheck" /\ done /\ at' = [at EXCEPT ![c] = "gone"] /\ cpc' = cpc /\ UNCHANGED schedVars
      BY <2>8 DEF Stop, CpuAt, LoaderDone, Clock!Leave, cpuVars
    <3>2. cpc' = [cpc EXCEPT ![c] = "recheck"] /\ \A q : Ready(q)' <=> Ready(q)
      BY <1>1, <3>1, QueuesUnchanged
    <3> QED BY <2>1, <3>1, <3>2, CpuStopKept
  <2> QED BY <1>4, <2>2, <2>3, <2>4, <2>5, <2>6, <2>7, <2>8 DEF Cpu
<1>5. CASE AddProcList
  <2>1. UNCHANGED <<done, i, at, cpc>> /\ i <= Len(order) /\ ListRunning(order[i])
    BY <1>5 DEF AddProcList, clockVars, cpuVars
  <2>2. order[i] \in Proc
    BY <1>1, <2>1, OrderProperties DEF TypeOK
  <2> QED BY <1>1, <1>2, <2>1, <2>2, ListRunningKeeps
<1>6. CASE LoaderWait \/ AddProcReady
  <2>1. /\ at' = [at EXCEPT ![loader] = "waiting"] /\ done' = done /\ cpc' = cpc /\ i <= Len(order)
    BY <1>1, <1>6 DEF LoaderWait, AddProcReady, LoaderAt, PointsInv, Clock!Arrive, cpuVars
  <2>2. ~LoaderPast /\ ~LoaderPast' /\ \A c \in CPU : at'[c] = at[c]
    BY <1>1, <2>1 DEF LoaderPast
  <2> QED BY <2>1, <2>2 DEF StopInv
<1>7. CASE LoaderSetDone \/ LoaderDetach
  <2>1. /\ cpc' = cpc /\ i' = i /\ UNCHANGED schedVars /\ at[loader] = "working"
        /\ at' = at \/ at' = [at EXCEPT ![loader] = "gone"]
        /\ done' # done => i > Len(order)
    BY <1>7 DEF LoaderSetDone, LoaderDetach, LoaderAt, Clock!Leave, clockVars, cpuVars, loaderVars
  <2>2. (LoaderPast' <=> LoaderPast) /\ \A c \in CPU : at'[c] = at[c]
    BY <1>1, <2>1 DEF LoaderPast
  <2>3. done' => LoaderPast'
    BY <2>1, <2>2 DEF LoaderPast, StopInv
  <2>4. ReadyOneLevel' <=> ReadyOneLevel
    BY <1>1, <2>1, QueuesUnchanged DEF ReadyOneLevel
  <2>5. done => done'
    BY <1>7 DEF LoaderSetDone, LoaderDetach
  <2> QED BY <2>1, <2>2, <2>3, <2>4, <2>5 DEF StopInv
<1>8. CASE SlotEnds
  <2>1. /\ at' = [d \in Device |-> IF at[d] = "waiting" THEN "working" ELSE at[d]]
        /\ \A d \in Device : at[d] # "working"
        /\ UNCHANGED <<schedVars, done, cpc, i>>
    BY <1>8 DEF SlotEnds, Clock!Tick, cpuVars, loaderVars
  <2>2. \A d \in Device : at'[d] = IF at[d] = "waiting" THEN "working" ELSE at[d]
    BY <2>1
  <2>3. LoaderPast => LoaderPast'
    BY <1>1, <2>1, <2>2 DEF LoaderPast
  <2>4. /\ \A c \in CPU : at'[c] = "gone" => done' /\ cpc'[c] = "recheck"
        /\ \A c \in CPU : at'[c] # "waiting"
    BY <1>1, <2>1, <2>2 DEF StopInv
  <2>5. ReadyOneLevel' <=> ReadyOneLevel
    BY <1>1, <2>1, QueuesUnchanged DEF ReadyOneLevel
  <2>6. (\A c \in CPU : cpc[c] = "recheck") => done
    BY <1>1, <2>1 DEF StopInv
  <2> QED BY <2>1, <2>3, <2>4, <2>5, <2>6 DEF StopInv
<1>9. CASE Terminated
  BY <1>3, <1>9 DEF Terminated
<1> QED BY <1>3, <1>4, <1>5, <1>6, <1>7, <1>8, <1>9 DEF Next, Loader

LEMMA StopInit ==
  ASSUME SchedAssumption, OsAssumption, Init
  PROVE  StopInv
<1>1. \A q : ~Ready(q)
  BY QueuesInit DEF Init
<1>2. \A c \in CPU : at[c] = "working"
  BY DEF Init, Clock!Init, Device
<1> QED BY <1>1, <1>2 DEF Init, StopInv, ReadyOneLevel

(* What is left when all CPUs have stopped is in the queues. *)
LEMMA StoppedReady ==
  ASSUME SchedAssumption, OsAssumption, OwnerInv, NothingLost, StopInv, CPU # {},
         \A c \in CPU : at[c] = "gone"
  PROVE  ReadyOneLevel /\ \A q \in Proc \ finished : Ready(q)
<1>1. /\ i > Len(order) /\ i \in Nat /\ Len(order) \in Nat /\ NULL \notin Proc
      /\ \A c \in CPU : cpc[c] = "recheck" /\ cur[c] = NULL
      /\ ReadyOneLevel
  BY OrderProperties DEF OwnerInv, TypeOK, PointsInv, StopInv, LoaderPast, SchedAssumption
<1>2. \A q \in Proc : ~New(q)
  BY <1>1 DEF New
<1> QED BY <1>1, <1>2 DEF NothingLost

-----------------------------------------------------------------------------
(* The theorems. *)

(* In every reachable state the queues, the CPUs, the loader and finished   *)
(* share the processes out, none of them in two places (sched.c, os.c).     *)
THEOREM OwnerCorrect == Spec => []OwnerInv
<1>1. Init => OwnerInv
  BY SchedAssumption, OsAssumption, OwnerInit
<1>2. OwnerInv /\ [Next]_vars => OwnerInv'
  BY SchedAssumption, OsAssumption, OwnerStep
<1> QED BY <1>1, <1>2, PTL DEF Spec

(* Every variable keeps its type in every reachable state: i stays inside    *)
(* order's bounds and pc inside the program of its process.                 *)
THEOREM TypeCorrect == Spec => []TypeOK
<1>1. OwnerInv => TypeOK
  BY DEF OwnerInv
<1> QED BY <1>1, OwnerCorrect, PTL

(* A process keeps its CPU for exactly a time slice unless it finishes,     *)
(* whatever other CPUs do with the queues: what cpu_routine has in time_left *)
(* is what remains of the slice of the process it has.                      *)
THEOREM SlicesExact == Spec => []ExactSlice
<1>1. Init => SliceInv
  BY OsAssumption, SliceInit
<1>2. OwnerInv /\ SliceInv /\ [Next]_vars => SliceInv'
  BY SchedAssumption, OsAssumption, SliceStep
<1>3. OwnerInv /\ SliceInv => ExactSlice
  <2> SUFFICES ASSUME OwnerInv, SliceInv
               PROVE  ExactSlice
    OBVIOUS
  <2>1. time_slot > 0 => \A q \in Proc : burst[q] <= time_slot
    BY DEF SliceInv
  <2>2. ASSUME NEW c \in CPU, cpc[c] = "put"
        PROVE  time_slot > 0 /\ burst[cur[c]] = time_slot
    <3>1. Share(c)
      BY DEF SliceInv
    <3>2. cur[c] # NULL /\ cur[c] \in Proc
      BY <2>2 DEF OwnerInv, PointsInv, TypeOK
    <3>3. burst[cur[c]] \in Nat
      BY <3>2 DEF SliceInv
    <3>4. time_slot > 0 /\ time_left[c] = 0 /\ burst[cur[c]] + time_left[c] = time_slot
      BY <2>2, <3>1, <3>2 DEF Share
    <3> QED BY <3>3, <3>4
  <2> QED BY <2>1, <2>2 DEF ExactSlice
<1> QED BY <1>1, <1>2, <1>3, OwnerCorrect, PTL DEF Spec

(* The loader makes no process ready, and so no CPU runs one, before the    *)
(* start_time the configuration gives it (ld_routine's wait loop).          *)
THEOREM StartsRespected == Spec => []NotBeforeStart
<1>1. Init => StartInv
  BY OsAssumption DEF Init, StartInv
<1>2. OwnerInv /\ StartInv /\ [Next]_vars => StartInv'
  BY SchedAssumption, OsAssumption, StartStep
<1>3. OwnerInv /\ StartInv => NotBeforeStart
  <2> SUFFICES ASSUME OwnerInv, StartInv, NEW q \in Proc, Where[q] # "new"
               PROVE  time >= start_time[q]
    BY DEF NotBeforeStart
  <2>1. ~New(q)
    BY AllLocated DEF OwnerInv, Located
  <2>2. PICK k \in 1 .. Len(order) : order[k] = q
    BY OsAssumption, OrderProperties
  <2>3. k \in 1 .. i - 1
    <3>1. Len(order) \in Nat /\ i \in 1 .. Len(order) + 1
      BY OsAssumption, OrderProperties DEF OwnerInv, TypeOK
    <3>2. k \notin i .. Len(order)
      BY <2>1, <2>2 DEF New
    <3> QED BY <3>1, <3>2
  <2> QED BY <2>2, <2>3 DEF StartInv
<1> QED BY <1>1, <1>2, <1>3, OwnerCorrect, PTL DEF Spec

(* No process runs twice in one slot: one that ran is still on its CPU,     *)
(* which waits for the next slot.                                           *)
THEOREM OneRunPerSlot == Spec => OneInstructionPerSlot
<1>1. Init => RanInv
  BY DEF Init, RanInv
<1>2. OwnerInv /\ RanInv /\ [Next]_vars => RanInv'
  BY SchedAssumption, RanStep
<1>3. OwnerInv /\ RanInv => \A c \in CPU : Run(c) => cur[c] \notin ran
  <2> SUFFICES ASSUME OwnerInv, RanInv, NEW c \in CPU, Run(c), cur[c] \in ran
               PROVE  FALSE
    OBVIOUS
  <2>1. at[c] = "working" /\ cur[c] # NULL
    BY DEF Run, CpuAt, OwnerInv, PointsInv
  <2>2. PICK d \in CPU : cur[d] = cur[c] /\ at[d] = "waiting"
    BY DEF RanInv
  <2> QED BY <2>1, <2>2 DEF OwnerInv, OnePlace
<1> QED BY <1>1, <1>2, <1>3, OwnerCorrect, PTL DEF Spec, OneInstructionPerSlot

(* When every queue has room for the processes of its level, the scheduler, *)
(* the CPUs and the loader implement ProcOwner: a process is handed from    *)
(* one to the next, on one CPU at most, and is never lost.                  *)
THEOREM OwnersImplemented ==
  ASSUME NeverFull
  PROVE  Spec => ImplementsOwner
<1>1. Init => NothingLost /\ Owner!Init
  <2> SUFFICES ASSUME Init
               PROVE  NothingLost /\ Owner!Init
    OBVIOUS
  <2>1. OwnerInv /\ NothingLost /\ \A q \in Proc : New(q)
    BY SchedAssumption, OsAssumption, OwnerInit
  <2>2. \A q \in Proc : Where[q] = "new"
    BY <2>1, AllLocated DEF OwnerInv, Located
  <2> QED BY <2>1, <2>2 DEF Owner!Init, Where
<1>2. OwnerInv /\ NothingLost /\ [Next]_vars => NothingLost'
  BY SchedAssumption, OsAssumption, NeverFull, OwnerStep
<1>3. OwnerInv => \A q \in Proc : Located(q)
  BY AllLocated DEF OwnerInv
<1>4. /\ OwnerInv /\ NothingLost /\ [Next]_vars
      /\ (\A q \in Proc : Located(q)) /\ (\A q \in Proc : Located(q))'
      => [Owner!Next]_Where
  BY SchedAssumption, OsAssumption, PlacesAssumption, NeverFull, OwnerRefined
<1> QED BY <1>1, <1>2, <1>3, <1>4, OwnerCorrect, PTL DEF Spec, ImplementsOwner, Owner!Spec

(* When all CPUs have stopped, what is left unfinished is of one level, not *)
(* the first, whose processes need more dispatches than one turn has: the   *)
(* turn of that level had ended when the last CPU asked for a process.  No  *)
(* race of CPUs and loader on done leaves a process behind.                 *)
OnlyTurnsStrand == (\A c \in CPU : at[c] = "gone") =>
  \A q, r \in Proc \ finished : prio[q] = prio[r] /\ prio[q] # 0 /\ ~FitsTurn(prio[q])

THEOREM StrandedAtTurnEnd ==
  ASSUME NeverFull, CPU # {}
  PROVE  Spec => []OnlyTurnsStrand
<1> DEFINE Inv == SliceInv /\ AlignInv /\ UsedInv /\ NothingLost /\ StopInv
<1>1. Init => Inv
  BY SchedAssumption, OsAssumption, OwnerInit, SliceInit, TurnsInit, StopInit
<1>2. OwnerInv /\ OwnerInv' /\ Inv /\ [Next]_vars => Inv'
  BY SchedAssumption, OsAssumption, NeverFull, CPU # {}, OwnerStep, SliceStep, AlignStep, UsedStep, StopStep
<1>3. OwnerInv /\ Inv => OnlyTurnsStrand
  BY SchedAssumption, OsAssumption, CPU # {}, StoppedReady DEF OnlyTurnsStrand, ReadyOneLevel
<1> QED BY <1>1, <1>2, <1>3, OwnerCorrect, PTL DEF Spec

(* When every level but the first can be run to its end within one turn, no *)
(* process is left behind (cpu_routine's "No process to run, exit").        *)
THEOREM TurnsSuffice ==
  ASSUME NeverFull, CPU # {}, \A p \in Level \ {0} : FitsTurn(p)
  PROVE  Spec => []NoneStranded
<1>1. TypeOK /\ OnlyTurnsStrand => NoneStranded
  <2>1. \A q \in Proc : prio[q] \in Level
    BY SchedAssumption DEF SchedAssumption, Level
  <2> QED BY <2>1 DEF OnlyTurnsStrand, NoneStranded, TypeOK
<1> QED BY <1>1, TypeCorrect, StrandedAtTurnEnd, PTL

=============================================================================
