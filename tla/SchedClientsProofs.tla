------------------------ MODULE SchedClientsProofs ------------------------
(***************************************************************************)
(* Safety of src/sched.c over src/queue.c under any callers, for every     *)
(* number of levels, CPUs and processes and every size of a queue.         *)
(***************************************************************************)
EXTENDS SchedClients, MlqSchedProofs

(* A process that is in no ready queue is on a CPU, with the loader, or has  *)
(* ended, and only one of these.                                            *)
OnCpu(proc) == \E c \in CPU : cur[c] = proc

Away(proc) == OnCpu(proc) \/ proc \in unborn \union finished \/ adding = proc

AwayInv ==
  /\ \A c \in CPU : cur[c] = NULL <=> cpc[c] \in {"idle", "take"}
  /\ \A c, d \in CPU : cur[c] = cur[d] /\ cur[c] # NULL => c = d
  /\ \A q \in Proc : OnCpu(q) => q \notin unborn \union finished /\ adding # q
  /\ \A q \in Proc : adding = q => q \notin unborn \union finished
  /\ unborn \intersect finished = {}

ApartInv ==
  /\ TypeOK
  /\ QueueInv
  /\ AwayInv
  /\ \A q \in Proc : ~(Ready(q) /\ Away(q))

(* The inductive invariant for OnePlace. *)
Here(proc) == Ready(proc) \/ Away(proc)

PlaceInv == ApartInv /\ \A q \in Proc : Cardinality(Rivals(q)) <= MAX_QUEUE_SIZE => Here(q)

-----------------------------------------------------------------------------
(* The level that is offset after c is one of the others, and that far ahead. *)
LEMMA AheadOffset ==
  ASSUME SchedAssumption, NEW c \in Level, NEW offset \in 1 .. MAX_PRIO - 1
  PROVE  LET p == (c + offset) % MAX_PRIO IN p \in Level /\ p # c /\ Ahead(c, p) = offset
<1>1. MAX_PRIO \in Nat \ {0} /\ c \in 0 .. MAX_PRIO - 1
  BY DEF SchedAssumption, Level
<1>2. (c + offset) % MAX_PRIO = IF c + offset < MAX_PRIO THEN c + offset ELSE c + offset - MAX_PRIO
  <2>1. CASE c + offset < MAX_PRIO
    BY <1>1, <2>1
  <2>2. CASE c + offset >= MAX_PRIO
    BY <1>1, <2>2
  <2> QED BY <1>1, <2>1, <2>2
<1> QED BY <1>1, <1>2 DEF Level, Ahead

(* And each of the others is that far ahead of c.                           *)
LEMMA OffsetAhead ==
  ASSUME SchedAssumption, NEW c \in Level, NEW p \in Level, p # c
  PROVE  Ahead(c, p) \in 1 .. MAX_PRIO - 1 /\ (c + Ahead(c, p)) % MAX_PRIO = p
<1>1. MAX_PRIO \in Nat \ {0} /\ c \in 0 .. MAX_PRIO - 1 /\ p \in 0 .. MAX_PRIO - 1
  BY DEF SchedAssumption, Level
<1>2. CASE p > c
  BY <1>1, <1>2 DEF Ahead
<1>3. CASE ~(p > c)
  <2>1. Ahead(c, p) = p - c + MAX_PRIO /\ p < c
    BY <1>1, <1>3 DEF Ahead
  <2>2. c + Ahead(c, p) = p + MAX_PRIO
    BY <1>1, <2>1
  <2>3. (p + MAX_PRIO) % MAX_PRIO = p
    BY <1>1
  <2> QED BY <1>1, <2>1, <2>2, <2>3
<1> QED BY <1>2, <1>3

(* What the places of c, d and p round the levels say when the search that  *)
(* starts at c meets d before p: seen from d, p comes before c and before   *)
(* every level o that c sees after p.                                       *)
LEMMA Round ==
  ASSUME SchedAssumption, NEW c \in Level, NEW d \in Level, NEW p \in Level, NEW o \in Level,
         c # d, c # p, d # p, o # p, o # d, Ahead(c, d) < Ahead(c, p)
  PROVE  /\ ~(Ahead(d, c) < Ahead(d, p))
         /\ o # c /\ ~(Ahead(c, o) < Ahead(c, p)) => ~(Ahead(d, o) < Ahead(d, p))
BY DEF SchedAssumption, Level, Ahead

-----------------------------------------------------------------------------
(* The search looks at every level but the current one.                     *)
LEMMA SearchIsComplete ==
  ASSUME SchedAssumption, SchedTypeOK, NEW p \in Level, p # curr_prio, ~empty(mlq_ready_queue[p])
  PROVE  Ahead(curr_prio, p) \in ReadyOffsets
BY OffsetAhead DEF SchedTypeOK, ReadyOffsets

(* The turn of a level has at least one dispatch. *)
LEMMA SlotRange ==
  ASSUME SchedAssumption, NEW p \in Level
  PROVE  slot(p) \in 1 .. MAX_PRIO /\ slot(p) = MAX_PRIO - p
BY DEF SchedAssumption, Level, slot

(* When the search finds nothing, only the current level may be waiting.    *)
LEMMA NothingFound ==
  ASSUME SchedAssumption, SchedTypeOK, ReadyOffsets = {}, NEW p \in Level, p # curr_prio
  PROVE  empty(mlq_ready_queue[p])
BY SearchIsComplete

-----------------------------------------------------------------------------
(* The turns. *)

(* While the scheduler's position and the history stay as they are,         *)
(* PassedInv can only be lost by a queue that runs empty.                   *)
LEMMA PassedKept ==
  ASSUME PassedInv, UNCHANGED <<curr_prio, curr_slot, passed>>,
         \A p \in Level : empty(mlq_ready_queue'[p]) => empty(mlq_ready_queue[p])
  PROVE  PassedInv'
BY DEF PassedInv

(* A call that takes a process from the current level.                      *)
LEMMA CurrentTurn ==
  ASSUME SchedAssumption, TurnInv, NEW proc \in Proc, GetFromCurrent(proc), Dispatched(proc)
  PROVE  SchedTypeOK' /\ SameLevel' /\ (curr_slot <= slot(curr_prio))' /\ PassedInv'
<1> USE DEF TurnInv
<1> DEFINE d == curr_prio
<1>1. SchedTypeOK /\ d \in Level /\ curr_slot \in 0 .. MAX_PRIO /\ MAX_PRIO \in Nat
  BY DEF TypeOK, SchedTypeOK, SchedAssumption
<1>2. /\ curr_slot > 0 /\ ~empty(mlq_ready_queue[d])
      /\ Dequeue(d, proc) /\ curr_slot' = curr_slot - 1 /\ curr_prio' = d /\ running_list' = running_list
  BY DEF GetFromCurrent, InTurn
<1>3. /\ mlq_ready_queue' \in [Level -> Seq(Proc)]
      /\ SameLevel'
      /\ \A p \in Level \ {d} : mlq_ready_queue'[p] = mlq_ready_queue[p]
      /\ prio[proc] = d
  BY <1>1, <1>2, DequeueKeeps
<1>4. SchedTypeOK'
  BY <1>1, <1>2, <1>3 DEF SchedTypeOK
<1>5. slot(d) \in 1 .. MAX_PRIO /\ curr_slot <= slot(d)
  BY <1>1, SlotRange
<1>6. (curr_slot <= slot(curr_prio))'
  BY <1>1, <1>2, <1>5 DEF slot
<1>7. PassedInv'
  <2>1. \A p, o \in Level : passed'[p][o] =
          IF empty(mlq_ready_queue[p]) \/ d = p THEN 0 ELSE passed[p][o] + (IF d = o THEN 1 ELSE 0)
    BY <1>3 DEF Dispatched
  <2>2. ASSUME NEW p \in Level, curr_prio' = p \/ empty(mlq_ready_queue'[p]), NEW o \in Level
        PROVE  passed'[p][o] = 0
    BY <1>2, <1>3, <2>1, <2>2
  <2>3. ASSUME NEW p \in Level, NEW o \in Level \ {p}, curr_prio' # p
        PROVE  passed'[p][o] <= IF o = curr_prio' THEN slot(o) - curr_slot'
                 ELSE IF Ahead(curr_prio', o) < Ahead(curr_prio', p) THEN 0 ELSE slot(o)
    <3>1. passed[p][o] \in Nat /\ slot(o) \in 1 .. MAX_PRIO
      BY SlotRange DEF TypeOK
    <3>2. passed[p][o] <= IF o = d THEN slot(o) - curr_slot
            ELSE IF Ahead(d, o) < Ahead(d, p) THEN 0 ELSE slot(o)
      BY <1>2, <2>3 DEF PassedInv
    <3>3. CASE empty(mlq_ready_queue[p])
      BY <1>1, <1>2, <1>5, <2>1, <2>3, <3>1, <3>3
    <3>4. CASE ~empty(mlq_ready_queue[p])
      BY <1>1, <1>2, <1>5, <2>1, <2>3, <3>1, <3>2, <3>4
    <3> QED BY <3>3, <3>4
  <2> QED BY <2>2, <2>3 DEF PassedInv, slot, Ahead
<1> QED BY <1>3, <1>4, <1>6, <1>7

(* A call that goes on to the next level that waits.                        *)
LEMMA NextTurn ==
  ASSUME SchedAssumption, TurnInv, NEW proc \in Proc, GetFromNext(proc), Dispatched(proc)
  PROVE  SchedTypeOK' /\ SameLevel' /\ (curr_slot <= slot(curr_prio))' /\ PassedInv'
<1> USE DEF TurnInv
<1> DEFINE c == curr_prio
<1>1. SchedTypeOK /\ c \in Level /\ curr_slot \in 0 .. MAX_PRIO /\ MAX_PRIO \in Nat
  BY DEF TypeOK, SchedTypeOK, SchedAssumption
<1>2. PICK offset \in NearestReady :
        LET p == (c + offset) % MAX_PRIO
        IN  Dequeue(p, proc) /\ curr_prio' = p /\ curr_slot' = slot(p) - 1
  BY DEF GetFromNext
<1> DEFINE d == (c + offset) % MAX_PRIO
<1>3. Dequeue(d, proc) /\ curr_prio' = d /\ curr_slot' = slot(d) - 1 /\ running_list' = running_list
  BY <1>2 DEF GetFromNext
<1>4. offset \in 1 .. MAX_PRIO - 1 /\ ~empty(mlq_ready_queue[d])
  BY DEF NearestReady, ReadyOffsets
<1>5. d \in Level /\ d # c /\ Ahead(c, d) = offset
  BY <1>1, <1>4, AheadOffset
<1>6. \A o \in ReadyOffsets : offset <= o
  BY DEF NearestReady
<1> HIDE DEF d
<1>7. /\ mlq_ready_queue' \in [Level -> Seq(Proc)]
      /\ SameLevel'
      /\ \A p \in Level \ {d} : mlq_ready_queue'[p] = mlq_ready_queue[p]
      /\ prio[proc] = d
  BY <1>1, <1>3, <1>4, <1>5, DequeueKeeps
<1>8. slot(d) \in 1 .. MAX_PRIO
  BY <1>5, SlotRange
<1>9. SchedTypeOK'
  BY <1>1, <1>3, <1>5, <1>7, <1>8 DEF SchedTypeOK
<1>10. (curr_slot <= slot(curr_prio))'
  BY <1>3, <1>8 DEF slot
<1>11. PassedInv'
  <2>1. \A p, o \in Level : passed'[p][o] =
          IF empty(mlq_ready_queue[p]) \/ d = p THEN 0 ELSE passed[p][o] + (IF d = o THEN 1 ELSE 0)
    BY <1>7 DEF Dispatched
  <2>2. ASSUME NEW p \in Level, curr_prio' = p \/ empty(mlq_ready_queue'[p]), NEW o \in Level
        PROVE  passed'[p][o] = 0
    BY <1>3, <1>7, <2>1, <2>2
  <2>3. ASSUME NEW p \in Level, NEW o \in Level \ {p}, d # p
        PROVE  passed'[p][o] <= IF o = d THEN 1
                 ELSE IF Ahead(d, o) < Ahead(d, p) THEN 0 ELSE slot(o)
    <3>1. passed[p][o] \in Nat /\ slot(o) \in 1 .. MAX_PRIO
      BY SlotRange DEF TypeOK
    <3>2. CASE empty(mlq_ready_queue[p])
      BY <2>1, <2>3, <3>1, <3>2
    <3>3. CASE ~empty(mlq_ready_queue[p]) /\ p = c
      <4>1. passed[p][o] = 0
        BY <3>3, <2>3 DEF PassedInv
      <4> QED BY <2>1, <2>3, <3>1, <3>3, <4>1
    <3>4. CASE ~empty(mlq_ready_queue[p]) /\ p # c
      <4>1. Ahead(c, p) \in ReadyOffsets /\ Ahead(c, p) \in 1 .. MAX_PRIO - 1 /\ (c + Ahead(c, p)) % MAX_PRIO = p
        BY <1>1, <3>4, SearchIsComplete, OffsetAhead
      <4>2. Ahead(c, d) < Ahead(c, p)
        BY <1>4, <1>5, <1>6, <2>3, <4>1 DEF d
      <4>3. passed[p][o] <= IF o = c THEN slot(o) - curr_slot
              ELSE IF Ahead(c, o) < Ahead(c, p) THEN 0 ELSE slot(o)
        BY <2>3, <3>4 DEF PassedInv
      <4>4. passed'[p][o] = passed[p][o] + (IF d = o THEN 1 ELSE 0)
        BY <2>1, <2>3, <3>4
      <4>5. CASE o = d
        BY <1>5, <3>1, <4>2, <4>3, <4>4, <4>5
      <4>6. CASE o = c
        <5>1. ~(Ahead(d, c) < Ahead(d, p))
          BY <1>1, <1>5, <2>3, <3>4, <4>2, <4>6, Round
        <5> QED BY <1>1, <1>5, <3>1, <4>3, <4>4, <4>6, <5>1
      <4>7. CASE o # d /\ o # c
        <5>1. ~(Ahead(c, o) < Ahead(c, p)) => ~(Ahead(d, o) < Ahead(d, p))
          BY <1>1, <1>5, <2>3, <3>4, <4>2, <4>7, Round
        <5> QED BY <3>1, <4>3, <4>4, <4>7, <5>1
      <4> QED BY <4>5, <4>6, <4>7
    <3> QED BY <3>2, <3>3, <3>4
  <2>4. slot(d) - curr_slot' = 1
    BY <1>3, <1>8
  <2> QED BY <1>3, <2>2, <2>3, <2>4 DEF PassedInv, slot, Ahead
<1> QED BY <1>7, <1>9, <1>10, <1>11

(* A call that finds no other level waiting and looks at level 0: it        *)
(* returns a process only if level 0 had the turn, and is alone.            *)
LEMMA FirstTurn ==
  ASSUME SchedAssumption, TurnInv, NEW proc \in Proc, GetFromFirst(proc), Dispatched(proc)
  PROVE  SchedTypeOK' /\ SameLevel' /\ (curr_slot <= slot(curr_prio))' /\ PassedInv'
<1> USE DEF TurnInv
<1>1. SchedTypeOK /\ 0 \in Level /\ curr_prio \in Level /\ proc # NULL
  <2>1. NULL \notin Proc /\ MAX_PRIO \in Nat \ {0}
    BY DEF SchedAssumption
  <2>2. SchedTypeOK /\ curr_prio \in Level
    BY DEF TypeOK, SchedTypeOK
  <2> QED BY <2>1, <2>2 DEF Level
<1>2. ReadyOffsets = {} /\ Dequeue(0, proc) /\ curr_prio' = 0 /\ curr_slot' = slot(0) - 1 /\ running_list' = running_list
  BY DEF GetFromFirst
<1>3. /\ mlq_ready_queue' \in [Level -> Seq(Proc)]
      /\ SameLevel'
      /\ \A p \in Level \ {0} : mlq_ready_queue'[p] = mlq_ready_queue[p]
      /\ ~empty(mlq_ready_queue[0])
      /\ prio[proc] = 0
  BY <1>1, <1>2, DequeueKeeps
<1>4. \A p \in Level \ {0} : empty(mlq_ready_queue[p])
  BY <1>1, <1>2, <1>3, NothingFound
<1>5. slot(0) \in 1 .. MAX_PRIO /\ \A o \in Level : slot(o) \in 1 .. MAX_PRIO
  BY <1>1, SlotRange
<1>6. \A p, o \in Level : passed'[p][o] = 0
  BY <1>3, <1>4 DEF Dispatched
<1>7. SchedTypeOK'
  BY <1>1, <1>2, <1>3, <1>5 DEF SchedTypeOK
<1>8. (curr_slot <= slot(curr_prio))'
  BY <1>2, <1>5 DEF slot
<1>9. PassedInv'
  <2>1. slot(0) - curr_slot' = 1
    BY <1>2, <1>5
  <2>2. \A p, o \in Level : passed'[p][o] <=
          IF o = 0 THEN slot(0) - curr_slot' ELSE IF Ahead(0, o) < Ahead(0, p) THEN 0 ELSE slot(o)
    BY <1>5, <1>6, <2>1
  <2> QED BY <1>2, <1>6, <2>2 DEF PassedInv, slot, Ahead
<1> QED BY <1>3, <1>7, <1>8, <1>9

(* A call that returns NULL, found nothing anywhere but perhaps at the      *)
(* level whose turn is over; it leaves the scheduler at level 0.            *)
LEMMA NoTurn ==
  ASSUME SchedAssumption, TurnInv, TakeReady(NULL), passed' = passed
  PROVE  SchedTypeOK' /\ SameLevel' /\ (curr_slot <= slot(curr_prio))' /\ PassedInv'
<1> USE DEF TurnInv
<1>1. SchedTypeOK /\ 0 \in Level /\ curr_prio \in Level /\ NULL \notin Proc
  BY DEF TypeOK, SchedTypeOK, SchedAssumption, Level
<1>2. ~GetFromCurrent(NULL)
  BY <1>1, DequeueKeeps DEF GetFromCurrent, InTurn
<1>3. ~GetFromNext(NULL)
  <2> SUFFICES ASSUME NEW offset \in NearestReady, Dequeue((curr_prio + offset) % MAX_PRIO, NULL)
               PROVE  FALSE
    BY DEF GetFromNext
  <2> DEFINE d == (curr_prio + offset) % MAX_PRIO
  <2>1. offset \in 1 .. MAX_PRIO - 1 /\ ~empty(mlq_ready_queue[d])
    BY DEF NearestReady, ReadyOffsets
  <2>2. d \in Level
    BY <1>1, <2>1, AheadOffset
  <2> QED BY <1>1, <2>1, <2>2, DequeueKeeps
<1>4. ReadyOffsets = {} /\ Dequeue(0, NULL) /\ curr_prio' = 0 /\ curr_slot' = slot(0) - 1 /\ running_list' = running_list
  BY <1>2, <1>3 DEF TakeReady, GetFromFirst
<1>5. empty(mlq_ready_queue[0]) /\ mlq_ready_queue' = mlq_ready_queue
  BY <1>1, <1>4, DequeueKeeps
<1>6. \A p \in Level : curr_prio = p \/ empty(mlq_ready_queue[p])
  BY <1>1, <1>4, NothingFound
<1>7. \A p, o \in Level : passed'[p][o] = 0
  BY <1>6 DEF PassedInv
<1>8. slot(0) \in 1 .. MAX_PRIO /\ \A o \in Level : slot(o) \in 1 .. MAX_PRIO
  BY <1>1, SlotRange
<1>9. SchedTypeOK' /\ SameLevel'
  BY <1>1, <1>4, <1>5, <1>8 DEF SchedTypeOK, SameLevel
<1>10. (curr_slot <= slot(curr_prio))'
  BY <1>4, <1>8 DEF slot
<1>11. PassedInv'
  <2>1. slot(0) - curr_slot' = 1
    BY <1>4, <1>8
  <2>2. \A p, o \in Level : passed'[p][o] <=
          IF o = 0 THEN slot(0) - curr_slot' ELSE IF Ahead(0, o) < Ahead(0, p) THEN 0 ELSE slot(o)
    BY <1>7, <1>8, <2>1
  <2> QED BY <1>4, <1>7, <2>2 DEF PassedInv, slot, Ahead
<1> QED BY <1>9, <1>10, <1>11

(* The second critical section of get_mlq_proc returns processes or NULL.   *)
LEMMA TakenTurn ==
  ASSUME SchedAssumption, TurnInv, NEW proc \in Proc, TakeReady(proc), Dispatched(proc)
  PROVE  SchedTypeOK' /\ SameLevel' /\ (curr_slot <= slot(curr_prio))' /\ PassedInv'
BY CurrentTurn, NextTurn, FirstTurn DEF TakeReady

-----------------------------------------------------------------------------
(* The callers. *)

(* No level has been passed over when the scheduler starts. *)
LEMMA InitTurn ==
  ASSUME SchedAssumption, Init
  PROVE  TurnInv
<1> USE DEF Init, InitScheduler
<1>1. 0 \in Level /\ slot(0) = MAX_PRIO /\ MAX_PRIO \in Nat \ {0}
  BY DEF SchedAssumption, Level, slot
<1>2. SchedTypeOK
  BY <1>1 DEF SchedTypeOK
<1>3. TypeOK
  BY <1>2 DEF TypeOK, CpuPC
<1>4. HoldsOne /\ SameLevel
  BY DEF HoldsOne, SameLevel
<1>5. PassedInv
  <2>1. \A o \in Level : slot(o) \in 1 .. MAX_PRIO
    BY SlotRange
  <2> QED BY <1>1, <2>1 DEF PassedInv
<1> QED BY <1>1, <1>2, <1>3, <1>4, <1>5 DEF TurnInv

LEMMA DispatchedType ==
  ASSUME SchedAssumption, TypeOK, NEW proc \in Proc, Dispatched(proc)
  PROVE  passed' \in [Level -> [Level -> Nat]]
BY DEF Dispatched, TypeOK

(* Whatever the turns are, callers hand over processes only, and the queues *)
(* take them at their level.                                                *)
LEMMA CallersStep ==
  ASSUME SchedAssumption, TypeOK, HoldsOne, SameLevel, [Next]_vars
  PROVE  TypeOK' /\ HoldsOne' /\ SameLevel'
<1> USE DEF clientVars
<1>0. SchedTypeOK
  BY DEF TypeOK
<1>1. CASE UNCHANGED vars
  BY <1>1 DEF vars, schedVars, TypeOK, SchedTypeOK, HoldsOne, SameLevel
<1>2. ASSUME NEW c \in CPU, GetEmpty(c) PROVE TypeOK' /\ HoldsOne' /\ SameLevel'
  BY <1>1, <1>2 DEF GetEmpty
<1>3. ASSUME NEW c \in CPU, GetNotEmpty(c) PROVE TypeOK' /\ HoldsOne' /\ SameLevel'
  BY <1>3 DEF GetNotEmpty, schedVars, TypeOK, SchedTypeOK, CpuPC, HoldsOne, SameLevel
<1>4. ASSUME NEW c \in CPU, NEW proc \in Proc, GetProc(c, proc) PROVE TypeOK' /\ HoldsOne' /\ SameLevel'
  <2>1. SchedTypeOK' /\ SameLevel'
    BY <1>0, <1>4, TakeReadyKeeps DEF GetProc
  <2>2. passed' \in [Level -> [Level -> Nat]]
    BY <1>4, DispatchedType DEF GetProc
  <2>3. TypeOK' /\ HoldsOne'
    BY <1>4, <2>1, <2>2 DEF GetProc, TypeOK, CpuPC, HoldsOne
  <2> QED BY <2>1, <2>3
<1>5. ASSUME NEW c \in CPU, GetNothing(c) PROVE TypeOK' /\ HoldsOne' /\ SameLevel'
  <2>1. SchedTypeOK' /\ SameLevel'
    BY <1>0, <1>5, TakeReadyKeeps DEF GetNothing
  <2> QED BY <1>5, <2>1 DEF GetNothing, TypeOK, CpuPC, HoldsOne
<1>6. ASSUME NEW c \in CPU, PutList(c) PROVE TypeOK' /\ HoldsOne' /\ SameLevel'
  <2>1. cur[c] \in Proc
    BY <1>6 DEF PutList, HoldsOne
  <2>2. SchedTypeOK' /\ SameLevel'
    BY <1>0, <1>6, <2>1, EnqueueProperties DEF PutList, ListRunning, SchedTypeOK, SameLevel
  <2> QED BY <1>6, <2>1, <2>2 DEF PutList, TypeOK, CpuPC, HoldsOne
<1>7. ASSUME NEW c \in CPU, PutReady(c) PROVE TypeOK' /\ HoldsOne' /\ SameLevel'
  <2>1. cur[c] \in Proc
    BY <1>7 DEF PutReady, HoldsOne
  <2>2. SchedTypeOK' /\ SameLevel'
    BY <1>0, <1>7, <2>1, MakeReadyKeeps DEF PutReady
  <2> QED BY <1>7, <2>2 DEF PutReady, TypeOK, CpuPC, HoldsOne
<1>8. ASSUME NEW c \in CPU, Finish(c) PROVE TypeOK' /\ HoldsOne' /\ SameLevel'
  <2>1. cur[c] \in Proc
    BY <1>8 DEF Finish, HoldsOne
  <2> QED BY <1>8, <2>1 DEF Finish, schedVars, TypeOK, SchedTypeOK, CpuPC, HoldsOne, SameLevel
<1>9. ASSUME NEW proc \in Proc, AddList(proc) PROVE TypeOK' /\ HoldsOne' /\ SameLevel'
  <2>1. SchedTypeOK' /\ SameLevel'
    BY <1>0, <1>9, EnqueueProperties DEF AddList, ListRunning, SchedTypeOK, SameLevel
  <2> QED BY <1>9, <2>1 DEF AddList, TypeOK, CpuPC, HoldsOne
<1>10. ASSUME AddReady PROVE TypeOK' /\ HoldsOne' /\ SameLevel'
  <2>1. adding \in Proc
    BY <1>10 DEF AddReady, TypeOK
  <2>2. SchedTypeOK' /\ SameLevel'
    BY <1>0, <1>10, <2>1, MakeReadyKeeps DEF AddReady
  <2> QED BY <1>10, <2>2 DEF AddReady, TypeOK, CpuPC, HoldsOne
<1> QED BY <1>1, <1>2, <1>3, <1>4, <1>5, <1>6, <1>7, <1>8, <1>9, <1>10 DEF Next, Get, Release

(* Every step of every caller keeps the invariant.                          *)
LEMMA TurnStep ==
  ASSUME SchedAssumption, TurnInv, [Next]_vars
  PROVE  TurnInv'
<1> USE DEF TurnInv, clientVars
<1> DEFINE Turns == (curr_slot <= slot(curr_prio))' /\ PassedInv'
<1>0. TypeOK' /\ HoldsOne' /\ SameLevel'
  BY CallersStep
<1>1. CASE UNCHANGED vars
  BY <1>0, <1>1 DEF vars, schedVars, slot, PassedInv, Ahead
<1>2. ASSUME NEW c \in CPU, GetEmpty(c) PROVE TurnInv'
  BY <1>1, <1>2 DEF GetEmpty
<1>3. ASSUME NEW c \in CPU, GetNotEmpty(c) PROVE Turns
  BY <1>3 DEF GetNotEmpty, schedVars, slot, PassedInv, Ahead
<1>4. ASSUME NEW c \in CPU, NEW proc \in Proc, GetProc(c, proc) PROVE Turns
  BY <1>4, TakenTurn DEF GetProc
<1>5. ASSUME NEW c \in CPU, GetNothing(c) PROVE Turns
  BY <1>5, NoTurn DEF GetNothing
<1>6. ASSUME NEW c \in CPU, PutList(c) PROVE Turns
  BY <1>6 DEF PutList, ListRunning, slot, PassedInv, Ahead
<1>7. ASSUME NEW c \in CPU, PutReady(c) PROVE Turns
  <2>1. cur[c] \in Proc /\ SchedTypeOK
    BY <1>7 DEF PutReady, HoldsOne, TypeOK
  <2>2. \A p \in Level : empty(mlq_ready_queue'[p]) => empty(mlq_ready_queue[p])
    BY <1>7, <2>1, MakeReadyKeeps DEF PutReady
  <2> QED BY <1>7, <2>2, PassedKept DEF PutReady, MakeReady, slot
<1>8. ASSUME NEW c \in CPU, Finish(c) PROVE Turns
  BY <1>8 DEF Finish, schedVars, slot, PassedInv, Ahead
<1>9. ASSUME NEW proc \in Proc, AddList(proc) PROVE Turns
  BY <1>9 DEF AddList, ListRunning, slot, PassedInv, Ahead
<1>10. ASSUME AddReady PROVE Turns
  <2>1. adding \in Proc /\ SchedTypeOK
    BY <1>10 DEF AddReady, TypeOK
  <2>2. \A p \in Level : empty(mlq_ready_queue'[p]) => empty(mlq_ready_queue[p])
    BY <1>10, <2>1, MakeReadyKeeps DEF AddReady
  <2> QED BY <1>10, <2>2, PassedKept DEF AddReady, MakeReady, slot
<1> QED BY <1>0, <1>1, <1>2, <1>3, <1>4, <1>5, <1>6, <1>7, <1>8, <1>9, <1>10 DEF Next, Get, Release

-----------------------------------------------------------------------------
(* The scheduler's turns are as TurnInv describes them in every state that  *)
(* any interleaving of the callers of sched.c reaches.                      *)
THEOREM TurnCorrect == Spec => []TurnInv
<1>1. Init => TurnInv
  BY SchedAssumption, InitTurn
<1>2. TurnInv /\ [Next]_vars => TurnInv'
  BY SchedAssumption, TurnStep
<1> QED BY <1>1, <1>2, PTL DEF Spec

(* The scheduler and its callers stay in their types: only processes are in *)
(* the queues and in running_list, and curr_prio is a level.                *)
THEOREM TypeCorrect == Spec => []TypeOK
<1>1. TurnInv => TypeOK
  BY DEF TurnInv
<1> QED BY <1>1, TurnCorrect, PTL

(* No level with a ready process is passed over by more dispatches of       *)
(* another level than that level has in one turn, for any number of levels, *)
(* CPUs and processes and in any interleaving.                              *)
THEOREM FairShares == Spec => []LevelShare
<1>1. TurnInv => LevelShare
  <2> SUFFICES ASSUME TurnInv, NEW p \in Level, NEW o \in Level, o # p
               PROVE  passed[p][o] <= MAX_PRIO - o
    BY DEF LevelShare
  <2>1. slot(o) \in 1 .. MAX_PRIO /\ slot(o) = MAX_PRIO - o
    BY SchedAssumption, SlotRange
  <2>2. curr_slot \in 0 .. MAX_PRIO /\ MAX_PRIO \in Nat
    BY SchedAssumption DEF TurnInv, TypeOK, SchedTypeOK, SchedAssumption
  <2>3. CASE curr_prio = p
    BY <2>1, <2>2, <2>3 DEF TurnInv, PassedInv
  <2>4. CASE curr_prio # p
    <3>1. passed[p][o] <= IF o = curr_prio THEN slot(o) - curr_slot
            ELSE IF Ahead(curr_prio, o) < Ahead(curr_prio, p) THEN 0 ELSE slot(o)
      BY <2>4 DEF TurnInv, PassedInv
    <3>2. passed[p][o] \in Nat
      BY DEF TurnInv, TypeOK
    <3> QED BY <2>1, <2>2, <3>1, <3>2
  <2> QED BY <2>3, <2>4
<1> QED BY <1>1, TurnCorrect, PTL

-----------------------------------------------------------------------------
(* Places of the processes. *)

LEMMA InitPlace ==
  ASSUME SchedAssumption, Init
  PROVE  PlaceInv
<1>1. QueueInv /\ \A q : ~Ready(q)
  BY QueuesInit DEF Init
<1>2. TypeOK
  BY InitTurn DEF TurnInv
<1>3. NULL \notin Proc
  BY DEF SchedAssumption
<1>4. AwayInv /\ \A q \in Proc : Away(q)
  BY <1>3 DEF Init, AwayInv, Away, OnCpu
<1> QED BY <1>1, <1>2, <1>4 DEF PlaceInv, ApartInv, Here

(* Every step leaves each process in one place at most, finds no process    *)
(* that was in none, and loses no process of a level for which a queue has  *)
(* room.                                                                    *)
LEMMA ApartStep ==
  ASSUME SchedAssumption, ClientAssumption, ApartInv, [Next]_vars
  PROVE  /\ ApartInv'
         /\ \A q \in Proc : /\ Here(q)' => Here(q)
                            /\ Cardinality(Rivals(q)) <= MAX_QUEUE_SIZE /\ Here(q) => Here(q)'
<1> USE DEF ApartInv, AwayInv
<1> DEFINE Kept(q) == /\ Here(q)' => Here(q)
                      /\ Cardinality(Rivals(q)) <= MAX_QUEUE_SIZE /\ Here(q) => Here(q)'
           Goal == ApartInv' /\ \A q \in Proc : Kept(q)
<1>0. /\ TypeOK /\ QueueInv /\ NULL \notin Proc
      /\ \A q \in Proc : IsFiniteSet(Rivals(q))
      /\ cur \in [CPU -> Proc \union {NULL}] /\ cpc \in [CPU -> CpuPC]
  <2>1. \A q \in Proc : Rivals(q) \in SUBSET Proc
    BY DEF Rivals
  <2> QED BY <2>1, FS_Subset DEF ClientAssumption, SchedAssumption, TypeOK
<1>11. TypeOK'
  <2>1. HoldsOne /\ SameLevel
    BY <1>0 DEF HoldsOne, QueueInv
  <2> QED BY <1>0, <2>1, CallersStep
<1>1. CASE UNCHANGED vars
  <2>1. QueueInv' /\ \A q : Ready(q)' <=> Ready(q)
    BY <1>1, QueuesUnchanged DEF vars
  <2> QED BY <1>1, <1>11, <2>1 DEF vars, clientVars, OnCpu, Away, Here
<1>2. ASSUME NEW c \in CPU, GetEmpty(c) PROVE Goal
  BY <1>1, <1>2 DEF GetEmpty
<1>3. ASSUME NEW c \in CPU, GetNotEmpty(c) PROVE Goal
  <2>1. QueueInv' /\ \A q : Ready(q)' <=> Ready(q)
    BY <1>3, QueuesUnchanged DEF GetNotEmpty
  <2> QED BY <1>0, <1>11, <1>3, <2>1 DEF GetNotEmpty, OnCpu, Away, Here
<1>4. ASSUME NEW c \in CPU, NEW proc \in Proc, GetProc(c, proc) PROVE Goal
  <2>1. QueueInv' /\ Ready(proc) /\ ~Ready(proc)' /\ \A q : q # proc => (Ready(q)' <=> Ready(q))
    BY <1>0, <1>4, TakeReadyTakes DEF GetProc
  <2>2. /\ cur' = [cur EXCEPT ![c] = proc] /\ cpc' = [cpc EXCEPT ![c] = "hold"]
        /\ UNCHANGED <<unborn, adding, finished>> /\ cpc[c] = "take" /\ cur[c] = NULL
    BY <1>4 DEF GetProc
  <2>3. ~OnCpu(proc) /\ proc \notin unborn \union finished /\ adding # proc
    BY <2>1 DEF Away
  <2>4. \A q \in Proc : OnCpu(q)' <=> q = proc \/ OnCpu(q)
    BY <1>0, <2>2 DEF OnCpu
  <2>5. \A d, e \in CPU : cur'[d] = cur'[e] /\ cur'[d] # NULL => d = e
    BY <1>0, <2>2, <2>3 DEF OnCpu
  <2>6. AwayInv'
    BY <1>0, <2>2, <2>3, <2>4, <2>5
  <2>7. \A q \in Proc : Away(q)' <=> q = proc \/ Away(q)
    BY <2>2, <2>4 DEF Away
  <2> QED BY <1>11, <2>1, <2>6, <2>7 DEF Here
<1>5. ASSUME NEW c \in CPU, GetNothing(c) PROVE Goal
  <2>1. QueueInv' /\ \A q : Ready(q)' <=> Ready(q)
    BY <1>0, <1>5, TakeReadyTakes DEF GetNothing
  <2> QED BY <1>0, <1>11, <1>5, <2>1 DEF GetNothing, OnCpu, Away, Here
<1>6. ASSUME NEW c \in CPU, PutList(c) PROVE Goal
  <2>1. cur[c] \in Proc
    BY <1>0, <1>6 DEF PutList
  <2>2. QueueInv' /\ \A q : Ready(q)' <=> Ready(q)
    BY <1>0, <1>6, <2>1, ListRunningKeeps DEF PutList
  <2> QED BY <1>0, <1>11, <1>6, <2>1, <2>2 DEF PutList, OnCpu, Away, Here
<1>7. ASSUME NEW c \in CPU, PutReady(c) PROVE Goal
  <2>1. PICK proc \in Proc : proc = cur[c] /\ OnCpu(proc)
    BY <1>0, <1>7 DEF PutReady, OnCpu
  <2>2. ~Ready(proc) /\ proc \notin unborn \union finished /\ adding # proc
    BY <2>1 DEF Away
  <2>3. /\ QueueInv' /\ \A q : q # proc => (Ready(q)' <=> Ready(q))
        /\ Cardinality(Rivals(proc)) <= MAX_QUEUE_SIZE => Ready(proc)'
    BY <1>0, <1>7, <2>1, <2>2, MakeReadyAdds DEF PutReady
  <2>4. /\ cur' = [cur EXCEPT ![c] = NULL] /\ cpc' = [cpc EXCEPT ![c] = "idle"]
        /\ UNCHANGED <<unborn, adding, finished>> /\ cpc[c] = "put"
    BY <1>7, <2>1 DEF PutReady
  <2>5. \A q \in Proc : OnCpu(q)' <=> q # proc /\ OnCpu(q)
    BY <1>0, <2>1, <2>4 DEF OnCpu
  <2>6. AwayInv'
    <3>1. \A d, e \in CPU : cur'[d] = cur'[e] /\ cur'[d] # NULL => d = e
      BY <1>0, <2>4
    <3>2. \A d \in CPU : cur'[d] = NULL <=> cpc'[d] \in {"idle", "take"}
      BY <1>0, <2>4
    <3> QED BY <2>4, <2>5, <3>1, <3>2
  <2>7. \A q \in Proc : Away(q)' <=> q # proc /\ Away(q)
    BY <2>2, <2>4, <2>5 DEF Away
  <2>8. Away(proc)
    BY <2>1 DEF Away
  <2> QED BY <1>11, <2>1, <2>3, <2>6, <2>7, <2>8 DEF Here
<1>8. ASSUME NEW c \in CPU, Finish(c) PROVE Goal
  <2>1. PICK proc \in Proc : proc = cur[c] /\ OnCpu(proc)
    BY <1>0, <1>8 DEF Finish, OnCpu
  <2>2. ~Ready(proc) /\ proc \notin unborn \union finished /\ adding # proc
    BY <2>1 DEF Away
  <2>3. QueueInv' /\ \A q : Ready(q)' <=> Ready(q)
    BY <1>8, QueuesUnchanged DEF Finish
  <2>4. /\ cur' = [cur EXCEPT ![c] = NULL] /\ cpc' = [cpc EXCEPT ![c] = "idle"]
        /\ finished' = finished \union {proc}
        /\ UNCHANGED <<unborn, adding>> /\ cpc[c] = "hold"
    BY <1>8, <2>1 DEF Finish
  <2>5. \A q \in Proc : OnCpu(q)' <=> q # proc /\ OnCpu(q)
    BY <1>0, <2>1, <2>4 DEF OnCpu
  <2>6. AwayInv'
    <3>1. \A d, e \in CPU : cur'[d] = cur'[e] /\ cur'[d] # NULL => d = e
      BY <1>0, <2>4
    <3>2. \A d \in CPU : cur'[d] = NULL <=> cpc'[d] \in {"idle", "take"}
      BY <1>0, <2>4
    <3> QED BY <2>2, <2>4, <2>5, <3>1, <3>2
  <2>7. \A q \in Proc : Away(q)' <=> Away(q)
    BY <2>1, <2>4, <2>5 DEF Away
  <2> QED BY <1>11, <2>3, <2>6, <2>7 DEF Here
<1>9. ASSUME NEW proc \in Proc, AddList(proc) PROVE Goal
  <2>1. QueueInv' /\ \A q : Ready(q)' <=> Ready(q)
    BY <1>0, <1>9, ListRunningKeeps DEF AddList
  <2>2. \A q \in Proc : OnCpu(q)' <=> OnCpu(q)
    BY <1>9 DEF AddList, OnCpu
  <2>3. /\ adding = NULL /\ proc \in unborn /\ unborn' = unborn \ {proc} /\ adding' = proc
        /\ UNCHANGED <<cpc, cur, finished>>
    BY <1>9 DEF AddList
  <2>4. AwayInv'
    BY <1>0, <2>2, <2>3
  <2>5. \A q \in Proc : Away(q)' <=> Away(q)
    BY <1>0, <2>2, <2>3 DEF Away
  <2> QED BY <1>11, <2>1, <2>4, <2>5 DEF Here
<1>10. ASSUME AddReady PROVE Goal
  <2>1. PICK proc \in Proc : proc = adding
    BY <1>10 DEF AddReady, TypeOK
  <2>2. ~Ready(proc) /\ proc \notin unborn \union finished /\ ~OnCpu(proc) /\ Away(proc)
    BY <2>1 DEF Away
  <2>3. /\ QueueInv' /\ \A q : q # proc => (Ready(q)' <=> Ready(q))
        /\ Cardinality(Rivals(proc)) <= MAX_QUEUE_SIZE => Ready(proc)'
    BY <1>0, <1>10, <2>1, <2>2, MakeReadyAdds DEF AddReady
  <2>4. adding' = NULL /\ UNCHANGED <<cpc, cur, unborn, finished>>
    BY <1>10 DEF AddReady
  <2>5. \A q \in Proc : OnCpu(q)' <=> OnCpu(q)
    BY <2>4 DEF OnCpu
  <2>6. AwayInv'
    BY <1>0, <2>4, <2>5
  <2>7. \A q \in Proc : Away(q)' <=> q # proc /\ Away(q)
    BY <1>0, <2>1, <2>2, <2>4, <2>5 DEF Away
  <2> QED BY <1>11, <2>1, <2>2, <2>3, <2>6, <2>7 DEF Here
<1> QED BY <1>1, <1>2, <1>3, <1>4, <1>5, <1>6, <1>7, <1>8, <1>9, <1>10 DEF Next, Get, Release

LEMMA CardinalityOfOne ==
  ASSUME NEW S, \A x, y \in S : x = y
  PROVE  Cardinality(S) = IF S = {} THEN 0 ELSE 1
<1>1. CASE S = {}
  BY <1>1, FS_EmptySet
<1>2. CASE S # {}
  <2>1. PICK x : S = {x}
    BY <1>2
  <2> QED BY <2>1, FS_Singleton
<1> QED BY <1>1, <1>2

(* The places a process can be counted in. *)
LEMMA PlacesCounted ==
  ASSUME SchedAssumption, ApartInv, NEW proc \in Proc
  PROVE  /\ Cardinality(ReadyAt(proc)) = IF Ready(proc) THEN 1 ELSE 0
         /\ Cardinality(Holders(proc)) = IF OnCpu(proc) THEN 1 ELSE 0
<1>1. /\ SchedTypeOK /\ SameLevel /\ MAX_QUEUE_SIZE \in Nat /\ proc # NULL
      /\ \A p \in Level : /\ mlq_ready_queue[p] \in Seq(Proc)
                          /\ IsInjective(mlq_ready_queue[p])
                          /\ Len(mlq_ready_queue[p]) <= MAX_QUEUE_SIZE
  BY DEF ApartInv, QueueInv, SchedTypeOK, SchedAssumption
<1>2. \A x, y \in ReadyAt(proc) : x = y
  <2> SUFFICES ASSUME NEW x \in ReadyAt(proc), NEW y \in ReadyAt(proc)
               PROVE  x = y
    OBVIOUS
  <2>1. /\ x = <<x[1], x[2]>> /\ x[1] \in Level /\ x[2] \in DOMAIN mlq_ready_queue[x[1]]
        /\ mlq_ready_queue[x[1]][x[2]] = proc
        /\ y = <<y[1], y[2]>> /\ y[1] \in Level /\ y[2] \in DOMAIN mlq_ready_queue[y[1]]
        /\ mlq_ready_queue[y[1]][y[2]] = proc
    BY DEF ReadyAt
  <2>2. x[1] = prio[proc] /\ y[1] = prio[proc]
    BY <1>1, <2>1 DEF SameLevel
  <2>3. x[2] = y[2]
    BY <1>1, <2>1, <2>2 DEF IsInjective
  <2> QED BY <2>1, <2>2, <2>3
<1>3. ReadyAt(proc) # {} <=> Ready(proc)
  <2>1. ASSUME NEW p \in Level, NEW j \in DOMAIN mlq_ready_queue[p], mlq_ready_queue[p][j] = proc
        PROVE  <<p, j>> \in ReadyAt(proc)
    <3>1. DOMAIN mlq_ready_queue[p] = 1 .. Len(mlq_ready_queue[p]) /\ Len(mlq_ready_queue[p]) \in Nat
      BY <1>1, LenProperties
    <3>2. j \in 1 .. MAX_QUEUE_SIZE
      BY <1>1, <3>1
    <3> QED BY <2>1, <3>2 DEF ReadyAt
  <2>2. ASSUME NEW x \in ReadyAt(proc) PROVE Ready(proc)
    BY DEF ReadyAt, Ready
  <2> QED BY <2>1, <2>2 DEF Ready
<1>4. \A c, d \in Holders(proc) : c = d
  BY <1>1 DEF ApartInv, AwayInv, Holders
<1>5. Holders(proc) # {} <=> OnCpu(proc)
  BY DEF Holders, OnCpu
<1> QED BY <1>2, <1>3, <1>4, <1>5, CardinalityOfOne

(* The number of places of a process, from its being here or not. *)
LEMMA PlacesOf ==
  ASSUME SchedAssumption, ApartInv, NEW proc \in Proc
  PROVE  Places(proc) = IF Here(proc) THEN 1 ELSE 0
<1>1. /\ Cardinality(ReadyAt(proc)) = IF Ready(proc) THEN 1 ELSE 0
      /\ Cardinality(Holders(proc)) = IF OnCpu(proc) THEN 1 ELSE 0
  BY PlacesCounted
<1>2. /\ OnCpu(proc) => proc \notin unborn \union finished /\ adding # proc
      /\ adding = proc => proc \notin unborn \union finished
      /\ ~(proc \in unborn /\ proc \in finished)
      /\ ~(Ready(proc) /\ Away(proc))
  BY DEF ApartInv, AwayInv
<1> QED BY <1>1, <1>2 DEF Places, Here, Away

(* No interleaving of any callers puts a process in two places, and only a  *)
(* queue without room loses one.                                            *)
THEOREM PlacesApart == Spec => []OnePlace
<1>1. Init => PlaceInv
  BY SchedAssumption, InitPlace
<1>2. PlaceInv /\ [Next]_vars => PlaceInv'
  BY SchedAssumption, ClientAssumption, ApartStep DEF PlaceInv, Rivals
<1>3. PlaceInv => OnePlace
  BY SchedAssumption, PlacesOf DEF PlaceInv, OnePlace
<1> QED BY <1>1, <1>2, <1>3, PTL DEF Spec

=============================================================================
