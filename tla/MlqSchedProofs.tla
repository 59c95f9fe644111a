-------------------------- MODULE MlqSchedProofs --------------------------
(***************************************************************************)
(* The functions of src/queue.c and the critical sections of src/sched.c,  *)
(* for every number of levels and every size of a queue: what they do to   *)
(* queues that hold processes of their level, each of them once.           *)
(***************************************************************************)
EXTENDS MlqSched, SequenceTheorems, FiniteSetTheorems, TLAPS

(* Every queue has room for all the processes of its level. *)
NeverFull == \A proc \in Proc :
  IsFiniteSet(Rivals(proc)) /\ Cardinality(Rivals(proc)) <= MAX_QUEUE_SIZE

(* The queues hold processes of their level, each of them once. *)
QueueInv ==
  /\ SchedTypeOK
  /\ SameLevel
  /\ \A p \in Level : IsInjective(mlq_ready_queue[p]) /\ Len(mlq_ready_queue[p]) <= MAX_QUEUE_SIZE

-----------------------------------------------------------------------------
(* What a queue looks like after enqueue: it is as it was, if it is full, or *)
(* has the process behind it.                                                *)
LEMMA EnqueueProperties ==
  ASSUME SchedAssumption, NEW q \in Seq(Proc), NEW proc \in Proc
  PROVE  /\ enqueue(q, proc) \in Seq(Proc)
         /\ \A k \in DOMAIN enqueue(q, proc) :
              \/ enqueue(q, proc)[k] = proc
              \/ k \in DOMAIN q /\ enqueue(q, proc)[k] = q[k]
         /\ ~empty(enqueue(q, proc))
<1>1. CASE Len(q) = MAX_QUEUE_SIZE
  BY <1>1, LenProperties, EmptySeq DEF enqueue, empty, SchedAssumption
<1>2. CASE Len(q) # MAX_QUEUE_SIZE
  <2>1. enqueue(q, proc) = Append(q, proc)
    BY <1>2 DEF enqueue
  <2>2. /\ Append(q, proc) \in Seq(Proc)
        /\ Len(Append(q, proc)) = Len(q) + 1
        /\ \A k \in 1 .. Len(q) : Append(q, proc)[k] = q[k]
        /\ Append(q, proc)[Len(q) + 1] = proc
    BY AppendProperties
  <2>3. DOMAIN Append(q, proc) = 1 .. Len(q) + 1 /\ DOMAIN q = 1 .. Len(q)
    BY <2>2, LenProperties
  <2> QED BY <2>1, <2>2, <2>3, LenProperties, EmptySeq DEF empty
<1> QED BY <1>1, <1>2

(* In a queue of one level all processes have the same prio, and dequeue    *)
(* takes the first of them.                                                 *)
LEMMA DequeueFirst ==
  ASSUME NEW q \in Seq(Proc), q # <<>>, \A j, k \in DOMAIN q : prio[q[j]] = prio[q[k]],
         \A k \in DOMAIN q : prio[q[k]] \in Int
  PROVE  /\ Dequeued(q) = q[1]
         /\ q[1] \in Proc
         /\ 1 \in DOMAIN q
         /\ Removed(q) \in Seq(Proc)
         /\ Len(Removed(q)) = Len(q) - 1
         /\ \A k \in DOMAIN Removed(q) : k + 1 \in DOMAIN q /\ Removed(q)[k] = q[k + 1]
<1>1. DOMAIN q = 1 .. Len(q) /\ Len(q) \in Nat \ {0}
  BY LenProperties, EmptySeq
<1>2. BestIdx(q) = 1
  <2>1. ASSUME NEW i \in DOMAIN q
        PROVE  (\A j \in DOMAIN q :
                  prio[q[i]] <= prio[q[j]] /\ (j < i => prio[q[i]] < prio[q[j]])) <=> i = 1
    BY <1>1, <2>1
  <2> QED BY <1>1, <2>1 DEF BestIdx
<1>3. Removed(q) = SubSeq(q, 1, 0) \o SubSeq(q, 2, Len(q))
  BY <1>1, <1>2 DEF Removed, empty, RemoveAt
<1>4. SubSeq(q, 1, 0) = <<>>
  BY <1>1, SubSeqEmpty
<1>5. /\ SubSeq(q, 2, Len(q)) \in Seq(Proc)
      /\ Len(SubSeq(q, 2, Len(q))) = Len(q) - 1
      /\ \A k \in 1 .. Len(q) - 1 : SubSeq(q, 2, Len(q))[k] = q[k + 1]
  <2>1. \A k \in 2 .. Len(q) : q[k] \in Proc
    BY <1>1, ElementOfSeq
  <2> DEFINE t == SubSeq(q, 2, Len(q))
  <2>2. /\ t \in Seq(Proc)
        /\ Len(t) = IF 2 <= Len(q) THEN Len(q) - 2 + 1 ELSE 0
        /\ \A k \in 1 .. Len(q) - 2 + 1 : t[k] = q[2 + k - 1]
    BY <1>1, <2>1, SubSeqProperties
  <2> QED BY <1>1, <2>2
<1>6. Removed(q) = SubSeq(q, 2, Len(q))
  BY <1>3, <1>4, <1>5, ConcatEmptySeq
<1>7. DOMAIN Removed(q) = 1 .. Len(q) - 1
  BY <1>5, <1>6, LenProperties
<1> QED BY <1>1, <1>2, <1>5, <1>6, <1>7, ElementOfSeq DEF Dequeued, empty

-----------------------------------------------------------------------------
(* The critical sections of sched.c. *)

(* put_mlq_proc and add_mlq_proc keep each process at its own level, and    *)
(* empty no queue.                                                          *)
LEMMA MakeReadyKeeps ==
  ASSUME SchedAssumption, SchedTypeOK, SameLevel, NEW proc \in Proc, MakeReady(proc)
  PROVE  SchedTypeOK' /\ SameLevel' /\ \A p \in Level : empty(mlq_ready_queue'[p]) => empty(mlq_ready_queue[p])
<1> DEFINE d == prio[proc]
<1>1. d \in Level
  BY DEF SchedAssumption, Level
<1>2. mlq_ready_queue' = [mlq_ready_queue EXCEPT ![d] = enqueue(mlq_ready_queue[d], proc)]
  BY DEF MakeReady
<1>3. mlq_ready_queue[d] \in Seq(Proc)
  BY <1>1 DEF SchedTypeOK
<1>4. /\ mlq_ready_queue'[d] = enqueue(mlq_ready_queue[d], proc)
      /\ \A p \in Level \ {d} : mlq_ready_queue'[p] = mlq_ready_queue[p]
  BY <1>1, <1>2 DEF SchedTypeOK
<1> DEFINE q == mlq_ready_queue[d]
           r == enqueue(q, proc)
<1>5. /\ r \in Seq(Proc)
      /\ \A k \in DOMAIN r : r[k] = proc \/ (k \in DOMAIN q /\ r[k] = q[k])
      /\ ~empty(r)
  BY <1>3, EnqueueProperties
<1>6. SchedTypeOK'
  BY <1>1, <1>2, <1>5 DEF SchedTypeOK, MakeReady
<1>7. SameLevel'
  <2> SUFFICES ASSUME NEW p \in Level, NEW k \in DOMAIN mlq_ready_queue'[p]
               PROVE  prio[mlq_ready_queue'[p][k]] = p
    BY DEF SameLevel
  <2>1. CASE p = d
    <3>1. mlq_ready_queue'[p] = r /\ k \in DOMAIN r
      BY <1>4, <2>1
    <3>2. \A j \in DOMAIN q : prio[q[j]] = d
      BY <1>1 DEF SameLevel
    <3> HIDE DEF q, r, d
    <3>3. prio[r[k]] = d
      BY <1>5, <3>1, <3>2 DEF d
    <3> QED BY <2>1, <3>1, <3>3
  <2>2. CASE p # d
    BY <1>4, <2>2 DEF SameLevel
  <2> QED BY <2>1, <2>2
<1> QED BY <1>4, <1>5, <1>6, <1>7

(* dequeue from the queue of level d returns a process of that level, or    *)
(* NULL if nothing waits there; the other levels are not touched.           *)
LEMMA DequeueKeeps ==
  ASSUME SchedAssumption, SchedTypeOK, SameLevel, NEW d \in Level, NEW proc, Dequeue(d, proc)
  PROVE  /\ mlq_ready_queue' \in [Level -> Seq(Proc)]
         /\ SameLevel'
         /\ \A p \in Level \ {d} : mlq_ready_queue'[p] = mlq_ready_queue[p]
         /\ empty(mlq_ready_queue[d]) => proc = NULL /\ mlq_ready_queue' = mlq_ready_queue
         /\ ~empty(mlq_ready_queue[d]) => proc \in Proc /\ prio[proc] = d
<1> DEFINE q == mlq_ready_queue[d]
<1>1. q \in Seq(Proc) /\ proc = Dequeued(q) /\ mlq_ready_queue' = [mlq_ready_queue EXCEPT ![d] = Removed(q)]
  BY DEF SchedTypeOK, Dequeue
<1>2. CASE empty(q)
  <2>1. proc = NULL /\ mlq_ready_queue' = mlq_ready_queue
    BY <1>1, <1>2 DEF SchedTypeOK, Dequeued, Removed
  <2> QED BY <1>2, <2>1 DEF SchedTypeOK, SameLevel
<1>3. CASE ~empty(q)
  <2>1. \A k \in DOMAIN q : prio[q[k]] = d
    BY DEF SameLevel
  <2>2. d \in Int
    BY DEF Level
  <2>3. /\ proc = q[1] /\ q[1] \in Proc /\ 1 \in DOMAIN q
        /\ Removed(q) \in Seq(Proc)
        /\ \A k \in DOMAIN Removed(q) : k + 1 \in DOMAIN q /\ Removed(q)[k] = q[k + 1]
    BY <1>1, <1>3, <2>1, <2>2, DequeueFirst DEF empty
  <2>4. /\ mlq_ready_queue' \in [Level -> Seq(Proc)]
        /\ mlq_ready_queue'[d] = Removed(q)
        /\ \A p \in Level \ {d} : mlq_ready_queue'[p] = mlq_ready_queue[p]
    BY <1>1, <2>3 DEF SchedTypeOK
  <2>5. ASSUME NEW p \in Level, NEW k \in DOMAIN mlq_ready_queue'[p]
        PROVE  prio[mlq_ready_queue'[p][k]] = p
    <3>1. CASE p = d
      <4> HIDE DEF q
      <4> QED BY <2>1, <2>3, <2>4, <2>5, <3>1
    <3>2. CASE p # d
      BY <2>4, <2>5, <3>2 DEF SameLevel
    <3> QED BY <3>1, <3>2
  <2>6. SameLevel'
    BY <2>5 DEF SameLevel
  <2> QED BY <1>3, <2>1, <2>3, <2>4, <2>6
<1> QED BY <1>2, <1>3

-----------------------------------------------------------------------------
(* Where the processes are. *)

(* A process that is ready waits at its own level. *)
LEMMA ReadyAtLevel ==
  ASSUME SchedAssumption, SchedTypeOK, SameLevel, NEW q
  PROVE  Ready(q) <=> /\ q \in Proc
                      /\ \E j \in DOMAIN mlq_ready_queue[prio[q]] : mlq_ready_queue[prio[q]][j] = q
<1>1. ASSUME NEW p \in Level, NEW j \in DOMAIN mlq_ready_queue[p], mlq_ready_queue[p][j] = q
      PROVE  q \in Proc /\ prio[q] = p
  <2>1. mlq_ready_queue[p] \in Seq(Proc)
    BY DEF SchedTypeOK
  <2>2. j \in 1 .. Len(mlq_ready_queue[p])
    BY <2>1, LenProperties
  <2> QED BY <1>1, <2>1, <2>2, ElementOfSeq DEF SameLevel
<1>2. q \in Proc => prio[q] \in Level
  BY DEF SchedAssumption, Level
<1> QED BY <1>1, <1>2 DEF Ready

(* A process that does not wait at its level finds room there, if there are *)
(* no more processes of the level than a queue can hold: the processes in   *)
(* the queue are different ones of the others.                              *)
LEMMA Room ==
  ASSUME SchedAssumption, NEW proc \in Proc, NEW q \in Seq(Proc), IsInjective(q),
         \A k \in DOMAIN q : prio[q[k]] = prio[proc] /\ q[k] # proc,
         IsFiniteSet(Rivals(proc)), Cardinality(Rivals(proc)) <= MAX_QUEUE_SIZE
  PROVE  Len(q) < MAX_QUEUE_SIZE
<1> DEFINE S == Rivals(proc) \ {proc}
<1>1. Len(q) \in Nat /\ q \in [1 .. Len(q) -> Proc] /\ DOMAIN q = 1 .. Len(q)
  BY LenProperties
<1>2. q \in Injection(1 .. Len(q), S)
  <2>1. q \in [1 .. Len(q) -> S]
    BY <1>1 DEF Rivals
  <2> QED BY <2>1 DEF Injection
<1>3. proc \in Rivals(proc)
  BY DEF Rivals
<1>4. IsFiniteSet(S) /\ Cardinality(S) = Cardinality(Rivals(proc)) - 1
  BY <1>3, FS_RemoveElement
<1>5. Cardinality(1 .. Len(q)) <= Cardinality(S)
  BY <1>2, <1>4, FS_Injection
<1>6. Cardinality(1 .. Len(q)) = Len(q)
  <2>1. \A n \in Nat : Cardinality(1 .. n) = n
    <3> SUFFICES ASSUME NEW n \in Nat PROVE Cardinality(1 .. n) = n
      OBVIOUS
    <3>1. Cardinality(1 .. n) = IF 1 > n THEN 0 ELSE n - 1 + 1
      BY FS_Interval
    <3> QED BY <3>1
  <2> QED BY <1>1, <2>1
<1>7. MAX_QUEUE_SIZE \in Nat /\ Cardinality(Rivals(proc)) \in Nat
  BY FS_CardinalityType DEF SchedAssumption
<1> QED BY <1>1, <1>4, <1>5, <1>6, <1>7

(* put_mlq_proc of a process that does not wait adds this process at most,  *)
(* and does add it if the queue has room.                                   *)
LEMMA MakeReadyAdds ==
  ASSUME SchedAssumption, QueueInv, NEW proc \in Proc, ~Ready(proc), MakeReady(proc)
  PROVE  /\ QueueInv'
         /\ \A q : q # proc => (Ready(q)' <=> Ready(q))
         /\ IsFiniteSet(Rivals(proc)) /\ Cardinality(Rivals(proc)) <= MAX_QUEUE_SIZE => Ready(proc)'
<1> DEFINE d == prio[proc]
           old == mlq_ready_queue[d]
           new == enqueue(old, proc)
<1>1. d \in Level /\ old \in Seq(Proc) /\ SchedTypeOK /\ SameLevel /\ MAX_QUEUE_SIZE \in Nat
  BY DEF SchedAssumption, Level, QueueInv, SchedTypeOK
<1>2. /\ mlq_ready_queue' = [mlq_ready_queue EXCEPT ![d] = new]
      /\ mlq_ready_queue'[d] = new
      /\ \A p \in Level \ {d} : mlq_ready_queue'[p] = mlq_ready_queue[p]
  BY <1>1 DEF MakeReady, SchedTypeOK
<1>3. SchedTypeOK' /\ SameLevel'
  BY <1>1, MakeReadyKeeps
<1>4. DOMAIN old = 1 .. Len(old) /\ Len(old) \in Nat /\ Len(old) <= MAX_QUEUE_SIZE /\ IsInjective(old)
  BY <1>1, LenProperties DEF QueueInv
<1>5. \A k \in DOMAIN old : old[k] # proc /\ prio[old[k]] = d
  BY <1>1 DEF Ready, SameLevel
<1>6. CASE Len(old) = MAX_QUEUE_SIZE
  <2>1. mlq_ready_queue' = mlq_ready_queue
    BY <1>1, <1>2, <1>6 DEF enqueue, SchedTypeOK
  <2>2. \A q : Ready(q)' <=> Ready(q)
    BY <2>1 DEF Ready
  <2>3. ~(IsFiniteSet(Rivals(proc)) /\ Cardinality(Rivals(proc)) <= MAX_QUEUE_SIZE)
    BY <1>1, <1>4, <1>5, <1>6, Room
  <2> QED BY <1>3, <2>1, <2>2, <2>3 DEF QueueInv
<1>7. CASE Len(old) # MAX_QUEUE_SIZE
  <2> HIDE DEF d, old
  <2>1. new = Append(old, proc)
    BY <1>7 DEF enqueue
  <2>2. /\ new \in Seq(Proc) /\ Len(new) = Len(old) + 1
        /\ \A k \in 1 .. Len(old) : new[k] = old[k]
        /\ new[Len(old) + 1] = proc
    BY <1>1, <2>1, AppendProperties
  <2> HIDE DEF new
  <2>3. DOMAIN new = 1 .. Len(old) + 1
    BY <2>2, LenProperties
  <2>4. IsInjective(new) /\ Len(new) <= MAX_QUEUE_SIZE
    <3>1. \A j, k \in 1 .. Len(old) : old[j] = old[k] => j = k
      BY <1>4 DEF IsInjective
    <3>2. \A j, k \in DOMAIN new : new[j] = new[k] => j = k
      BY <1>4, <1>5, <2>2, <2>3, <3>1
    <3>3. IsInjective(new)
      BY <3>2 DEF IsInjective
    <3>4. Len(old) \in Nat /\ Len(old) <= MAX_QUEUE_SIZE /\ Len(old) # MAX_QUEUE_SIZE /\ MAX_QUEUE_SIZE \in Nat
      BY <1>1, <1>4, <1>7
    <3>5. Len(new) <= MAX_QUEUE_SIZE
      BY <2>2, <3>4
    <3> QED BY <3>3, <3>5
  <2>5. QueueInv'
    BY <1>2, <1>3, <2>4 DEF QueueInv
  <2>6. \A q : (\E k \in DOMAIN new : new[k] = q) <=> q = proc \/ \E k \in DOMAIN old : old[k] = q
    BY SMTT(30), <1>4, <2>2, <2>3
  <2>7. \A q : Ready(q)' <=> q = proc \/ Ready(q)
    <3> DEFINE Elsewhere(q) == \E p \in Level \ {d} : \E j \in DOMAIN mlq_ready_queue[p] : mlq_ready_queue[p][j] = q
    <3>1. \A q : Ready(q) <=> Elsewhere(q) \/ \E k \in DOMAIN old : old[k] = q
      BY <1>1 DEF Ready, old
    <3>2. \A q : Ready(q)' <=> Elsewhere(q) \/ \E k \in DOMAIN new : new[k] = q
      BY <1>1, <1>2 DEF Ready
    <3> HIDE DEF Elsewhere
    <3> QED BY <2>6, <3>1, <3>2
  <2> QED BY <2>5, <2>7
<1> QED BY <1>6, <1>7

(* dequeue takes a process that waits out of its queue, and no other.       *)
LEMMA DequeueTakes ==
  ASSUME SchedAssumption, QueueInv, NEW d \in Level, NEW proc, Dequeue(d, proc)
  PROVE  /\ (IsInjective(mlq_ready_queue[d]) /\ Len(mlq_ready_queue[d]) <= MAX_QUEUE_SIZE)'
         /\ proc # NULL => Ready(proc) /\ ~Ready(proc)' /\ \A q : q # proc => (Ready(q)' <=> Ready(q))
<1> DEFINE old == mlq_ready_queue[d]
           new == Removed(old)
<1>1. /\ old \in Seq(Proc) /\ SchedTypeOK /\ SameLevel /\ MAX_QUEUE_SIZE \in Nat
      /\ IsInjective(old) /\ Len(old) <= MAX_QUEUE_SIZE
  BY DEF SchedAssumption, QueueInv, SchedTypeOK
<1>2. /\ proc = Dequeued(old)
      /\ mlq_ready_queue'[d] = new
      /\ \A p \in Level \ {d} : mlq_ready_queue'[p] = mlq_ready_queue[p]
  BY <1>1 DEF Dequeue, SchedTypeOK
<1>3. CASE empty(old)
  <2>1. proc = NULL /\ new = old
    BY <1>2, <1>3 DEF Dequeued, Removed
  <2> QED BY <1>1, <1>2, <2>1
<1>4. CASE ~empty(old)
  <2>1. \A k \in DOMAIN old : prio[old[k]] = d
    BY <1>1 DEF SameLevel
  <2>2. d \in Int
    BY DEF Level
  <2>3. /\ Dequeued(old) = old[1] /\ old[1] \in Proc /\ 1 \in DOMAIN old
        /\ new \in Seq(Proc) /\ Len(new) = Len(old) - 1
        /\ \A k \in DOMAIN new : k + 1 \in DOMAIN old /\ new[k] = old[k + 1]
    BY <1>1, <1>4, <2>1, <2>2, DequeueFirst DEF empty
  <2> HIDE DEF old, new
  <2>4. DOMAIN old = 1 .. Len(old) /\ DOMAIN new = 1 .. Len(old) - 1 /\ Len(old) \in Nat
    BY <1>1, <2>3, LenProperties
  <2>5. \A j, k \in DOMAIN old : old[j] = old[k] => j = k
    BY <1>1 DEF IsInjective
  <2>6. IsInjective(new) /\ Len(new) <= MAX_QUEUE_SIZE
    <3>1. \A j, k \in DOMAIN new : new[j] = new[k] => j = k
      BY <2>5, <2>3, <2>4
    <3>2. IsInjective(new)
      BY <3>1 DEF IsInjective
    <3> QED BY <1>1, <2>3, <2>4, <3>2
  <2>7. \A q : (\E k \in DOMAIN new : new[k] = q) <=> (q # old[1] /\ \E k \in DOMAIN old : old[k] = q)
    <3>1. ASSUME NEW k \in DOMAIN new PROVE new[k] # old[1] /\ \E j \in DOMAIN old : old[j] = new[k]
      <4>1. new[k] = old[k + 1] /\ k + 1 \in DOMAIN old /\ 1 \in DOMAIN old /\ k + 1 # 1
        BY <2>3, <2>4
      <4> QED BY <2>5, <4>1
    <3>2. ASSUME NEW k \in DOMAIN old, old[k] # old[1] PROVE \E j \in DOMAIN new : new[j] = old[k]
      <4>1. k # 1 /\ k - 1 \in DOMAIN new /\ (k - 1) + 1 = k
        BY <2>4, <3>2
      <4> QED BY <2>3, <4>1
    <3> QED BY <3>1, <3>2
  <2>8. proc = old[1] /\ prio[proc] = d
    BY <1>2, <2>1, <2>3
  <2>9. Ready(proc)
    BY <2>3, <2>8 DEF Ready, old
  <2>10. \A p \in Level \ {d} : \A k \in DOMAIN mlq_ready_queue[p] : mlq_ready_queue[p][k] # proc
    BY <1>1, <2>8 DEF SameLevel
  <2>11. ~Ready(proc)'
    BY <1>2, <2>7, <2>8, <2>10 DEF Ready
  <2>12. ASSUME NEW q, q # proc PROVE Ready(q)' <=> Ready(q)
    <3>1. (\E k \in DOMAIN new : new[k] = q) <=> (\E k \in DOMAIN old : old[k] = q)
      BY <2>7, <2>8, <2>12
    <3> QED BY <1>2, <3>1 DEF Ready, old
  <2> QED BY <1>2, <2>6, <2>9, <2>11, <2>12
<1> QED BY <1>3, <1>4

(* The search of get_mlq_proc stays within the levels. *)
LEMMA LevelOffset ==
  ASSUME SchedAssumption, NEW c \in Level, NEW offset \in 1 .. MAX_PRIO - 1
  PROVE  (c + offset) % MAX_PRIO \in Level
BY DEF SchedAssumption, Level

(* The second critical section of get_mlq_proc is a dequeue from one level. *)
LEMMA TakeReadyDequeues ==
  ASSUME SchedAssumption, SchedTypeOK, NEW proc, TakeReady(proc)
  PROVE  \E d \in Level : /\ Dequeue(d, proc) /\ curr_prio' \in Level /\ curr_slot' \in 0 .. MAX_PRIO
                          /\ running_list' = running_list
<1>1. MAX_PRIO \in Nat \ {0} /\ curr_prio \in Level
  BY DEF SchedAssumption, SchedTypeOK
<1>2. \A p \in Level : slot(p) - 1 \in 0 .. MAX_PRIO
  BY <1>1 DEF Level, slot
<1>3. CASE GetFromCurrent(proc)
  <2>1. curr_slot - 1 \in 0 .. MAX_PRIO
    BY <1>1, <1>3 DEF GetFromCurrent, InTurn, SchedTypeOK
  <2> QED BY <1>1, <1>3, <2>1 DEF GetFromCurrent
<1>4. CASE GetFromNext(proc)
  <2>1. PICK offset \in NearestReady :
          LET p == (curr_prio + offset) % MAX_PRIO
          IN  Dequeue(p, proc) /\ curr_prio' = p /\ curr_slot' = slot(p) - 1
    BY <1>4 DEF GetFromNext
  <2>2. offset \in 1 .. MAX_PRIO - 1
    BY DEF NearestReady, ReadyOffsets
  <2>3. (curr_prio + offset) % MAX_PRIO \in Level
    BY <1>1, <2>2, LevelOffset
  <2> QED BY <1>2, <1>4, <2>1, <2>3 DEF GetFromNext
<1>5. CASE GetFromFirst(proc)
  <2>1. 0 \in Level
    BY <1>1 DEF Level
  <2> QED BY <1>2, <1>5, <2>1 DEF GetFromFirst
<1> QED BY <1>3, <1>4, <1>5 DEF TakeReady

(* A dispatch keeps the types and the levels of the queues. *)
LEMMA TakeReadyKeeps ==
  ASSUME SchedAssumption, SchedTypeOK, SameLevel, NEW proc, TakeReady(proc)
  PROVE  SchedTypeOK' /\ SameLevel' /\ (proc # NULL => proc \in Proc)
<1>1. PICK d \in Level : /\ Dequeue(d, proc) /\ curr_prio' \in Level /\ curr_slot' \in 0 .. MAX_PRIO
                         /\ running_list' = running_list
  BY TakeReadyDequeues
<1>2. /\ mlq_ready_queue' \in [Level -> Seq(Proc)] /\ SameLevel'
      /\ empty(mlq_ready_queue[d]) => proc = NULL
      /\ ~empty(mlq_ready_queue[d]) => proc \in Proc
  BY <1>1, DequeueKeeps
<1> QED BY <1>1, <1>2 DEF SchedTypeOK

(* It takes the process it returns out of the queues, and leaves them alone *)
(* if it returns NULL.                                                      *)
LEMMA TakeReadyTakes ==
  ASSUME SchedAssumption, QueueInv, NEW proc, TakeReady(proc)
  PROVE  /\ QueueInv'
         /\ proc = NULL => \A q : Ready(q)' <=> Ready(q)
         /\ proc # NULL => /\ proc \in Proc /\ Ready(proc) /\ ~Ready(proc)'
                           /\ \A q : q # proc => (Ready(q)' <=> Ready(q))
<1>1. SchedTypeOK /\ SameLevel /\ NULL \notin Proc
  BY DEF QueueInv, SchedAssumption
<1>2. SchedTypeOK' /\ SameLevel'
  BY <1>1, TakeReadyKeeps
<1>3. PICK d \in Level : Dequeue(d, proc)
  BY <1>1, TakeReadyDequeues
<1>4. /\ \A p \in Level \ {d} : mlq_ready_queue'[p] = mlq_ready_queue[p]
      /\ empty(mlq_ready_queue[d]) => proc = NULL /\ mlq_ready_queue' = mlq_ready_queue
      /\ ~empty(mlq_ready_queue[d]) => proc \in Proc
  BY <1>1, <1>3, DequeueKeeps
<1>5. /\ (IsInjective(mlq_ready_queue[d]) /\ Len(mlq_ready_queue[d]) <= MAX_QUEUE_SIZE)'
      /\ proc # NULL => Ready(proc) /\ ~Ready(proc)' /\ \A q : q # proc => (Ready(q)' <=> Ready(q))
  BY <1>3, DequeueTakes
<1>6. QueueInv'
  BY <1>2, <1>4, <1>5 DEF QueueInv
<1>7. ASSUME proc = NULL, NEW q PROVE Ready(q)' <=> Ready(q)
  <2>1. mlq_ready_queue' = mlq_ready_queue
    BY <1>1, <1>4, <1>7
  <2> QED BY <2>1 DEF Ready
<1> QED BY <1>1, <1>4, <1>5, <1>6, <1>7

(* It takes it from the level that has the turn after it, and leaves that    *)
(* turn one dispatch shorter.                                               *)
LEMMA TakenInTurn ==
  ASSUME SchedAssumption, QueueInv, NEW proc \in Proc, TakeReady(proc)
  PROVE  /\ prio[proc] = curr_prio'
         /\ \/ curr_prio' = curr_prio /\ curr_slot' = curr_slot - 1
            \/ curr_slot' = slot(curr_prio') - 1
<1>1. SchedTypeOK /\ SameLevel /\ proc # NULL /\ MAX_PRIO \in Nat \ {0}
  BY DEF QueueInv, SchedAssumption
<1>2. curr_prio \in Level /\ 0 \in Level
  BY <1>1 DEF SchedTypeOK, Level
<1>3. ASSUME NEW d \in Level, Dequeue(d, proc) PROVE prio[proc] = d
  <2> DEFINE old == mlq_ready_queue[d]
  <2>1. old \in Seq(Proc) /\ proc = Dequeued(old)
    BY <1>1, <1>3 DEF SchedTypeOK, Dequeue
  <2>2. \A k \in DOMAIN old : prio[old[k]] = d
    BY DEF QueueInv, SameLevel
  <2>3. old # <<>> /\ d \in Int
    BY <1>1, <2>1 DEF Dequeued, empty, Level
  <2>4. Dequeued(old) = old[1] /\ 1 \in DOMAIN old
    BY <2>1, <2>2, <2>3, DequeueFirst
  <2> QED BY <2>1, <2>2, <2>4
<1>4. CASE GetFromCurrent(proc)
  BY <1>2, <1>3, <1>4 DEF GetFromCurrent
<1>5. CASE GetFromNext(proc)
  <2>1. PICK offset \in NearestReady :
          LET p == (curr_prio + offset) % MAX_PRIO
          IN  Dequeue(p, proc) /\ curr_prio' = p /\ curr_slot' = slot(p) - 1
    BY <1>5 DEF GetFromNext
  <2>2. (curr_prio + offset) % MAX_PRIO \in Level
    BY <1>2, LevelOffset DEF NearestReady, ReadyOffsets
  <2> QED BY <1>3, <2>1, <2>2
<1>6. CASE GetFromFirst(proc)
  BY <1>2, <1>3, <1>6 DEF GetFromFirst
<1> QED BY <1>4, <1>5, <1>6 DEF TakeReady

(* The search of get_mlq_proc can reach every level but its own.            *)
LEMMA EveryLevelSearched ==
  ASSUME SchedAssumption, NEW c \in Level, NEW p \in Level \ {c}
  PROVE  \E offset \in 1 .. MAX_PRIO - 1 : (c + offset) % MAX_PRIO = p
<1>1. MAX_PRIO \in Nat \ {0} /\ c \in 0 .. MAX_PRIO - 1 /\ p \in 0 .. MAX_PRIO - 1 /\ p # c
  BY DEF SchedAssumption, Level
<1>2. CASE p > c
  <2>1. p - c \in 1 .. MAX_PRIO - 1 /\ (c + (p - c)) % MAX_PRIO = p
    BY <1>1, <1>2
  <2> QED BY <2>1
<1>3. CASE p < c
  <2>1. p - c + MAX_PRIO \in 1 .. MAX_PRIO - 1 /\ c + (p - c + MAX_PRIO) = p + MAX_PRIO
    BY <1>1, <1>3
  <2>2. (p + MAX_PRIO) % MAX_PRIO = p
    BY <1>1
  <2>3. (c + (p - c + MAX_PRIO)) % MAX_PRIO = p
    BY <2>1, <2>2
  <2> QED BY <2>1, <2>3
<1> QED BY <1>1, <1>2, <1>3

(* get_mlq_proc returns no process only when none is ready but of one       *)
(* level, not the first, that has used up its turn.                         *)
LEMMA NothingTaken ==
  ASSUME SchedAssumption, QueueInv, TakeReady(NULL)
  PROVE  /\ curr_prio' = 0
         /\ \A q : Ready(q) => prio[q] = curr_prio /\ curr_prio # 0 /\ curr_slot = 0
<1>1. SchedTypeOK /\ SameLevel /\ NULL \notin Proc /\ MAX_PRIO \in Nat \ {0}
  BY DEF QueueInv, SchedAssumption
<1>2. curr_prio \in Level /\ 0 \in Level /\ curr_slot \in Nat
  BY <1>1 DEF SchedTypeOK, Level
<1>3. ASSUME NEW d \in Level, Dequeue(d, NULL) PROVE empty(mlq_ready_queue[d])
  BY <1>1, <1>3, DequeueKeeps
<1>4. ~GetFromCurrent(NULL)
  BY <1>2, <1>3 DEF GetFromCurrent, InTurn
<1>5. ~GetFromNext(NULL)
  <2>1. SUFFICES ASSUME NEW offset \in NearestReady, Dequeue((curr_prio + offset) % MAX_PRIO, NULL)
                 PROVE  FALSE
    BY DEF GetFromNext
  <2>2. offset \in 1 .. MAX_PRIO - 1 /\ ~empty(mlq_ready_queue[(curr_prio + offset) % MAX_PRIO])
    BY DEF NearestReady, ReadyOffsets
  <2>3. (curr_prio + offset) % MAX_PRIO \in Level
    BY <1>2, <2>2, LevelOffset
  <2> QED BY <1>3, <2>1, <2>2, <2>3
<1>6. GetFromFirst(NULL)
  BY <1>4, <1>5 DEF TakeReady
<1>7. ~InTurn /\ ReadyOffsets = {} /\ empty(mlq_ready_queue[0]) /\ curr_prio' = 0
  BY <1>2, <1>3, <1>6 DEF GetFromFirst
<1>8. \A p \in Level \ {curr_prio} : empty(mlq_ready_queue[p])
  BY <1>2, <1>7, EveryLevelSearched DEF ReadyOffsets
<1>9. ASSUME NEW q, Ready(q) PROVE prio[q] = curr_prio /\ curr_prio # 0 /\ curr_slot = 0
  <2>1. q \in Proc /\ \E j \in DOMAIN mlq_ready_queue[prio[q]] : mlq_ready_queue[prio[q]][j] = q
    BY <1>1, <1>9, ReadyAtLevel
  <2>2. prio[q] \in Level
    BY <2>1 DEF SchedAssumption, Level
  <2>3. ~empty(mlq_ready_queue[prio[q]])
    BY <2>1 DEF empty
  <2> QED BY <1>2, <1>7, <1>8, <2>2, <2>3 DEF InTurn
<1> QED BY <1>7, <1>9

(* The running list is of no concern to the queues.                         *)
LEMMA ListRunningKeeps ==
  ASSUME SchedAssumption, QueueInv, NEW proc \in Proc, ListRunning(proc)
  PROVE  QueueInv' /\ \A q : Ready(q)' <=> Ready(q)
<1>1. SchedTypeOK'
  BY EnqueueProperties DEF QueueInv, SchedTypeOK, ListRunning
<1> QED BY <1>1 DEF QueueInv, ListRunning, SameLevel, Ready

(* A step outside of the scheduler keeps the queues. *)
LEMMA QueuesUnchanged ==
  ASSUME QueueInv, UNCHANGED schedVars
  PROVE  QueueInv' /\ \A q : Ready(q)' <=> Ready(q)
BY DEF QueueInv, SchedTypeOK, SameLevel, Ready, schedVars

(* The queues that init_scheduler makes. *)
LEMMA QueuesInit ==
  ASSUME SchedAssumption, InitScheduler
  PROVE  QueueInv /\ \A q : ~Ready(q)
<1>1. SchedTypeOK /\ MAX_QUEUE_SIZE \in Nat
  BY DEF SchedAssumption, InitScheduler, SchedTypeOK, Level
<1> QED BY <1>1 DEF InitScheduler, QueueInv, SameLevel, Ready, IsInjective

=============================================================================
