--------------------------- MODULE KillAllProofs ---------------------------
(***************************************************************************)
(* Safety of src/sys_killall.c over the scheduler and its callers, of      *)
(* killalls nobody disturbs (KillAll says what that leaves out): types,    *)
(* that no process is lost, and that the others keep their order, for      *)
(* every number of levels, CPUs and processes.                             *)
(***************************************************************************)
EXTENDS KillAll, SchedClientsProofs

(* The inductive invariants. *)

(* A killall works on processes of one level at a time.                     *)
KindInv ==
  /\ KillTypeOK
  /\ HoldsOne
  /\ SameLevel
  /\ \A c \in CPU : pr[c] # -1 => \A k \in DOMAIN temp_queue[c] : prio[temp_queue[c][k]] = pr[c]

(* The processes of the level under work are in its queue or in killall's   *)
(* own, once, and so one queue had room for those of both.                  *)
AloneInv ==
  /\ \A c \in CPU : kpc[c] = "no" => pr[c] = -1 /\ empty(temp_queue[c])
  /\ \A c, d \in CPU : kpc[c] # "no" /\ kpc[d] # "no" => c = d
  /\ \A p \in Level : IsInjective(mlq_ready_queue[p]) /\ Len(mlq_ready_queue[p]) <= MAX_QUEUE_SIZE
  /\ \A c \in CPU : pr[c] # -1 =>
       /\ IsInjective(temp_queue[c])
       /\ ToSet(mlq_ready_queue[pr[c]]) \intersect ToSet(temp_queue[c]) = {}
       /\ Len(mlq_ready_queue[pr[c]]) + Len(temp_queue[c]) <= MAX_QUEUE_SIZE

Waiting(q) ==
  \/ q \in ToSet(mlq_ready_queue[prio[q]])
  \/ \E c \in CPU : pr[c] = prio[q] /\ q \in ToSet(temp_queue[c])

WaitInv == \A q \in Proc :
  /\ ~(Waiting(q) /\ Away(q))
  /\ q \in killed => ~Waiting(q) /\ ~Away(q)
  /\ Cardinality(Rivals(q)) <= MAX_QUEUE_SIZE => Waiting(q) \/ Away(q) \/ q \in killed

KillInv == KindInv /\ AwayInv /\ AloneInv /\ WaitInv

-----------------------------------------------------------------------------
(* What removing one place of a queue leaves. *)
LEMMA RemoveAtProperties ==
  ASSUME NEW q \in Seq(Proc), NEW k \in DOMAIN q
  PROVE  /\ RemoveAt(q, k) \in Seq(Proc)
         /\ Len(RemoveAt(q, k)) = Len(q) - 1
         /\ \A j \in 1 .. Len(q) - 1 : RemoveAt(q, k)[j] = q[IF j < k THEN j ELSE j + 1]
<1>1. Len(q) \in Nat /\ DOMAIN q = 1 .. Len(q) /\ \A j \in 1 .. Len(q) : q[j] \in Proc
  BY LenProperties, ElementOfSeq
<1> DEFINE a == SubSeq(q, 1, k - 1)
           b == SubSeq(q, k + 1, Len(q))
<1>2. /\ a \in Seq(Proc) /\ Len(a) = k - 1
      /\ \A j \in 1 .. k - 1 : a[j] = q[j]
  <2>1. \A j \in 1 .. k - 1 : q[j] \in Proc
    BY <1>1
  <2>2. /\ a \in Seq(Proc)
        /\ Len(a) = IF 1 <= k - 1 THEN k - 1 - 1 + 1 ELSE 0
        /\ \A j \in 1 .. k - 1 - 1 + 1 : a[j] = q[1 + j - 1]
    BY <1>1, <2>1, SubSeqProperties
  <2> QED BY <1>1, <2>2
<1>3. /\ b \in Seq(Proc) /\ Len(b) = Len(q) - k
      /\ \A j \in 1 .. Len(q) - k : b[j] = q[k + j]
  <2>1. \A j \in k + 1 .. Len(q) : q[j] \in Proc
    BY <1>1
  <2>2. /\ b \in Seq(Proc)
        /\ Len(b) = IF k + 1 <= Len(q) THEN Len(q) - (k + 1) + 1 ELSE 0
        /\ \A j \in 1 .. Len(q) - (k + 1) + 1 : b[j] = q[(k + 1) + j - 1]
    BY <1>1, <2>1, SubSeqProperties
  <2> QED BY <1>1, <2>2
<1> HIDE DEF a, b
<1>4. /\ a \o b \in Seq(Proc)
      /\ Len(a \o b) = Len(a) + Len(b)
      /\ \A j \in 1 .. Len(a) + Len(b) : (a \o b)[j] = IF j <= Len(a) THEN a[j] ELSE b[j - Len(a)]
  BY <1>2, <1>3, ConcatProperties
<1>5. RemoveAt(q, k) = a \o b
  BY DEF RemoveAt, a, b
<1>6. Len(a) + Len(b) = Len(q) - 1 /\ Len(a) = k - 1
  BY <1>1, <1>2, <1>3
<1>7. ASSUME NEW j \in 1 .. Len(q) - 1 PROVE (a \o b)[j] = q[IF j < k THEN j ELSE j + 1]
  <2>1. CASE j < k
    BY <1>1, <1>2, <1>4, <1>6, <2>1
  <2>2. CASE ~(j < k)
    <3>1. (a \o b)[j] = b[j - (k - 1)]
      BY <1>1, <1>4, <1>6, <2>2
    <3>2. j - (k - 1) \in 1 .. Len(q) - k /\ k + (j - (k - 1)) = j + 1
      BY <1>1, <2>2
    <3> QED BY <1>3, <2>2, <3>1, <3>2
  <2> QED BY <2>1, <2>2
<1> QED BY <1>4, <1>5, <1>6, <1>7

(* What is left of a queue after a removal was in it before. *)
LEMMA RemovedFrom ==
  ASSUME NEW q \in Seq(Proc), NEW k \in DOMAIN q
  PROVE  /\ RemoveAt(q, k) \in Seq(Proc)
         /\ \A j \in DOMAIN RemoveAt(q, k) : \E i \in DOMAIN q : RemoveAt(q, k)[j] = q[i]
<1> DEFINE r == RemoveAt(q, k)
<1>1. Len(q) \in Nat /\ DOMAIN q = 1 .. Len(q)
  BY LenProperties
<1>2. /\ r \in Seq(Proc) /\ Len(r) = Len(q) - 1
      /\ \A j \in 1 .. Len(q) - 1 : r[j] = q[IF j < k THEN j ELSE j + 1]
  BY RemoveAtProperties
<1> HIDE DEF r
<1>3. DOMAIN r = 1 .. Len(q) - 1
  BY <1>2, LenProperties
<1>4. \A j \in 1 .. Len(q) - 1 : (IF j < k THEN j ELSE j + 1) \in 1 .. Len(q)
  BY <1>1
<1>5. \A j \in DOMAIN r : \E i \in DOMAIN q : r[j] = q[i]
  BY <1>1, <1>2, <1>3, <1>4
<1> QED BY <1>2, <1>5 DEF r

(* Of a queue that holds each process once it is the others, once.          *)
LEMMA RemoveAtOnce ==
  ASSUME NEW q \in Seq(Proc), NEW k \in DOMAIN q, IsInjective(q)
  PROVE  /\ IsInjective(RemoveAt(q, k))
         /\ ToSet(RemoveAt(q, k)) = ToSet(q) \ {q[k]}
<1> DEFINE r == RemoveAt(q, k)
<1>1. Len(q) \in Nat /\ DOMAIN q = 1 .. Len(q)
  BY LenProperties
<1>2. /\ r \in Seq(Proc) /\ Len(r) = Len(q) - 1
      /\ \A j \in 1 .. Len(q) - 1 : r[j] = q[IF j < k THEN j ELSE j + 1]
  BY RemoveAtProperties
<1> HIDE DEF r
<1>3. DOMAIN r = 1 .. Len(q) - 1
  BY <1>2, LenProperties
<1>4. \A i, j \in 1 .. Len(q) : q[i] = q[j] => i = j
  BY <1>1 DEF IsInjective
<1>5. IsInjective(r)
  <2>1. ASSUME NEW i \in 1 .. Len(q) - 1, NEW j \in 1 .. Len(q) - 1, r[i] = r[j]
        PROVE  i = j
    <3> DEFINE up(n) == IF n < k THEN n ELSE n + 1
    <3>1. up(i) \in 1 .. Len(q) /\ up(j) \in 1 .. Len(q) /\ q[up(i)] = q[up(j)]
      BY <1>1, <1>2, <2>1
    <3>2. up(i) = up(j)
      BY <1>4, <3>1
    <3> QED BY <1>1, <3>2
  <2> QED BY <1>3, <2>1 DEF IsInjective
<1>6. ASSUME NEW x PROVE x \in ToSet(r) <=> x \in ToSet(q) \ {q[k]}
  <2>1. ASSUME NEW j \in 1 .. Len(q) - 1, x = r[j]
        PROVE  x # q[k] /\ \E i \in 1 .. Len(q) : x = q[i]
    <3> DEFINE i == IF j < k THEN j ELSE j + 1
    <3>1. i \in 1 .. Len(q) /\ i # k /\ x = q[i]
      BY <1>1, <1>2, <2>1
    <3> HIDE DEF i
    <3> QED BY <1>1, <1>4, <3>1
  <2>2. ASSUME NEW i \in 1 .. Len(q), x = q[i], x # q[k]
        PROVE  \E j \in 1 .. Len(q) - 1 : x = r[j]
    <3>1. CASE i < k
      <4>1. i \in 1 .. Len(q) - 1
        BY <1>1, <3>1
      <4> QED BY <1>2, <2>2, <3>1, <4>1
    <3>2. CASE i > k
      <4>1. i - 1 \in 1 .. Len(q) - 1 /\ ~(i - 1 < k) /\ i - 1 + 1 = i
        BY <1>1, <3>2
      <4>2. r[i - 1] = q[i]
        BY <1>2, <4>1
      <4> QED BY <2>2, <4>1, <4>2
    <3> QED BY <1>1, <2>2, <3>1, <3>2
  <2> QED BY <1>1, <1>3, <2>1, <2>2 DEF ToSet
<1>7. ToSet(r) = ToSet(q) \ {q[k]}
  BY <1>6
<1> QED BY <1>5, <1>7 DEF r

(* A process is added behind others. *)
LEMMA AppendOnce ==
  ASSUME NEW q \in Seq(Proc), NEW proc \in Proc, IsInjective(q), proc \notin ToSet(q)
  PROVE  /\ Append(q, proc) \in Seq(Proc) /\ Len(Append(q, proc)) = Len(q) + 1
         /\ IsInjective(Append(q, proc))
         /\ ToSet(Append(q, proc)) = ToSet(q) \union {proc}
<1> DEFINE r == Append(q, proc)
<1>1. Len(q) \in Nat /\ DOMAIN q = 1 .. Len(q)
  BY LenProperties
<1>2. /\ r \in Seq(Proc) /\ Len(r) = Len(q) + 1
      /\ \A j \in 1 .. Len(q) : r[j] = q[j]
      /\ r[Len(q) + 1] = proc
  BY AppendProperties
<1> HIDE DEF r
<1>3. DOMAIN r = 1 .. Len(q) + 1
  BY <1>2, LenProperties
<1>4. \A i, j \in 1 .. Len(q) : q[i] = q[j] => i = j
  BY <1>1 DEF IsInjective
<1>5. \A j \in 1 .. Len(q) : q[j] # proc
  BY <1>1 DEF ToSet
<1>6. \A i, j \in 1 .. Len(q) + 1 : r[i] = r[j] => i = j
  BY <1>1, <1>2, <1>4, <1>5
<1>7. ASSUME NEW x PROVE x \in ToSet(r) <=> x \in ToSet(q) \union {proc}
  <2>1. (\E j \in 1 .. Len(q) + 1 : x = r[j]) <=> x = proc \/ \E j \in 1 .. Len(q) : x = q[j]
    BY SMTT(30), <1>1, <1>2
  <2> QED BY <1>1, <1>3, <2>1 DEF ToSet
<1>8. IsInjective(r) /\ ToSet(r) = ToSet(q) \union {proc}
  BY <1>3, <1>6, <1>7 DEF IsInjective
<1> QED BY <1>2, <1>8 DEF r

-----------------------------------------------------------------------------
(* Types. *)

(* The queue under work. *)
LEMMA QueueOfKind ==
  ASSUME SchedAssumption, KindInv, NEW c \in CPU
  PROVE  /\ QueueOf(c) \in Seq(Proc) /\ temp_queue[c] \in Seq(Proc)
         /\ pr[c] # -1 => /\ pr[c] \in Level /\ QueueOf(c) = mlq_ready_queue[pr[c]]
                          /\ \A k \in DOMAIN QueueOf(c) : prio[QueueOf(c)[k]] = pr[c]
<1>1. SchedTypeOK /\ pr[c] \in -1 .. MAX_PRIO - 1 /\ MAX_PRIO \in Nat /\ temp_queue[c] \in Seq(Proc)
  BY DEF KindInv, KillTypeOK, TypeOK, SchedAssumption
<1>2. CASE pr[c] = -1
  BY <1>1, <1>2 DEF QueueOf, SchedTypeOK
<1>3. CASE pr[c] # -1
  <2>1. pr[c] \in Level
    BY <1>1, <1>3 DEF Level
  <2>2. QueueOf(c) = mlq_ready_queue[pr[c]]
    BY <1>3 DEF QueueOf
  <2> QED BY <1>1, <1>3, <2>1, <2>2 DEF SchedTypeOK, KindInv, SameLevel
<1> QED BY <1>2, <1>3

(* killall changes nothing but the queue under work, and its contents to    *)
(* processes of its level.                                                  *)
LEMMA SetQueueKeeps ==
  ASSUME SchedAssumption, KindInv, NEW c \in CPU, NEW q \in Seq(Proc), SetQueue(c, q),
         pr[c] # -1 => \A k \in DOMAIN q : prio[q[k]] = pr[c]
  PROVE  TypeOK' /\ HoldsOne' /\ SameLevel'
<1>1. /\ UNCHANGED <<curr_prio, curr_slot, passed, cpc, cur, unborn, adding, finished>>
      /\ pr[c] = -1 => running_list' = q /\ UNCHANGED mlq_ready_queue
      /\ pr[c] # -1 => mlq_ready_queue' = [mlq_ready_queue EXCEPT ![pr[c]] = q] /\ UNCHANGED running_list
  BY DEF SetQueue, clientVars
<1>2. TypeOK /\ SchedTypeOK /\ SameLevel /\ HoldsOne
  BY DEF KindInv, KillTypeOK, TypeOK
<1>3. SchedTypeOK' /\ SameLevel'
  <2>1. CASE pr[c] = -1
    BY <1>1, <1>2, <2>1 DEF SchedTypeOK, SameLevel
  <2>2. CASE pr[c] # -1
    <3>1. pr[c] \in Level
      BY <2>2, QueueOfKind
    <3>2. /\ mlq_ready_queue' \in [Level -> Seq(Proc)]
          /\ mlq_ready_queue'[pr[c]] = q
          /\ \A p \in Level \ {pr[c]} : mlq_ready_queue'[p] = mlq_ready_queue[p]
      BY <1>1, <1>2, <2>2, <3>1 DEF SchedTypeOK
    <3>3. SameLevel'
      BY <1>2, <2>2, <3>2 DEF SameLevel
    <3> QED BY <1>1, <1>2, <2>2, <3>2, <3>3 DEF SchedTypeOK
  <2> QED BY <2>1, <2>2
<1> QED BY <1>1, <1>2, <1>3 DEF TypeOK, HoldsOne

(* dequeue takes an entry that is there. *)
LEMMA CandidatesAt ==
  ASSUME NEW q, NEW k \in Candidates(q)
  PROVE  k \in DOMAIN q
BY DEF Candidates

(* The kinds at the start: every queue is empty. *)
LEMMA KindStart ==
  ASSUME SchedAssumption, KillAssumption, KillInit
  PROVE  KindInv
<1>1. TypeOK /\ HoldsOne /\ SameLevel
  BY InitTurn DEF KillInit, TurnInv
<1>2. AnyName \in Name
  BY DEF AnyName, KillAssumption
<1>3. -1 \in -1 .. MAX_PRIO - 1
  BY DEF SchedAssumption
<1>4. KillTypeOK
  BY <1>1, <1>2, <1>3, EmptySeq DEF KillInit, KillTypeOK
<1> QED BY <1>1, <1>4 DEF KillInit, KindInv

(* The kinds are kept by every step. *)
LEMMA KindStep ==
  ASSUME SchedAssumption, KillAssumption, KindInv, [KillNext]_killVars
  PROVE  KindInv'
<1>1. /\ TypeOK /\ HoldsOne /\ SameLevel
      /\ kpc \in [CPU -> {"no", "drain", "restore"}] /\ pr \in [CPU -> -1 .. MAX_PRIO - 1]
      /\ proc_name \in [CPU -> Name] /\ temp_queue \in [CPU -> Seq(Proc)] /\ killed \in SUBSET Proc
      /\ \A c \in CPU : pr[c] # -1 => \A k \in DOMAIN temp_queue[c] : prio[temp_queue[c][k]] = pr[c]
      /\ MAX_PRIO \in Nat \ {0}
  BY DEF KindInv, KillTypeOK, SchedAssumption
<1>2. ASSUME [Next]_vars, UNCHANGED <<kpc, pr, proc_name, temp_queue, killed>> PROVE KindInv'
  <2>1. TypeOK' /\ HoldsOne' /\ SameLevel'
    BY <1>1, <1>2, CallersStep
  <2> QED BY <1>1, <1>2, <2>1 DEF KindInv, KillTypeOK
<1>3. CASE UNCHANGED killVars
  BY <1>2, <1>3 DEF killVars, killLocals
<1>4. CASE Others
  <2>1. Next
    BY <1>4 DEF Others
  <2> QED BY <1>2, <1>4, <2>1 DEF Others, killLocals
<1>5. ASSUME NEW c \in CPU, NEW name \in Name, KillStart(c, name) PROVE KindInv'
  <2>1. TypeOK' /\ HoldsOne' /\ SameLevel'
    BY <1>1, <1>5, CallersStep DEF KillStart
  <2> QED BY <1>1, <1>5, <2>1 DEF KillStart, KindInv, KillTypeOK
<1>6. ASSUME NEW c \in CPU, Drain(c) PROVE KindInv'
  <2>1. PICK k \in Candidates(QueueOf(c)) :
          \E found \in Matches(QueueOf(c)[k], proc_name[c]) :
            /\ SetQueue(c, RemoveAt(QueueOf(c), k))
            /\ temp_queue' = IF found THEN temp_queue
                             ELSE [temp_queue EXCEPT ![c] = enqueue(temp_queue[c], QueueOf(c)[k])]
            /\ killed' = IF found /\ pr[c] # -1 THEN killed \union {QueueOf(c)[k]} ELSE killed
    BY <1>6 DEF Drain
  <2>2. PICK q \in Seq(Proc) : q = QueueOf(c)
    BY QueueOfKind
  <2>3. /\ k \in DOMAIN q /\ q[k] \in Proc
        /\ pr[c] # -1 => \A j \in DOMAIN q : prio[q[j]] = pr[c]
    BY <2>2, CandidatesAt, QueueOfKind, LenProperties, ElementOfSeq
  <2>4. /\ RemoveAt(q, k) \in Seq(Proc)
        /\ \A j \in DOMAIN RemoveAt(q, k) : \E i \in DOMAIN q : RemoveAt(q, k)[j] = q[i]
    BY <2>3, RemovedFrom
  <2>5. TypeOK' /\ HoldsOne' /\ SameLevel'
    <3> DEFINE r == RemoveAt(q, k)
    <3>1. SetQueue(c, r) /\ r \in Seq(Proc) /\ \A j \in DOMAIN r : \E i \in DOMAIN q : r[j] = q[i]
      BY <2>1, <2>2, <2>4
    <3> HIDE DEF r
    <3>2. pr[c] # -1 => \A j \in DOMAIN r : prio[r[j]] = pr[c]
      BY <2>3, <3>1
    <3> QED BY <3>1, <3>2, SetQueueKeeps
  <2>6. /\ UNCHANGED <<kpc, pr, proc_name>>
        /\ temp_queue' = temp_queue \/ temp_queue' = [temp_queue EXCEPT ![c] = enqueue(temp_queue[c], q[k])]
        /\ killed' \in SUBSET Proc
    BY <1>1, <1>6, <2>1, <2>2, <2>3 DEF Drain
  <2>7. /\ enqueue(temp_queue[c], q[k]) \in Seq(Proc)
        /\ \A j \in DOMAIN enqueue(temp_queue[c], q[k]) :
             \/ enqueue(temp_queue[c], q[k])[j] = q[k]
             \/ j \in DOMAIN temp_queue[c] /\ enqueue(temp_queue[c], q[k])[j] = temp_queue[c][j]
    BY <1>1, <2>3, EnqueueProperties
  <2>8. KillTypeOK'
    <3>1. temp_queue' \in [CPU -> Seq(Proc)]
      BY <1>1, <2>6, <2>7
    <3>2. kpc' \in [CPU -> {"no", "drain", "restore"}]
      BY <1>1, <2>6
    <3> QED BY <1>1, <2>5, <2>6, <3>1, <3>2 DEF KillTypeOK
  <2>9. \A d \in CPU : pr'[d] # -1 => \A j \in DOMAIN temp_queue'[d] : prio[temp_queue'[d][j]] = pr'[d]
    <3>1. CASE temp_queue' = temp_queue
      BY <1>1, <2>6, <3>1
    <3>2. CASE temp_queue' = [temp_queue EXCEPT ![c] = enqueue(temp_queue[c], q[k])]
      <4>1. \A d \in CPU \ {c} : temp_queue'[d] = temp_queue[d]
        BY <1>1, <3>2
      <4>2. temp_queue'[c] = enqueue(temp_queue[c], q[k])
        BY <1>1, <3>2
      <4>3. pr[c] # -1 => \A j \in DOMAIN temp_queue'[c] : prio[temp_queue'[c][j]] = pr[c]
        <5> DEFINE e == enqueue(temp_queue[c], q[k])
        <5>1. \A j \in DOMAIN e : e[j] = q[k] \/ (j \in DOMAIN temp_queue[c] /\ e[j] = temp_queue[c][j])
          BY <2>7
        <5> HIDE DEF e
        <5>2. pr[c] # -1 => prio[q[k]] = pr[c] /\ \A j \in DOMAIN temp_queue[c] : prio[temp_queue[c][j]] = pr[c]
          BY <1>1, <2>3
        <5>3. pr[c] # -1 => \A j \in DOMAIN e : prio[e[j]] = pr[c]
          BY <5>1, <5>2
        <5> QED BY <4>2, <5>3 DEF e
      <4> QED BY <1>1, <2>6, <4>1, <4>3
    <3> QED BY <2>6, <3>1, <3>2
  <2> QED BY <2>5, <2>8, <2>9 DEF KindInv
<1>8. ASSUME NEW c \in CPU, DrainEnd(c) PROVE KindInv'
  <2>1. TypeOK' /\ HoldsOne' /\ SameLevel'
    BY <1>1, <1>8, CallersStep DEF DrainEnd
  <2> QED BY <1>1, <1>8, <2>1 DEF DrainEnd, KindInv, KillTypeOK
<1>9. ASSUME NEW c \in CPU, Restore(c) PROVE KindInv'
  <2>1. PICK k \in Candidates(temp_queue[c]) :
          /\ SetQueue(c, enqueue(QueueOf(c), temp_queue[c][k]))
          /\ temp_queue' = [temp_queue EXCEPT ![c] = RemoveAt(temp_queue[c], k)]
    BY <1>9 DEF Restore
  <2>2. PICK q \in Seq(Proc), t \in Seq(Proc) : q = QueueOf(c) /\ t = temp_queue[c]
    BY <1>1, QueueOfKind
  <2>3. /\ k \in DOMAIN t /\ t[k] \in Proc
        /\ pr[c] # -1 => \A j \in DOMAIN q : prio[q[j]] = pr[c]
        /\ pr[c] # -1 => \A j \in DOMAIN t : prio[t[j]] = pr[c]
    BY <1>1, <2>2, CandidatesAt, QueueOfKind, LenProperties, ElementOfSeq
  <2>4. /\ enqueue(q, t[k]) \in Seq(Proc)
        /\ \A j \in DOMAIN enqueue(q, t[k]) :
             \/ enqueue(q, t[k])[j] = t[k]
             \/ j \in DOMAIN q /\ enqueue(q, t[k])[j] = q[j]
    BY <2>3, EnqueueProperties
  <2>5. TypeOK' /\ HoldsOne' /\ SameLevel'
    <3> DEFINE e == enqueue(q, t[k])
    <3>1. SetQueue(c, e) /\ e \in Seq(Proc)
      BY <2>1, <2>2, <2>4
    <3>2. \A j \in DOMAIN e : e[j] = t[k] \/ (j \in DOMAIN q /\ e[j] = q[j])
      BY <2>4
    <3> HIDE DEF e
    <3>3. ASSUME pr[c] # -1, NEW j \in DOMAIN e PROVE prio[e[j]] = pr[c]
      <4>1. CASE e[j] = t[k]
        BY <2>3, <3>3, <4>1
      <4>2. CASE j \in DOMAIN q /\ e[j] = q[j]
        BY <2>3, <3>3, <4>2
      <4> QED BY <3>2, <3>3, <4>1, <4>2
    <3> QED BY <3>1, <3>3, SetQueueKeeps
  <2>6. /\ RemoveAt(t, k) \in Seq(Proc)
        /\ \A j \in DOMAIN RemoveAt(t, k) : \E i \in DOMAIN t : RemoveAt(t, k)[j] = t[i]
    BY <2>3, RemovedFrom
  <2>7. /\ temp_queue' \in [CPU -> Seq(Proc)] /\ temp_queue'[c] = RemoveAt(t, k)
        /\ \A d \in CPU \ {c} : temp_queue'[d] = temp_queue[d]
        /\ UNCHANGED <<kpc, pr, proc_name, killed>>
    BY <1>1, <1>9, <2>1, <2>2, <2>6 DEF Restore
  <2>8. \A d \in CPU : pr'[d] # -1 => \A j \in DOMAIN temp_queue'[d] : prio[temp_queue'[d][j]] = pr'[d]
    <3> DEFINE r == RemoveAt(t, k)
    <3>1. temp_queue'[c] = r /\ \A j \in DOMAIN r : \E i \in DOMAIN t : r[j] = t[i]
      BY <2>6, <2>7
    <3> HIDE DEF r
    <3>2. pr[c] # -1 => \A j \in DOMAIN r : prio[r[j]] = pr[c]
      BY <2>3, <3>1
    <3>3. \A d \in CPU \ {c} : pr'[d] # -1 => \A j \in DOMAIN temp_queue'[d] : prio[temp_queue'[d][j]] = pr'[d]
      BY <1>1, <2>7
    <3>4. pr'[c] # -1 => \A j \in DOMAIN temp_queue'[c] : prio[temp_queue'[c][j]] = pr'[c]
      BY <2>7, <3>1, <3>2
    <3> QED BY <3>3, <3>4
  <2> QED BY <1>1, <2>5, <2>7, <2>8 DEF KindInv, KillTypeOK
<1>10. ASSUME NEW c \in CPU, NextQueue(c) PROVE KindInv'
  <2>1. TypeOK' /\ HoldsOne' /\ SameLevel'
    BY <1>1, <1>10, CallersStep DEF NextQueue
  <2>2. pr[c] + 1 \in -1 .. MAX_PRIO - 1
    <3>1. pr[c] \in -1 .. MAX_PRIO - 1
      BY DEF KindInv, KillTypeOK
    <3>2. pr[c] # MAX_PRIO - 1
      BY <1>10 DEF NextQueue, LastQueue
    <3>3. MAX_PRIO \in Nat
      BY <1>1
    <3> QED BY <3>1, <3>2, <3>3
  <2>3. /\ kpc' = [kpc EXCEPT ![c] = "drain"] /\ pr' = [pr EXCEPT ![c] = pr[c] + 1]
        /\ temp_queue' = [temp_queue EXCEPT ![c] = <<>>] /\ UNCHANGED <<proc_name, killed>>
    BY <1>10 DEF NextQueue
  <2> QED BY <1>1, <2>1, <2>2, <2>3, EmptySeq DEF KindInv, KillTypeOK
<1>11. ASSUME NEW c \in CPU, KillEnd(c) PROVE KindInv'
  <2>1. TypeOK' /\ HoldsOne' /\ SameLevel'
    BY <1>1, <1>11, CallersStep DEF KillEnd
  <2>2. AnyName \in Name
    BY DEF AnyName, KillAssumption
  <2>3. -1 \in -1 .. MAX_PRIO - 1
    BY <1>1
  <2>4. /\ kpc' = [kpc EXCEPT ![c] = "no"] /\ pr' = [pr EXCEPT ![c] = -1]
        /\ proc_name' = [proc_name EXCEPT ![c] = AnyName]
        /\ temp_queue' = [temp_queue EXCEPT ![c] = <<>>] /\ UNCHANGED killed
    BY <1>11 DEF KillEnd
  <2> QED BY <1>1, <2>1, <2>2, <2>3, <2>4, EmptySeq DEF KindInv, KillTypeOK
<1> QED BY <1>3, <1>4, <1>5, <1>6, <1>8, <1>9, <1>10, <1>11 DEF KillNext, KillAll

(* Type correctness of a killall nobody disturbs: what it has in temp_queue *)
(* are processes, and it goes through the levels there are.                 *)
THEOREM KillTypeCorrect == KillSpec => []KillTypeOK
<1>1. KillInit => KindInv
  BY SchedAssumption, KillAssumption, KindStart
<1>2. KindInv /\ [KillNext]_killVars => KindInv'
  BY SchedAssumption, KillAssumption, KindStep
<1>3. KindInv => KillTypeOK
  BY DEF KindInv
<1> QED BY <1>1, <1>2, <1>3, PTL DEF KillSpec

-----------------------------------------------------------------------------
(* Places. *)

(* No killall is at work, and nothing of one is left. *)
Calm == KindInv /\ NoKillAll /\ \A c \in CPU : pr[c] = -1 /\ empty(temp_queue[c])

LEMMA CalmWaiting == Calm => \A q \in Proc : Waiting(q) <=> Ready(q)
<1> SUFFICES ASSUME Calm, NEW q \in Proc
             PROVE  Waiting(q) <=> Ready(q)
  OBVIOUS
<1>1. SchedTypeOK /\ SameLevel
  BY DEF Calm, KindInv, KillTypeOK, TypeOK
<1>2. prio[q] # -1
  BY SchedAssumption DEF SchedAssumption
<1>3. Waiting(q) <=> q \in ToSet(mlq_ready_queue[prio[q]])
  BY <1>2 DEF Waiting, Calm
<1> QED BY <1>1, <1>3, SchedAssumption, ReadyAtLevel DEF ToSet

(* The callers move processes while no killall is at work. *)
LEMMA CalmStep ==
  ASSUME ClientAssumption, KillInv, NoKillAll, KindInv', [Next]_vars, UNCHANGED <<killLocals, killed>>
  PROVE  KillInv'
<1> DEFINE Idle == \A c \in CPU : pr[c] = -1 /\ empty(temp_queue[c])
<1>1. Calm /\ Idle
  BY DEF KillInv, AloneInv, NoKillAll, Calm
<1>2. Calm' /\ NoKillAll'
  BY <1>1 DEF Calm, NoKillAll, killLocals
<1>4. \A q \in Proc : (Waiting(q) <=> Ready(q)) /\ (Waiting(q)' <=> Ready(q)')
  <2>1. (Calm => \A q \in Proc : Waiting(q) <=> Ready(q))'
    BY CalmWaiting, PTL
  <2>2. \A q \in Proc : Waiting(q) <=> Ready(q)
    BY <1>1, CalmWaiting
  <2>3. \A q \in Proc : Waiting(q)' <=> Ready(q)'
    BY <1>2, <2>1
  <2> QED BY <2>2, <2>3
<1>5. ApartInv
  <2>1. QueueInv
    BY DEF KillInv, AloneInv, KindInv, KillTypeOK, TypeOK, QueueInv
  <2>2. TypeOK /\ AwayInv /\ \A q \in Proc : ~(Ready(q) /\ Away(q))
    BY <1>4 DEF KillInv, WaitInv, KindInv, KillTypeOK
  <2> QED BY <2>1, <2>2 DEF ApartInv
<1>6. /\ ApartInv'
      /\ \A q \in Proc : /\ Here(q)' => Here(q)
                         /\ Cardinality(Rivals(q)) <= MAX_QUEUE_SIZE /\ Here(q) => Here(q)'
  BY <1>5, SchedAssumption, ApartStep
<1>7. AloneInv'
  BY <1>2, <1>6 DEF Calm, NoKillAll, AloneInv, ApartInv, QueueInv
<1>8. WaitInv'
  <2> SUFFICES ASSUME NEW q \in Proc
               PROVE  /\ ~(Waiting(q)' /\ Away(q)')
                      /\ q \in killed' => ~Waiting(q)' /\ ~Away(q)'
                      /\ Cardinality(Rivals(q)) <= MAX_QUEUE_SIZE => Waiting(q)' \/ Away(q)' \/ q \in killed'
    BY DEF WaitInv, Rivals
  <2>1. /\ q \in killed => ~Ready(q) /\ ~Away(q)
        /\ Cardinality(Rivals(q)) <= MAX_QUEUE_SIZE => Ready(q) \/ Away(q) \/ q \in killed
        /\ killed' = killed
    BY <1>4 DEF KillInv, WaitInv
  <2>2. ~(Ready(q)' /\ Away(q)')
    BY <1>6 DEF ApartInv
  <2>3. /\ Ready(q)' \/ Away(q)' => Ready(q) \/ Away(q)
        /\ Cardinality(Rivals(q)) <= MAX_QUEUE_SIZE /\ (Ready(q) \/ Away(q)) => Ready(q)' \/ Away(q)'
    BY <1>6 DEF Here
  <2> QED BY <1>4, <2>1, <2>2, <2>3
<1> QED BY <1>6, <1>7, <1>8 DEF KillInv, ApartInv

(* What the one CPU c that is in killall has of the processes of a level.   *)
Held(c) == ToSet(mlq_ready_queue[pr[c]]) \union ToSet(temp_queue[c])

Fits(a, b) ==
  /\ IsInjective(a) /\ IsInjective(b)
  /\ ToSet(a) \intersect ToSet(b) = {}
  /\ Len(a) + Len(b) <= MAX_QUEUE_SIZE

(* While one killall is at work, its level waits in two queues. *)
LEMMA WaitingAt ==
  ASSUME AloneInv, NEW c \in CPU, kpc[c] # "no", NEW q, prio[q] # -1
  PROVE  Waiting(q) <=> IF prio[q] = pr[c] THEN q \in Held(c) ELSE q \in ToSet(mlq_ready_queue[prio[q]])
<1>1. \A d \in CPU \ {c} : pr[d] = -1
  BY DEF AloneInv
<1> QED BY <1>1 DEF Waiting, Held

(* A killall has processes of the level it works on only. *)
LEMMA HeldKind ==
  ASSUME SchedAssumption, KindInv, NEW c \in CPU, pr[c] # -1, NEW q \in Held(c)
  PROVE  prio[q] = pr[c]
<1>1. pr[c] \in Level
  BY QueueOfKind
<1>2. /\ \A k \in DOMAIN mlq_ready_queue[pr[c]] : prio[mlq_ready_queue[pr[c]][k]] = pr[c]
      /\ \A k \in DOMAIN temp_queue[c] : prio[temp_queue[c][k]] = pr[c]
  BY <1>1 DEF KindInv, SameLevel
<1> QED BY <1>2 DEF Held, ToSet

(* A step of the killall of c that leaves Held(c) as it is, but for those   *)
(* it has killed.                                                           *)
LEMMA WorkStep ==
  ASSUME SchedAssumption, KillInv, KindInv', NEW c \in CPU, kpc[c] # "no", kpc'[c] # "no",
         UNCHANGED <<pr, clientVars>>,
         \A d \in CPU \ {c} : kpc'[d] = kpc[d] /\ temp_queue'[d] = temp_queue[d],
         pr[c] = -1 => mlq_ready_queue' = mlq_ready_queue,
         \A p \in Level \ {pr[c]} : mlq_ready_queue'[p] = mlq_ready_queue[p],
         NEW gone, gone \subseteq Held(c), pr[c] = -1 => gone = {}, killed' = killed \union gone,
         pr[c] # -1 => Fits(mlq_ready_queue[pr[c]], temp_queue[c])' /\ Held(c)' = Held(c) \ gone
  PROVE  KillInv'
<1>1. /\ \A d \in CPU \ {c} : kpc[d] = "no" /\ kpc'[d] = "no" /\ pr[d] = -1 /\ empty(temp_queue[d])
      /\ MAX_QUEUE_SIZE \in Nat /\ MAX_PRIO \in Nat /\ pr[c] \in -1 .. MAX_PRIO - 1
      /\ prio \in [Proc -> Level]
  BY DEF KillInv, AloneInv, SchedAssumption, KindInv, KillTypeOK, Level
<1>2. \A p \in Level : p # pr[c] => mlq_ready_queue'[p] = mlq_ready_queue[p]
  OBVIOUS
<1>3. AwayInv' /\ \A q \in Proc : Away(q)' <=> Away(q)
  BY DEF KillInv, AwayInv, Away, OnCpu, clientVars
<1>4. AloneInv'
  <2>1. pr[c] # -1 => pr[c] \in Level /\ Len(mlq_ready_queue'[pr[c]]) \in Nat /\ Len(temp_queue'[c]) \in Nat
    <3> SUFFICES ASSUME pr[c] # -1
                 PROVE  pr[c] \in Level /\ Len(mlq_ready_queue'[pr[c]]) \in Nat /\ Len(temp_queue'[c]) \in Nat
      OBVIOUS
    <3>1. pr[c] \in Level
      BY <1>1 DEF Level
    <3>2. temp_queue'[c] \in Seq(Proc) /\ mlq_ready_queue'[pr[c]] \in Seq(Proc)
      BY <3>1 DEF KindInv, KillTypeOK, TypeOK, SchedTypeOK
    <3> QED BY <3>1, <3>2, LenProperties
  <2>2. \A p \in Level : (IsInjective(mlq_ready_queue[p]) /\ Len(mlq_ready_queue[p]) <= MAX_QUEUE_SIZE)'
    <3> SUFFICES ASSUME NEW p \in Level
                 PROVE  IsInjective(mlq_ready_queue'[p]) /\ Len(mlq_ready_queue'[p]) <= MAX_QUEUE_SIZE
      OBVIOUS
    <3>1. CASE p = pr[c]
      <4>1. p # -1 /\ pr'[c] = pr[c]
        BY <1>1 DEF Level
      <4>2. Fits(mlq_ready_queue'[p], temp_queue'[c])
        BY <3>1, <4>1
      <4>3. Len(mlq_ready_queue'[p]) \in Nat /\ Len(temp_queue'[c]) \in Nat
        BY <2>1, <3>1, <4>1
      <4>4. IsInjective(mlq_ready_queue'[p]) /\ Len(mlq_ready_queue'[p]) + Len(temp_queue'[c]) <= MAX_QUEUE_SIZE
        BY <4>2 DEF Fits
      <4>5. MAX_QUEUE_SIZE \in Nat
        BY <1>1
      <4>6. \A x, y, z \in Nat : x + y <= z => x <= z
        OBVIOUS
      <4>7. Len(mlq_ready_queue'[p]) <= MAX_QUEUE_SIZE
        BY ONLY <4>3, <4>4, <4>5, <4>6
      <4> QED BY <4>4, <4>7
    <3>2. CASE p # pr[c]
      BY <1>2, <3>2 DEF KillInv, AloneInv
    <3> QED BY <3>1, <3>2
  <2>3. ASSUME NEW d \in CPU, pr'[d] # -1
        PROVE  Fits(mlq_ready_queue[pr[d]], temp_queue[d])'
    BY <1>1, <2>3
  <2> QED BY <1>1, <2>2, <2>3 DEF AloneInv, Fits, empty
<1>5. \A q \in Proc : Waiting(q)' <=> Waiting(q) /\ q \notin gone
  <2> SUFFICES ASSUME NEW q \in Proc
               PROVE  Waiting(q)' <=> Waiting(q) /\ q \notin gone
    OBVIOUS
  <2>1. prio[q] \in Level /\ prio[q] # -1
    BY <1>1 DEF Level
  <2>2. Waiting(q) <=> IF prio[q] = pr[c] THEN q \in Held(c) ELSE q \in ToSet(mlq_ready_queue[prio[q]])
    BY <2>1, WaitingAt DEF KillInv
  <2>3. Waiting(q)' <=> IF prio[q] = pr[c] THEN q \in Held(c)' ELSE q \in ToSet(mlq_ready_queue'[prio[q]])
    BY <1>1, <2>1 DEF Waiting, Held
  <2>4. CASE prio[q] = pr[c]
    BY <2>1, <2>2, <2>3, <2>4
  <2>5. CASE prio[q] # pr[c]
    <3>1. q \notin gone
      BY <2>5, HeldKind DEF KillInv
    <3> QED BY <1>2, <2>1, <2>2, <2>3, <2>5, <3>1
  <2> QED BY <2>4, <2>5
<1>6. \A q \in Proc : q \in gone => Waiting(q)
  <2> SUFFICES ASSUME NEW q \in Proc, q \in gone
               PROVE  Waiting(q)
    OBVIOUS
  <2>1. prio[q] # -1 /\ prio[q] = pr[c]
    BY <1>1, HeldKind DEF Level, KillInv
  <2> QED BY <2>1, WaitingAt DEF KillInv
<1>7. WaitInv'
  BY <1>3, <1>5, <1>6 DEF KillInv, WaitInv, Rivals
<1> QED BY <1>3, <1>4, <1>7 DEF KillInv

(* A step that only moves processes of the level between the two queues. *)
LEMMA MoveStep ==
  ASSUME SchedAssumption, KillInv, KindInv', NEW c \in CPU, kpc[c] # "no", kpc'[c] # "no",
         UNCHANGED <<pr, clientVars, killed>>,
         \A d \in CPU \ {c} : kpc'[d] = kpc[d] /\ temp_queue'[d] = temp_queue[d],
         pr[c] = -1 => mlq_ready_queue' = mlq_ready_queue,
         \A p \in Level \ {pr[c]} : mlq_ready_queue'[p] = mlq_ready_queue[p],
         pr[c] # -1 => Fits(mlq_ready_queue[pr[c]], temp_queue[c])' /\ Held(c)' = Held(c)
  PROVE  KillInv'
<1>1. PICK none : none = {}
  OBVIOUS
<1>2. /\ none \subseteq Held(c) /\ killed' = killed \union none
      /\ pr[c] # -1 => Fits(mlq_ready_queue[pr[c]], temp_queue[c])' /\ Held(c)' = Held(c) \ none
  BY <1>1
<1> QED BY <1>1, <1>2, WorkStep

-----------------------------------------------------------------------------
(* The steps of a killall. *)

(* The queue and killall's own while one process is on its way from the     *)
(* first to the second, or gone.                                            *)
LEMMA TakeFits ==
  ASSUME NEW a \in Seq(Proc), NEW b \in Seq(Proc), Fits(a, b), NEW k \in DOMAIN a,
         MAX_QUEUE_SIZE \in Nat
  PROVE  /\ Fits(RemoveAt(a, k), b)
         /\ Fits(RemoveAt(a, k), enqueue(b, a[k]))
         /\ ToSet(RemoveAt(a, k)) = ToSet(a) \ {a[k]}
         /\ ToSet(enqueue(b, a[k])) = ToSet(b) \union {a[k]}
         /\ enqueue(b, a[k]) = Append(b, a[k])
<1>1. /\ Len(a) \in Nat /\ Len(b) \in Nat /\ DOMAIN a = 1 .. Len(a) /\ a[k] \in Proc
      /\ IsInjective(a) /\ IsInjective(b) /\ ToSet(a) \intersect ToSet(b) = {}
      /\ Len(a) + Len(b) <= MAX_QUEUE_SIZE
  <2>1. Len(a) \in Nat /\ Len(b) \in Nat /\ DOMAIN a = 1 .. Len(a)
    BY LenProperties
  <2> QED BY <2>1, ElementOfSeq DEF Fits
<1>2. /\ Len(RemoveAt(a, k)) = Len(a) - 1
      /\ IsInjective(RemoveAt(a, k)) /\ ToSet(RemoveAt(a, k)) = ToSet(a) \ {a[k]}
  BY <1>1, RemoveAtProperties, RemoveAtOnce
<1>3. a[k] \in ToSet(a)
  BY DEF ToSet
<1>4. Len(b) # MAX_QUEUE_SIZE
  <2>1. Len(a) >= 1
    BY <1>1
  <2> QED BY <1>1, <2>1
<1>5. enqueue(b, a[k]) = Append(b, a[k])
  BY <1>4 DEF enqueue
<1>6. /\ Len(Append(b, a[k])) = Len(b) + 1
      /\ IsInjective(Append(b, a[k])) /\ ToSet(Append(b, a[k])) = ToSet(b) \union {a[k]}
  BY <1>1, <1>3, AppendOnce
<1>7. Len(a) - 1 + Len(b) <= MAX_QUEUE_SIZE /\ Len(a) - 1 + (Len(b) + 1) <= MAX_QUEUE_SIZE
  BY <1>1
<1> QED BY <1>1, <1>2, <1>3, <1>5, <1>6, <1>7 DEF Fits

(* What a killall at work on a ready queue knows of the two.                *)
LEMMA AtLevel ==
  ASSUME SchedAssumption, KillInv, NEW c \in CPU, pr[c] # -1
  PROVE  /\ pr[c] \in Level /\ mlq_ready_queue[pr[c]] \in Seq(Proc) /\ temp_queue[c] \in Seq(Proc)
         /\ Fits(mlq_ready_queue[pr[c]], temp_queue[c])
         /\ kpc[c] # "no" /\ \A d \in CPU \ {c} : kpc[d] = "no"
         /\ MAX_QUEUE_SIZE \in Nat
<1>1. pr[c] \in Level /\ temp_queue[c] \in Seq(Proc)
  BY QueueOfKind DEF KillInv
<1>2. mlq_ready_queue[pr[c]] \in Seq(Proc)
  BY <1>1 DEF KillInv, KindInv, KillTypeOK, TypeOK, SchedTypeOK
<1> QED BY <1>1, <1>2 DEF KillInv, AloneInv, Fits, SchedAssumption

(* What SetQueue does to the queue under work, and to no other.             *)
LEMMA SetQueueAt ==
  ASSUME SchedAssumption, KillInv, NEW c \in CPU, NEW q, SetQueue(c, q)
  PROVE  /\ UNCHANGED clientVars
         /\ \A p \in Level \ {pr[c]} : mlq_ready_queue'[p] = mlq_ready_queue[p]
         /\ pr[c] = -1 => mlq_ready_queue' = mlq_ready_queue
         /\ pr[c] # -1 => mlq_ready_queue'[pr[c]] = q
<1>1. mlq_ready_queue \in [Level -> Seq(Proc)]
  BY DEF KillInv, KindInv, KillTypeOK, TypeOK, SchedTypeOK
<1>2. pr[c] # -1 => pr[c] \in Level
  BY QueueOfKind DEF KillInv
<1> QED BY <1>1, <1>2 DEF SetQueue

(* A process is killed or goes to temp_queue. *)
LEMMA DrainStep ==
  ASSUME SchedAssumption, KillInv, KindInv', NEW c \in CPU, Drain(c)
  PROVE  KillInv'
<1>1. PICK k \in Candidates(QueueOf(c)) :
        \E found \in Matches(QueueOf(c)[k], proc_name[c]) :
          /\ SetQueue(c, RemoveAt(QueueOf(c), k))
          /\ temp_queue' = IF found THEN temp_queue
                           ELSE [temp_queue EXCEPT ![c] = enqueue(temp_queue[c], QueueOf(c)[k])]
          /\ killed' = IF found /\ pr[c] # -1 THEN killed \union {QueueOf(c)[k]} ELSE killed
  BY DEF Drain
<1>2. PICK found \in Matches(QueueOf(c)[k], proc_name[c]) :
        /\ SetQueue(c, RemoveAt(QueueOf(c), k))
        /\ temp_queue' = IF found THEN temp_queue
                         ELSE [temp_queue EXCEPT ![c] = enqueue(temp_queue[c], QueueOf(c)[k])]
        /\ killed' = IF found /\ pr[c] # -1 THEN killed \union {QueueOf(c)[k]} ELSE killed
  BY <1>1
<1>3. /\ kpc[c] = "drain" /\ UNCHANGED <<kpc, pr>>
      /\ temp_queue \in [CPU -> Seq(Proc)]
  BY DEF Drain, KillInv, KindInv, KillTypeOK
<1>4. /\ kpc[c] # "no" /\ kpc'[c] # "no"
      /\ \A d \in CPU \ {c} : kpc'[d] = kpc[d] /\ temp_queue'[d] = temp_queue[d]
  BY <1>2, <1>3
<1>5. /\ UNCHANGED clientVars
      /\ \A p \in Level \ {pr[c]} : mlq_ready_queue'[p] = mlq_ready_queue[p]
      /\ pr[c] = -1 => mlq_ready_queue' = mlq_ready_queue
      /\ pr[c] # -1 => mlq_ready_queue'[pr[c]] = RemoveAt(QueueOf(c), k)
  BY <1>2, SetQueueAt
<1>6. CASE pr[c] = -1
  <2>1. killed' = killed
    BY <1>2, <1>6
  <2> QED BY <1>3, <1>4, <1>5, <1>6, <2>1, MoveStep
<1>7. CASE pr[c] # -1
  <2>1. PICK a \in Seq(Proc), b \in Seq(Proc) : a = mlq_ready_queue[pr[c]] /\ b = temp_queue[c]
    BY <1>7, AtLevel
  <2>2. Fits(a, b) /\ MAX_QUEUE_SIZE \in Nat /\ \A d \in CPU \ {c} : kpc[d] = "no"
    BY <1>7, <2>1, AtLevel
  <2>3. QueueOf(c) = a
    BY <1>7, <2>1 DEF QueueOf
  <2>4. k \in DOMAIN a
    BY <2>3, CandidatesAt
  <2>5. mlq_ready_queue'[pr[c]] = RemoveAt(a, k)
    BY <1>5, <1>7, <2>3
  <2>6. /\ Fits(RemoveAt(a, k), b)
        /\ Fits(RemoveAt(a, k), enqueue(b, a[k]))
        /\ ToSet(RemoveAt(a, k)) = ToSet(a) \ {a[k]}
        /\ ToSet(enqueue(b, a[k])) = ToSet(b) \union {a[k]}
    BY <2>2, <2>4, TakeFits
  <2>7. a[k] \in ToSet(a) /\ a[k] \notin ToSet(b)
    BY <2>2, <2>4 DEF Fits, ToSet
  <2>8. Held(c) = ToSet(a) \union ToSet(b) /\ Held(c)' = ToSet(RemoveAt(a, k)) \union ToSet(temp_queue'[c])
    BY <1>3, <2>1, <2>5 DEF Held
  <2>9. CASE found
    <3>1. temp_queue'[c] = b /\ killed' = killed \union {a[k]}
      BY <1>2, <1>7, <2>1, <2>3, <2>9
    <3>2. Fits(mlq_ready_queue[pr[c]], temp_queue[c])'
      BY <1>3, <2>5, <2>6, <3>1
    <3>3. Held(c)' = Held(c) \ {a[k]} /\ {a[k]} \subseteq Held(c)
      BY <2>6, <2>7, <2>8, <3>1
    <3> QED BY <1>3, <1>4, <1>5, <1>7, <3>1, <3>2, <3>3, WorkStep
  <2>10. CASE ~found
    <3>1. temp_queue'[c] = enqueue(b, a[k]) /\ killed' = killed
      BY <1>2, <1>3, <2>1, <2>3, <2>10
    <3>2. Fits(mlq_ready_queue[pr[c]], temp_queue[c])'
      BY <1>3, <2>5, <2>6, <3>1
    <3>3. Held(c)' = Held(c)
      BY <2>6, <2>7, <2>8, <3>1
    <3> QED BY <1>3, <1>4, <1>5, <1>7, <3>1, <3>2, <3>3, MoveStep
  <2> QED BY <2>9, <2>10
<1> QED BY <1>6, <1>7

(* A process that stays comes back, and there is room for it. *)
LEMMA RestoreStep ==
  ASSUME SchedAssumption, KillInv, KindInv', NEW c \in CPU, Restore(c)
  PROVE  KillInv'
<1>1. PICK k \in Candidates(temp_queue[c]) :
        /\ SetQueue(c, enqueue(QueueOf(c), temp_queue[c][k]))
        /\ temp_queue' = [temp_queue EXCEPT ![c] = RemoveAt(temp_queue[c], k)]
  BY DEF Restore
<1>2. /\ kpc[c] = "restore" /\ UNCHANGED <<kpc, pr, killed>> /\ temp_queue \in [CPU -> Seq(Proc)]
  BY DEF Restore, KillInv, KindInv, KillTypeOK
<1>3. /\ kpc[c] # "no" /\ kpc'[c] = "restore"
      /\ \A d \in CPU \ {c} : kpc'[d] = kpc[d] /\ temp_queue'[d] = temp_queue[d]
      /\ temp_queue'[c] = RemoveAt(temp_queue[c], k)
  BY <1>1, <1>2
<1>4. /\ UNCHANGED clientVars
      /\ \A p \in Level \ {pr[c]} : mlq_ready_queue'[p] = mlq_ready_queue[p]
      /\ pr[c] = -1 => mlq_ready_queue' = mlq_ready_queue
      /\ pr[c] # -1 => mlq_ready_queue'[pr[c]] = enqueue(QueueOf(c), temp_queue[c][k])
  BY <1>1, SetQueueAt
<1>5. pr[c] # -1 => Fits(mlq_ready_queue[pr[c]], temp_queue[c])' /\ Held(c)' = Held(c)
  <2> SUFFICES ASSUME pr[c] # -1
               PROVE  Fits(mlq_ready_queue[pr[c]], temp_queue[c])' /\ Held(c)' = Held(c)
    OBVIOUS
  <2>1. PICK a \in Seq(Proc), b \in Seq(Proc) : a = temp_queue[c] /\ b = mlq_ready_queue[pr[c]]
    BY AtLevel
  <2>2. Fits(b, a) /\ MAX_QUEUE_SIZE \in Nat /\ \A d \in CPU \ {c} : kpc[d] = "no"
    BY <2>1, AtLevel
  <2>3. Fits(a, b)
    <3>1. Len(a) \in Nat /\ Len(b) \in Nat
      BY LenProperties
    <3> QED BY <2>2, <3>1 DEF Fits
  <2>4. QueueOf(c) = b
    BY <2>1 DEF QueueOf
  <2>5. k \in DOMAIN a
    BY <2>1, CandidatesAt
  <2>6. /\ Fits(RemoveAt(a, k), enqueue(b, a[k]))
        /\ ToSet(RemoveAt(a, k)) = ToSet(a) \ {a[k]}
        /\ ToSet(enqueue(b, a[k])) = ToSet(b) \union {a[k]}
    BY <2>2, <2>3, <2>5, TakeFits
  <2>7. mlq_ready_queue'[pr[c]] = enqueue(b, a[k]) /\ temp_queue'[c] = RemoveAt(a, k)
    BY <1>3, <1>4, <2>1, <2>4
  <2>8. Fits(mlq_ready_queue[pr[c]], temp_queue[c])'
    <3> DEFINE r == RemoveAt(a, k)
               e == enqueue(b, a[k])
    <3>1. Len(r) \in Nat /\ Len(e) \in Nat
      <4>1. r \in Seq(Proc) /\ a[k] \in Proc
        BY <2>5, RemoveAtProperties, LenProperties, ElementOfSeq
      <4>2. e \in Seq(Proc)
        BY <4>1, EnqueueProperties
      <4> HIDE DEF r, e
      <4> QED BY <4>1, <4>2, LenProperties
    <3>2. Fits(r, e)
      BY <2>6
    <3> HIDE DEF r, e
    <3>3. Fits(e, r)
      BY <3>1, <3>2 DEF Fits
    <3> QED BY <1>2, <2>7, <3>3 DEF r, e
  <2>9. a[k] \in ToSet(a)
    BY <2>5 DEF ToSet
  <2>10. Held(c) = ToSet(b) \union ToSet(a) /\ Held(c)' = ToSet(enqueue(b, a[k])) \union ToSet(RemoveAt(a, k))
    BY <1>2, <2>1, <2>7 DEF Held
  <2> QED BY <2>6, <2>8, <2>9, <2>10
<1> QED BY <1>2, <1>3, <1>4, <1>5, MoveStep

(* The end of the draining loop moves nothing. *)
LEMMA DrainEndStep ==
  ASSUME SchedAssumption, KillInv, KindInv', NEW c \in CPU, DrainEnd(c)
  PROVE  KillInv'
<1>1. /\ kpc[c] = "drain" /\ kpc' = [kpc EXCEPT ![c] = "restore"] /\ UNCHANGED <<vars, pr, temp_queue, killed>>
      /\ kpc \in [CPU -> {"no", "drain", "restore"}]
  BY DEF DrainEnd, KillInv, KindInv, KillTypeOK
<1>2. /\ kpc[c] # "no" /\ kpc'[c] = "restore"
      /\ \A d \in CPU \ {c} : kpc'[d] = kpc[d] /\ temp_queue'[d] = temp_queue[d]
  BY <1>1
<1>3. UNCHANGED <<mlq_ready_queue, clientVars>>
  BY <1>1 DEF vars, schedVars
<1>4. pr[c] # -1 => Fits(mlq_ready_queue[pr[c]], temp_queue[c])' /\ Held(c)' = Held(c)
  BY <1>1, <1>3, AtLevel DEF Held
<1> QED BY <1>1, <1>2, <1>3, <1>4, MoveStep

(* Between two queues, and at the beginning and the end, a killall has      *)
(* nothing in its own.                                                      *)
LEMMA BetweenStep ==
  ASSUME SchedAssumption, KillInv, KindInv', UNCHANGED <<vars, killed>>,
         \A c \in CPU : empty(temp_queue[c]) /\ empty(temp_queue'[c]),
         \A c \in CPU : kpc'[c] = "no" => pr'[c] = -1,
         \A c, d \in CPU : kpc'[c] # "no" /\ kpc'[d] # "no" => c = d
  PROVE  KillInv'
<1>1. UNCHANGED <<mlq_ready_queue, cpc, cur, unborn, adding, finished>>
  BY DEF vars, schedVars, clientVars
<1>3. AwayInv' /\ \A q \in Proc : Away(q)' <=> Away(q)
  BY <1>1 DEF KillInv, AwayInv, Away, OnCpu
<1>4. \A q \in Proc : Waiting(q)' <=> Waiting(q)
  BY <1>1 DEF Waiting, empty, ToSet
<1>5. WaitInv'
  BY <1>3, <1>4 DEF KillInv, WaitInv, Rivals
<1>6. AloneInv'
  <2>1. ASSUME NEW c \in CPU, pr'[c] # -1
        PROVE  /\ IsInjective(temp_queue'[c])
               /\ ToSet(mlq_ready_queue[pr'[c]]) \intersect ToSet(temp_queue'[c]) = {}
               /\ Len(mlq_ready_queue[pr'[c]]) + Len(temp_queue'[c]) <= MAX_QUEUE_SIZE
    <3>1. pr'[c] \in Level
      <4>1. pr'[c] \in -1 .. MAX_PRIO - 1 /\ MAX_PRIO \in Nat
        BY DEF KindInv, KillTypeOK, SchedAssumption
      <4> QED BY <2>1, <4>1 DEF Level
    <3>2. temp_queue'[c] = <<>> /\ Len(temp_queue'[c]) = 0
      BY EmptySeq DEF empty
    <3>3. Len(mlq_ready_queue[pr'[c]]) \in Nat /\ Len(mlq_ready_queue[pr'[c]]) <= MAX_QUEUE_SIZE
      <4>1. PICK p \in Level : p = pr'[c]
        BY <3>1
      <4>2. mlq_ready_queue[p] \in Seq(Proc)
        BY DEF KillInv, KindInv, KillTypeOK, TypeOK, SchedTypeOK
      <4> QED BY <4>1, <4>2, LenProperties DEF KillInv, AloneInv
    <3> QED BY <3>2, <3>3 DEF IsInjective, ToSet
  <2>2. \A p \in Level : (IsInjective(mlq_ready_queue[p]) /\ Len(mlq_ready_queue[p]) <= MAX_QUEUE_SIZE)'
    BY <1>1 DEF KillInv, AloneInv
  <2> QED BY <1>1, <2>1, <2>2 DEF AloneInv
<1> QED BY <1>3, <1>5, <1>6 DEF KillInv

(* The places at the start: nobody is anywhere. *)
LEMMA PlacesStart ==
  ASSUME SchedAssumption, KillAssumption, KillInit
  PROVE  KillInv
<1>1. KindInv
  BY KindStart
<1>2. NoKillAll /\ \A c \in CPU : pr[c] = -1 /\ empty(temp_queue[c])
  BY DEF KillInit, NoKillAll, empty
<1>3. PlaceInv
  BY InitPlace DEF KillInit
<1>5. \A q \in Proc : Waiting(q) <=> Ready(q)
  BY <1>1, <1>2, CalmWaiting DEF Calm
<1>6. AloneInv
  BY <1>2, <1>3 DEF NoKillAll, AloneInv, PlaceInv, ApartInv, QueueInv
<1>7. WaitInv
  BY <1>3, <1>5 DEF KillInit, WaitInv, PlaceInv, ApartInv, Here
<1> QED BY <1>1, <1>3, <1>6, <1>7 DEF KillInv, PlaceInv, ApartInv

(* The places are kept by every step. *)
LEMMA PlacesStep ==
  ASSUME SchedAssumption, ClientAssumption, KillAssumption, KillInv, [KillNext]_killVars
  PROVE  KillInv'
<1>1. KindInv'
  BY KindStep DEF KillInv
<1>2. /\ kpc \in [CPU -> {"no", "drain", "restore"}]
      /\ pr \in [CPU -> -1 .. MAX_PRIO - 1] /\ temp_queue \in [CPU -> Seq(Proc)]
      /\ \A c \in CPU : kpc[c] = "no" => pr[c] = -1 /\ empty(temp_queue[c])
      /\ \A c, d \in CPU : kpc[c] # "no" /\ kpc[d] # "no" => c = d
  BY DEF KillInv, KindInv, KillTypeOK, AloneInv
<1>3. CASE UNCHANGED killVars
  <2>1. UNCHANGED <<mlq_ready_queue, cpc, cur, unborn, adding, finished, killLocals, killed>>
    BY <1>3 DEF killVars, vars, schedVars, clientVars
  <2>2. AwayInv' /\ AloneInv' /\ WaitInv'
    BY <2>1 DEF KillInv, killLocals, AwayInv, AloneInv, WaitInv, Waiting, Away, OnCpu, Rivals
  <2> QED BY <1>1, <2>2 DEF KillInv
<1>4. CASE Others
  <2>1. Next /\ NoKillAll /\ UNCHANGED <<killLocals, killed>>
    BY <1>4 DEF Others
  <2> QED BY <1>1, <2>1, CalmStep
<1>5. ASSUME NEW c \in CPU, NEW name \in Name, KillStart(c, name) PROVE KillInv'
  <2>1. /\ NoKillAll /\ kpc' = [kpc EXCEPT ![c] = "drain"] /\ UNCHANGED <<vars, pr, temp_queue, killed>>
    BY <1>5 DEF KillStart
  <2>2. \A d \in CPU : /\ kpc[d] = "no" /\ kpc'[d] = IF d = c THEN "drain" ELSE "no"
                       /\ pr'[d] = -1 /\ empty(temp_queue[d]) /\ empty(temp_queue'[d])
    BY <1>2, <2>1 DEF NoKillAll
  <2> QED BY <1>1, <2>1, <2>2, BetweenStep
<1>6. ASSUME NEW c \in CPU, NextQueue(c) PROVE KillInv'
  <2>1. /\ kpc[c] = "restore" /\ kpc' = [kpc EXCEPT ![c] = "drain"] /\ empty(temp_queue[c])
        /\ pr' = [pr EXCEPT ![c] = pr[c] + 1] /\ temp_queue' = [temp_queue EXCEPT ![c] = <<>>]
        /\ UNCHANGED <<vars, killed>>
    BY <1>6 DEF NextQueue, AllRestored
  <2>2. \A d \in CPU \ {c} : /\ kpc[d] = "no" /\ kpc'[d] = "no" /\ pr'[d] = -1
                             /\ empty(temp_queue[d]) /\ empty(temp_queue'[d])
    BY <1>2, <2>1
  <2>3. kpc'[c] = "drain" /\ empty(temp_queue'[c])
    BY <1>2, <2>1 DEF empty
  <2>4. \A d \in CPU : empty(temp_queue[d]) /\ empty(temp_queue'[d])
    BY <2>1, <2>2, <2>3
  <2>5. /\ \A d \in CPU : kpc'[d] = "no" => pr'[d] = -1
        /\ \A d, e \in CPU : kpc'[d] # "no" /\ kpc'[e] # "no" => d = e
    BY <2>2, <2>3
  <2> QED BY <1>1, <2>1, <2>4, <2>5, BetweenStep
<1>7. ASSUME NEW c \in CPU, KillEnd(c) PROVE KillInv'
  <2>1. /\ kpc[c] = "restore" /\ kpc' = [kpc EXCEPT ![c] = "no"] /\ empty(temp_queue[c])
        /\ pr' = [pr EXCEPT ![c] = -1] /\ temp_queue' = [temp_queue EXCEPT ![c] = <<>>]
        /\ UNCHANGED <<vars, killed>>
    BY <1>7 DEF KillEnd, AllRestored
  <2>2. \A d \in CPU \ {c} : /\ kpc[d] = "no" /\ kpc'[d] = "no" /\ pr'[d] = -1
                             /\ empty(temp_queue[d]) /\ empty(temp_queue'[d])
    BY <1>2, <2>1
  <2>3. kpc'[c] = "no" /\ pr'[c] = -1 /\ empty(temp_queue'[c])
    BY <1>2, <2>1 DEF empty
  <2>4. \A d \in CPU : empty(temp_queue[d]) /\ empty(temp_queue'[d])
    BY <2>1, <2>2, <2>3
  <2>5. /\ \A d \in CPU : kpc'[d] = "no" => pr'[d] = -1
        /\ \A d, e \in CPU : kpc'[d] # "no" /\ kpc'[e] # "no" => d = e
    BY <2>2, <2>3
  <2> QED BY <1>1, <2>1, <2>4, <2>5, BetweenStep
<1> QED BY <1>1, <1>3, <1>4, <1>5, <1>6, <1>7, DrainStep, DrainEndStep, RestoreStep
        DEF KillNext, KillAll

-----------------------------------------------------------------------------
(* The order. *)

(* The processes of a in the order of q, and then those of b. *)
InLine(a, b, q) ==
  /\ InOrder(a, q)
  /\ InOrder(b, q)
  /\ \A j \in DOMAIN a, k \in DOMAIN b : Precedes(a[j], b[k], q)

(* While the queue, once q, is drained: what is spared goes in order from   *)
(* what is left of it, rest, to temp.                                       *)
Draining(rest, temp, q, name) ==
  /\ InLine(temp, rest, q)
  /\ ToSet(rest) \subseteq ToSet(q)
  /\ ToSet(temp) \subseteq Spared(q, name)
  /\ Spared(q, name) \subseteq ToSet(rest) \union ToSet(temp)

(* And back. *)
Restoring(rest, temp, q, name) ==
  /\ InLine(rest, temp, q)
  /\ ToSet(rest) \union ToSet(temp) = Spared(q, name)

(* The levels behind pr, those before it, and its own. *)
Untouched(c) == \A p \in Level : p > pr[c] => mlq_ready_queue[p] = before[c][p]

Done(c) == \A p \in Level : p < pr[c] =>
  /\ ToSet(mlq_ready_queue[p]) = Spared(before[c][p], proc_name[c])
  /\ InOrder(mlq_ready_queue[p], before[c][p])

UnderWork(c) == pr[c] # -1 =>
  /\ kpc[c] = "drain" =>
       Draining(mlq_ready_queue[pr[c]], temp_queue[c], before[c][pr[c]], proc_name[c])
  /\ kpc[c] = "restore" =>
       Restoring(mlq_ready_queue[pr[c]], temp_queue[c], before[c][pr[c]], proc_name[c])

OrderInv ==
  /\ before \in [CPU -> [Level -> Seq(Proc)]]
  /\ \A c \in CPU : kpc[c] # "no" => Untouched(c) /\ Done(c) /\ UnderWork(c)

(* The first of the second queue becomes the last of the first, or goes.    *)
LEMMA PassOne ==
  ASSUME NEW a \in Seq(Proc), NEW b \in Seq(Proc), NEW q, 1 \in DOMAIN b, InLine(a, b, q)
  PROVE  InLine(Append(a, b[1]), RemoveAt(b, 1), q) /\ InLine(a, RemoveAt(b, 1), q)
<1> DEFINE r == RemoveAt(b, 1)
           e == Append(a, b[1])
<1>1. /\ Len(a) \in Nat /\ Len(b) \in Nat /\ DOMAIN a = 1 .. Len(a) /\ DOMAIN b = 1 .. Len(b) /\ b[1] \in Proc
  BY LenProperties, ElementOfSeq
<1>2. r \in Seq(Proc) /\ Len(r) = Len(b) - 1 /\ \A j \in 1 .. Len(b) - 1 : r[j] = b[IF j < 1 THEN j ELSE j + 1]
  BY RemoveAtProperties
<1>3. e \in Seq(Proc) /\ Len(e) = Len(a) + 1 /\ (\A j \in 1 .. Len(a) : e[j] = a[j]) /\ e[Len(a) + 1] = b[1]
  BY <1>1, AppendProperties
<1> HIDE DEF r, e
<1>4. DOMAIN r = 1 .. Len(b) - 1 /\ DOMAIN e = 1 .. Len(a) + 1
  BY <1>2, <1>3, LenProperties
<1>5. \A j \in DOMAIN r : j + 1 \in DOMAIN b /\ 1 < j + 1 /\ r[j] = b[j + 1]
  BY <1>1, <1>2, <1>4
<1>6. \A j \in DOMAIN e : (j \in DOMAIN a /\ e[j] = a[j]) \/ (j = Len(a) + 1 /\ e[j] = b[1])
  BY <1>1, <1>3, <1>4
<1>7. InOrder(r, q)
  <2> SUFFICES ASSUME NEW j \in DOMAIN r, NEW k \in DOMAIN r, j < k PROVE Precedes(r[j], r[k], q)
    BY DEF InOrder
  <2>1. j + 1 < k + 1
    BY <1>1, <1>4
  <2> QED BY <1>5, <2>1 DEF InLine, InOrder
<1>8. InOrder(e, q)
  <2> SUFFICES ASSUME NEW j \in DOMAIN e, NEW k \in DOMAIN e, j < k PROVE Precedes(e[j], e[k], q)
    BY DEF InOrder
  <2>1. j \in DOMAIN a /\ e[j] = a[j]
    BY <1>1, <1>4, <1>6
  <2>2. CASE k \in DOMAIN a /\ e[k] = a[k]
    BY <2>1, <2>2 DEF InLine, InOrder
  <2>3. CASE e[k] = b[1]
    BY <2>1, <2>3 DEF InLine
  <2> QED BY <1>6, <2>2, <2>3
<1>9. \A j \in DOMAIN a, k \in DOMAIN r : Precedes(a[j], r[k], q)
  BY <1>5 DEF InLine
<1>10. \A j \in DOMAIN e, k \in DOMAIN r : Precedes(e[j], r[k], q)
  <2> SUFFICES ASSUME NEW j \in DOMAIN e, NEW k \in DOMAIN r PROVE Precedes(e[j], r[k], q)
    OBVIOUS
  <2>1. CASE e[j] = b[1]
    BY <1>5, <2>1 DEF InLine, InOrder
  <2>2. CASE j \in DOMAIN a /\ e[j] = a[j]
    BY <1>9, <2>2
  <2> QED BY <1>6, <2>1, <2>2
<1>11. InOrder(a, q)
  BY DEF InLine
<1> QED BY <1>7, <1>8, <1>9, <1>10, <1>11 DEF InLine, r, e

(* A queue as it is found, none of it taken. *)
LEMMA DrainStart ==
  ASSUME NEW q \in Seq(Proc), NEW name
  PROVE  Draining(q, <<>>, q, name)
<1>1. ToSet(<<>>) = {} /\ DOMAIN <<>> = {}
  BY EmptySeq, LenProperties DEF ToSet
<1>2. InOrder(q, q)
  BY DEF InOrder, Precedes
<1> QED BY <1>1, <1>2 DEF Draining, InLine, InOrder, Spared

LEMMA DrainOne ==
  ASSUME NEW a \in Seq(Proc), NEW b \in Seq(Proc), NEW q, NEW name, Fits(a, b), MAX_QUEUE_SIZE \in Nat,
         1 \in DOMAIN a, Draining(a, b, q, name)
  PROVE  /\ path[a[1]] = name => Draining(RemoveAt(a, 1), b, q, name)
         /\ path[a[1]] # name => Draining(RemoveAt(a, 1), enqueue(b, a[1]), q, name)
<1> DEFINE r == RemoveAt(a, 1)
           e == enqueue(b, a[1])
<1>1. ToSet(r) = ToSet(a) \ {a[1]} /\ ToSet(e) = ToSet(b) \union {a[1]} /\ e = Append(b, a[1])
  BY TakeFits
<1>2. InLine(b, r, q) /\ InLine(e, r, q)
  BY <1>1, PassOne DEF Draining
<1>3. a[1] \in ToSet(a)
  BY DEF ToSet
<1> HIDE DEF r, e
<1>4. ASSUME path[a[1]] = name PROVE Draining(r, b, q, name)
  BY <1>1, <1>2, <1>3, <1>4 DEF Draining, Spared
<1>5. ASSUME path[a[1]] # name PROVE Draining(r, e, q, name)
  BY <1>1, <1>2, <1>3, <1>5 DEF Draining, Spared
<1> QED BY <1>4, <1>5 DEF r, e

(* Drained, the queue is restored. *)
LEMMA Drained ==
  ASSUME NEW b, NEW q, NEW name, Draining(<<>>, b, q, name)
  PROVE  Restoring(<<>>, b, q, name)
<1>1. ToSet(<<>>) = {} /\ DOMAIN <<>> = {}
  BY EmptySeq, LenProperties DEF ToSet
<1> QED BY <1>1 DEF Draining, Restoring, InLine, InOrder

LEMMA RestoreOne ==
  ASSUME NEW a \in Seq(Proc), NEW b \in Seq(Proc), NEW q, NEW name, Fits(b, a), MAX_QUEUE_SIZE \in Nat,
         1 \in DOMAIN b, Restoring(a, b, q, name)
  PROVE  Restoring(enqueue(a, b[1]), RemoveAt(b, 1), q, name)
<1> DEFINE r == RemoveAt(b, 1)
           e == enqueue(a, b[1])
<1>1. ToSet(r) = ToSet(b) \ {b[1]} /\ ToSet(e) = ToSet(a) \union {b[1]} /\ e = Append(a, b[1])
  BY TakeFits
<1>2. InLine(e, r, q)
  BY <1>1, PassOne DEF Restoring
<1>3. b[1] \in ToSet(b)
  BY DEF ToSet
<1> HIDE DEF r, e
<1>4. Restoring(e, r, q, name)
  BY <1>1, <1>2, <1>3 DEF Restoring
<1> QED BY <1>4 DEF r, e

(* And all of it back. *)
LEMMA Restored ==
  ASSUME NEW a, NEW q, NEW name, Restoring(a, <<>>, q, name)
  PROVE  ToSet(a) = Spared(q, name) /\ InOrder(a, q)
<1>1. ToSet(<<>>) = {}
  BY EmptySeq, LenProperties DEF ToSet
<1> QED BY <1>1 DEF Restoring, InLine

(* What a killall has of a level has not been freed. *)
LEMMA HeldAlive ==
  ASSUME SchedAssumption, KillInv, NEW c \in CPU, pr[c] # -1, NEW proc \in Held(c), proc \in Proc
  PROVE  proc \notin finished
<1>1. kpc[c] # "no" /\ prio[proc] = pr[c]
  BY AtLevel, HeldKind DEF KillInv
<1>2. Waiting(proc)
  BY <1>1, WaitingAt DEF KillInv
<1> QED BY <1>2 DEF KillInv, WaitInv, Away

(* dequeue takes the first of processes of one level. *)
LEMMA FirstTaken ==
  ASSUME NEW p \in Int, NEW q \in Seq(Proc), \A k \in DOMAIN q : q[k] \notin finished /\ prio[q[k]] = p,
         NEW k \in Candidates(q)
  PROVE  k = 1 /\ 1 \in DOMAIN q
<1>1. k \in DOMAIN q /\ DOMAIN q = 1 .. Len(q) /\ Len(q) \in Nat
  BY CandidatesAt, LenProperties
<1>2. 1 \in DOMAIN q
  BY <1>1
<1>3. 1 < k => prio[q[k]] < prio[q[1]]
  BY <1>2 DEF Candidates
<1> QED BY <1>1, <1>2, <1>3

(* A step of the killall of c changes no level but its own, and remembers   *)
(* what it began with.                                                      *)
LEMMA OrderKept ==
  ASSUME SchedAssumption, KillInv, OrderInv, NEW c \in CPU, kpc[c] # "no",
         UNCHANGED <<pr, proc_name, before>>,
         \A d \in CPU \ {c} : kpc'[d] = kpc[d],
         \A p \in Level \ {pr[c]} : mlq_ready_queue'[p] = mlq_ready_queue[p],
         UnderWork(c)'
  PROVE  OrderInv'
<1>1. MAX_PRIO \in Nat /\ pr[c] \in Int /\ Untouched(c) /\ Done(c)
  BY DEF SchedAssumption, KillInv, KindInv, KillTypeOK, OrderInv
<1>2. Untouched(c)'
  BY <1>1 DEF Untouched, Level
<1>3. Done(c)'
  BY <1>1 DEF Done, Level
<1>4. \A d \in CPU \ {c} : kpc'[d] = "no"
  BY DEF KillInv, AloneInv
<1> QED BY <1>2, <1>3, <1>4 DEF OrderInv

(* A process taken is the first of its queue, and it goes to the back of    *)
(* temp_queue if it is spared.                                              *)
LEMMA DrainInOrder ==
  ASSUME SchedAssumption, KillInv, OrderInv, NEW c \in CPU, Drain(c)
  PROVE  OrderInv'
<1>1. PICK k \in Candidates(QueueOf(c)) :
        \E found \in Matches(QueueOf(c)[k], proc_name[c]) :
          /\ SetQueue(c, RemoveAt(QueueOf(c), k))
          /\ temp_queue' = IF found THEN temp_queue
                           ELSE [temp_queue EXCEPT ![c] = enqueue(temp_queue[c], QueueOf(c)[k])]
  BY DEF Drain
<1>2. PICK found \in Matches(QueueOf(c)[k], proc_name[c]) :
        /\ SetQueue(c, RemoveAt(QueueOf(c), k))
        /\ temp_queue' = IF found THEN temp_queue
                         ELSE [temp_queue EXCEPT ![c] = enqueue(temp_queue[c], QueueOf(c)[k])]
  BY <1>1
<1>3. /\ kpc[c] = "drain" /\ UNCHANGED <<kpc, pr, proc_name, before>>
      /\ temp_queue \in [CPU -> Seq(Proc)]
  BY DEF Drain, KillInv, KindInv, KillTypeOK
<1>4. kpc[c] # "no" /\ kpc'[c] = "drain" /\ \A d \in CPU \ {c} : kpc'[d] = kpc[d]
  BY <1>3
<1>5. /\ \A p \in Level \ {pr[c]} : mlq_ready_queue'[p] = mlq_ready_queue[p]
      /\ pr[c] # -1 => mlq_ready_queue'[pr[c]] = RemoveAt(QueueOf(c), k)
  BY <1>2, SetQueueAt
<1>6. UnderWork(c)'
  <2> SUFFICES ASSUME pr[c] # -1
               PROVE  Draining(mlq_ready_queue'[pr[c]], temp_queue'[c], before[c][pr[c]], proc_name[c])
    BY <1>3, <1>4 DEF UnderWork, Draining, InLine, InOrder, Precedes, Spared
  <2>1. PICK a \in Seq(Proc), b \in Seq(Proc) : a = mlq_ready_queue[pr[c]] /\ b = temp_queue[c]
    BY AtLevel
  <2>2. Fits(a, b) /\ MAX_QUEUE_SIZE \in Nat /\ (\A d \in CPU \ {c} : kpc[d] = "no") /\ pr[c] \in Level
    BY <2>1, AtLevel
  <2>3. QueueOf(c) = a
    BY <2>1 DEF QueueOf
  <2>4. \A j \in DOMAIN a : a[j] \in Proc /\ a[j] \notin finished /\ prio[a[j]] = pr[c]
    <3> SUFFICES ASSUME NEW j \in DOMAIN a PROVE a[j] \in Proc /\ a[j] \notin finished /\ prio[a[j]] = pr[c]
      OBVIOUS
    <3>1. a[j] \in Proc
      BY LenProperties, ElementOfSeq
    <3>2. a[j] \in Held(c)
      BY <2>1 DEF Held, ToSet
    <3> QED BY <3>1, <3>2, HeldAlive, HeldKind DEF KillInv
  <2>5. k = 1 /\ 1 \in DOMAIN a
    <3>1. pr[c] \in Int /\ k \in Candidates(a)
      BY <2>2, <2>3 DEF Level
    <3> QED BY <2>4, <3>1, FirstTaken
  <2>6. Draining(a, b, before[c][pr[c]], proc_name[c])
    BY <1>3, <2>1 DEF OrderInv, UnderWork
  <2>7. mlq_ready_queue'[pr[c]] = RemoveAt(a, 1)
    BY <1>5, <2>3, <2>5
  <2>8. found = (path[a[1]] = proc_name[c])
    BY <2>3, <2>4, <2>5 DEF Matches
  <2>9. CASE path[a[1]] = proc_name[c]
    <3>1. temp_queue'[c] = b
      BY <1>2, <2>1, <2>8, <2>9
    <3> QED BY <2>2, <2>5, <2>6, <2>7, <2>9, <3>1, DrainOne
  <2>10. CASE path[a[1]] # proc_name[c]
    <3>1. temp_queue'[c] = enqueue(b, a[1])
      BY <1>2, <1>3, <2>1, <2>3, <2>5, <2>8, <2>10
    <3> QED BY <2>2, <2>5, <2>6, <2>7, <2>10, <3>1, DrainOne
  <2> QED BY <2>9, <2>10
<1> QED BY <1>3, <1>4, <1>5, <1>6, OrderKept

LEMMA DrainEndInOrder ==
  ASSUME SchedAssumption, KillInv, OrderInv, NEW c \in CPU, DrainEnd(c)
  PROVE  OrderInv'
<1>1. /\ kpc[c] = "drain" /\ kpc' = [kpc EXCEPT ![c] = "restore"]
      /\ UNCHANGED <<mlq_ready_queue, pr, temp_queue, proc_name, before>>
      /\ empty(QueueOf(c))
      /\ kpc \in [CPU -> {"no", "drain", "restore"}]
  BY DEF DrainEnd, vars, schedVars, KillInv, KindInv, KillTypeOK
<1>2. kpc[c] # "no" /\ kpc'[c] = "restore" /\ \A d \in CPU \ {c} : kpc'[d] = kpc[d]
  BY <1>1
<1>3. UnderWork(c)'
  <2> SUFFICES ASSUME pr[c] # -1
               PROVE  Restoring(mlq_ready_queue'[pr[c]], temp_queue[c], before[c][pr[c]], proc_name[c])
    BY <1>1, <1>2 DEF UnderWork, Restoring, InLine, InOrder, Precedes, Spared
  <2>3. mlq_ready_queue[pr[c]] = <<>> /\ mlq_ready_queue'[pr[c]] = <<>>
    BY <1>1 DEF QueueOf, empty
  <2>4. Draining(<<>>, temp_queue[c], before[c][pr[c]], proc_name[c])
    BY <1>1, <2>3 DEF OrderInv, UnderWork
  <2> QED BY <2>3, <2>4, Drained
<1> QED BY <1>1, <1>2, <1>3, OrderKept

(* And the first of temp_queue goes to the back of the queue. *)
LEMMA RestoreInOrder ==
  ASSUME SchedAssumption, KillInv, OrderInv, NEW c \in CPU, Restore(c)
  PROVE  OrderInv'
<1>1. PICK k \in Candidates(temp_queue[c]) :
        /\ SetQueue(c, enqueue(QueueOf(c), temp_queue[c][k]))
        /\ temp_queue' = [temp_queue EXCEPT ![c] = RemoveAt(temp_queue[c], k)]
  BY DEF Restore
<1>2. /\ kpc[c] = "restore" /\ UNCHANGED <<kpc, pr, proc_name, before>> /\ temp_queue \in [CPU -> Seq(Proc)]
  BY DEF Restore, KillInv, KindInv, KillTypeOK
<1>3. kpc[c] # "no" /\ kpc'[c] = "restore" /\ \A d \in CPU \ {c} : kpc'[d] = kpc[d]
  BY <1>2
<1>4. /\ \A p \in Level \ {pr[c]} : mlq_ready_queue'[p] = mlq_ready_queue[p]
      /\ pr[c] # -1 => mlq_ready_queue'[pr[c]] = enqueue(QueueOf(c), temp_queue[c][k])
  BY <1>1, SetQueueAt
<1>5. UnderWork(c)'
  <2> SUFFICES ASSUME pr[c] # -1
               PROVE  Restoring(mlq_ready_queue'[pr[c]], temp_queue'[c], before[c][pr[c]], proc_name[c])
    BY <1>2, <1>3 DEF UnderWork, Restoring, InLine, InOrder, Precedes, Spared
  <2>1. PICK a \in Seq(Proc), b \in Seq(Proc) : a = mlq_ready_queue[pr[c]] /\ b = temp_queue[c]
    BY AtLevel
  <2>2. /\ Fits(a, b) /\ MAX_QUEUE_SIZE \in Nat /\ (\A d \in CPU \ {c} : kpc[d] = "no") /\ pr[c] \in Level
    BY <2>1, AtLevel
  <2>3. Fits(b, a)
    <3>1. Len(a) \in Nat /\ Len(b) \in Nat
      BY LenProperties
    <3> QED BY <2>2, <3>1 DEF Fits
  <2>4. QueueOf(c) = a
    BY <2>1 DEF QueueOf
  <2>5. \A j \in DOMAIN b : b[j] \notin finished /\ prio[b[j]] = pr[c]
    <3> SUFFICES ASSUME NEW j \in DOMAIN b PROVE b[j] \notin finished /\ prio[b[j]] = pr[c]
      OBVIOUS
    <3>1. b[j] \in Proc
      BY LenProperties, ElementOfSeq
    <3>2. b[j] \in Held(c)
      BY <2>1 DEF Held, ToSet
    <3> QED BY <3>1, <3>2, HeldAlive, HeldKind DEF KillInv
  <2>6. k = 1 /\ 1 \in DOMAIN b
    <3>1. pr[c] \in Int /\ k \in Candidates(b)
      BY <2>1, <2>2 DEF Level
    <3> QED BY <2>5, <3>1, FirstTaken
  <2>7. mlq_ready_queue'[pr[c]] = enqueue(a, b[1]) /\ temp_queue'[c] = RemoveAt(b, 1)
    BY <1>1, <1>2, <1>4, <2>1, <2>4, <2>6
  <2>8. Restoring(a, b, before[c][pr[c]], proc_name[c])
    BY <1>2, <2>1 DEF OrderInv, UnderWork
  <2> QED BY <2>2, <2>3, <2>6, <2>7, <2>8, RestoreOne
<1> QED BY <1>2, <1>3, <1>4, <1>5, OrderKept

(* A level is done when temp_queue is empty again. *)
LEMMA LevelDone ==
  ASSUME SchedAssumption, KillInv, OrderInv, NEW c \in CPU, kpc[c] = "restore", empty(temp_queue[c]), pr[c] # -1
  PROVE  /\ ToSet(mlq_ready_queue[pr[c]]) = Spared(before[c][pr[c]], proc_name[c])
         /\ InOrder(mlq_ready_queue[pr[c]], before[c][pr[c]])
<1>2. temp_queue[c] = <<>>
  BY DEF empty
<1>3. Restoring(mlq_ready_queue[pr[c]], <<>>, before[c][pr[c]], proc_name[c])
  BY <1>2 DEF OrderInv, UnderWork
<1> QED BY <1>3, Restored

LEMMA NextInOrder ==
  ASSUME SchedAssumption, KillInv, OrderInv, NEW c \in CPU, NextQueue(c)
  PROVE  OrderInv'
<1>1. /\ kpc[c] = "restore" /\ kpc' = [kpc EXCEPT ![c] = "drain"] /\ empty(temp_queue[c]) /\ pr[c] # MAX_PRIO - 1
      /\ pr' = [pr EXCEPT ![c] = pr[c] + 1] /\ temp_queue' = [temp_queue EXCEPT ![c] = <<>>]
      /\ UNCHANGED <<mlq_ready_queue, proc_name, before>>
      /\ kpc \in [CPU -> {"no", "drain", "restore"}] /\ temp_queue \in [CPU -> Seq(Proc)]
      /\ pr \in [CPU -> -1 .. MAX_PRIO - 1] /\ MAX_PRIO \in Nat
  BY DEF NextQueue, AllRestored, LastQueue, vars, schedVars, KillInv, KindInv, KillTypeOK, SchedAssumption
<1>2. /\ kpc[c] # "no" /\ kpc'[c] = "drain" /\ pr'[c] = pr[c] + 1 /\ temp_queue'[c] = <<>>
      /\ pr[c] \in Int /\ pr[c] + 1 \in Level /\ pr[c] + 1 # -1
  <2>1. kpc[c] # "no" /\ kpc'[c] = "drain" /\ pr'[c] = pr[c] + 1 /\ temp_queue'[c] = <<>>
    BY <1>1
  <2>2. pr[c] \in -1 .. MAX_PRIO - 1 /\ pr[c] # MAX_PRIO - 1 /\ MAX_PRIO \in Nat
    BY <1>1
  <2> QED BY <2>1, <2>2 DEF Level
<1>3. \A d \in CPU \ {c} : kpc[d] = "no" /\ kpc'[d] = "no"
  BY <1>1, <1>2 DEF KillInv, AloneInv
<1>4. before \in [CPU -> [Level -> Seq(Proc)]] /\ Untouched(c) /\ Done(c)
  BY <1>2 DEF OrderInv
<1>5. Untouched(c)'
  BY <1>1, <1>2, <1>4 DEF Untouched, Level
<1>6. Done(c)'
  <2> SUFFICES ASSUME NEW p \in Level, p < pr[c] + 1
               PROVE  /\ ToSet(mlq_ready_queue[p]) = Spared(before[c][p], proc_name[c])
                      /\ InOrder(mlq_ready_queue[p], before[c][p])
    BY <1>1, <1>2 DEF Done, Spared, InOrder, Precedes
  <2>1. p \in Nat
    BY <1>1 DEF Level
  <2>2. CASE p < pr[c]
    BY <1>4, <2>2 DEF Done
  <2>3. CASE p = pr[c]
    <3>1. pr[c] # -1
      BY <2>1, <2>3
    <3> QED BY <1>1, <2>3, <3>1, LevelDone
  <2>4. p < pr[c] \/ p = pr[c]
    BY <1>2, <2>1
  <2> QED BY <2>2, <2>3, <2>4
<1>7. UnderWork(c)'
  <2>1. PICK p \in Level : p = pr'[c] /\ p = pr[c] + 1
    BY <1>2
  <2>2. mlq_ready_queue[p] = before[c][p] /\ before[c][p] \in Seq(Proc)
    <3>1. p > pr[c]
      BY <1>2, <2>1
    <3> QED BY <1>4, <3>1 DEF Untouched
  <2>3. mlq_ready_queue'[p] = before[c][p]
    BY <1>1, <2>2
  <2>4. Draining(mlq_ready_queue'[p], temp_queue'[c], before[c][p], proc_name[c])
    BY <1>2, <2>2, <2>3, DrainStart
  <2> QED BY <1>1, <1>2, <2>1, <2>4 DEF UnderWork
<1> QED BY <1>1, <1>3, <1>4, <1>5, <1>6, <1>7 DEF OrderInv

LEMMA OrderStart ==
  ASSUME SchedAssumption, KillInit
  PROVE  OrderInv
<1>1. SchedTypeOK
  BY QueuesInit DEF KillInit, Init, QueueInv
<1> QED BY <1>1 DEF KillInit, OrderInv, SchedTypeOK

LEMMA OrderStep ==
  ASSUME SchedAssumption, KillInv, OrderInv, [KillNext]_killVars
  PROVE  OrderInv'
<1>1. /\ kpc \in [CPU -> {"no", "drain", "restore"}] /\ pr \in [CPU -> -1 .. MAX_PRIO - 1]
      /\ before \in [CPU -> [Level -> Seq(Proc)]] /\ mlq_ready_queue \in [Level -> Seq(Proc)]
      /\ \A c \in CPU : kpc[c] = "no" => pr[c] = -1
      /\ \A c, d \in CPU : kpc[c] # "no" /\ kpc[d] # "no" => c = d
  BY DEF KillInv, KindInv, KillTypeOK, AloneInv, OrderInv, TypeOK, SchedTypeOK
<1>2. CASE UNCHANGED killVars
  <2>1. UNCHANGED <<mlq_ready_queue, killLocals, before>>
    BY <1>2 DEF killVars, vars, schedVars
  <2> SUFFICES ASSUME NEW c \in CPU, kpc[c] # "no" PROVE Untouched(c)' /\ Done(c)' /\ UnderWork(c)'
    BY <1>1, <2>1 DEF OrderInv, killLocals
  <2>2. Untouched(c)' <=> Untouched(c)
    BY <2>1 DEF Untouched, killLocals
  <2>3. Done(c)' <=> Done(c)
    BY <2>1 DEF Done, Spared, InOrder, Precedes, killLocals
  <2>5. UnderWork(c)' <=> UnderWork(c)
    BY <2>1 DEF UnderWork, Draining, Restoring, InLine, InOrder, Precedes, Spared, killLocals
  <2> QED BY <2>2, <2>3, <2>5 DEF OrderInv
<1>3. CASE Others
  <2>1. NoKillAll /\ UNCHANGED <<killLocals, before>>
    BY <1>3 DEF Others
  <2> QED BY <1>1, <2>1 DEF OrderInv, NoKillAll, killLocals
<1>4. ASSUME NEW c \in CPU, NEW name \in Name, KillStart(c, name) PROVE OrderInv'
  <2>1. /\ NoKillAll /\ kpc' = [kpc EXCEPT ![c] = "drain"] /\ UNCHANGED <<mlq_ready_queue, pr>>
        /\ before' = [before EXCEPT ![c] = mlq_ready_queue]
    BY <1>4 DEF KillStart, vars, schedVars
  <2>2. /\ \A d \in CPU \ {c} : kpc'[d] = "no"
        /\ pr'[c] = -1 /\ before'[c] = mlq_ready_queue' /\ before' \in [CPU -> [Level -> Seq(Proc)]]
    BY <1>1, <2>1 DEF NoKillAll
  <2>3. \A p \in Level : ~(p < -1)
    BY DEF Level
  <2>4. Untouched(c)' /\ Done(c)' /\ UnderWork(c)'
    BY <2>2, <2>3 DEF Untouched, Done, UnderWork
  <2> QED BY <2>2, <2>4 DEF OrderInv
<1>5. ASSUME NEW c \in CPU, KillEnd(c) PROVE OrderInv'
  <2>1. /\ kpc[c] = "restore" /\ kpc' = [kpc EXCEPT ![c] = "no"]
        /\ before' = [before EXCEPT ![c] = [p \in Level |-> <<>>]]
    BY <1>5 DEF KillEnd
  <2>2. \A d \in CPU : kpc'[d] = "no"
    BY <1>1, <2>1
  <2>3. before' \in [CPU -> [Level -> Seq(Proc)]]
    BY <1>1, <2>1, EmptySeq
  <2> QED BY <2>2, <2>3 DEF OrderInv
<1> QED BY <1>2, <1>3, <1>4, <1>5, DrainInOrder, DrainEndInOrder, RestoreInOrder, NextInOrder
        DEF KillNext, KillAll

(* A killall that nobody disturbs loses no process: one that has room at    *)
(* its level and was not killed is where a caller can find it, and none is  *)
(* in two places.                                                           *)
THEOREM NobodyLost == KillSpec => []NoneLost
<1>1. KillInit => KillInv
  BY SchedAssumption, KillAssumption, PlacesStart
<1>2. KillInv /\ [KillNext]_killVars => KillInv'
  BY SchedAssumption, ClientAssumption, KillAssumption, PlacesStep
<1>3. KillInv => NoneLost
  <2> SUFFICES ASSUME KillInv, NoKillAll, NEW proc \in Proc
               PROVE  /\ KillPlaces(proc) <= 1
                      /\ Cardinality(Rivals(proc)) <= MAX_QUEUE_SIZE => KillPlaces(proc) = 1
    BY DEF NoneLost
  <2>1. \A q \in Proc : Waiting(q) <=> Ready(q)
    BY CalmWaiting DEF Calm, KillInv, AloneInv, NoKillAll
  <2>2. ApartInv
    <3>1. QueueInv
      BY DEF KillInv, AloneInv, KindInv, KillTypeOK, TypeOK, QueueInv
    <3> QED BY <2>1, <3>1 DEF ApartInv, KillInv, KindInv, KillTypeOK, WaitInv
  <2>3. Places(proc) = IF Here(proc) THEN 1 ELSE 0
    BY <2>2, SchedAssumption, PlacesOf
  <2>4. /\ proc \in killed => ~Here(proc)
        /\ Cardinality(Rivals(proc)) <= MAX_QUEUE_SIZE => Here(proc) \/ proc \in killed
    BY <2>1 DEF KillInv, WaitInv, Here
  <2> QED BY <2>3, <2>4 DEF KillPlaces
<1> QED BY <1>1, <1>2, <1>3, PTL DEF KillSpec

(* A killall that nobody disturbs takes the processes of its name out of    *)
(* the ready queues and nobody else, and leaves the others as they waited.  *)
THEOREM OthersSpared == KillSpec => KillsExactly
<1>1. KillInit => KillInv /\ OrderInv
  BY SchedAssumption, KillAssumption, PlacesStart, OrderStart
<1>2. KillInv /\ OrderInv /\ [KillNext]_killVars => KillInv' /\ OrderInv'
  BY SchedAssumption, ClientAssumption, KillAssumption, PlacesStep, OrderStep
<1>3. KillInv /\ OrderInv => \A c \in CPU : KillEnd(c) => \A p \in Level :
        /\ ToSet(mlq_ready_queue[p]) = Spared(before[c][p], proc_name[c])
        /\ InOrder(mlq_ready_queue[p], before[c][p])
  <2> SUFFICES ASSUME KillInv, OrderInv, NEW c \in CPU, KillEnd(c), NEW p \in Level
               PROVE  /\ ToSet(mlq_ready_queue[p]) = Spared(before[c][p], proc_name[c])
                      /\ InOrder(mlq_ready_queue[p], before[c][p])
    OBVIOUS
  <2>1. /\ kpc[c] = "restore" /\ empty(temp_queue[c]) /\ pr[c] = MAX_PRIO - 1 /\ MAX_PRIO \in Nat \ {0}
        /\ Done(c)
    BY SchedAssumption DEF KillEnd, AllRestored, LastQueue, SchedAssumption, OrderInv
  <2>2. CASE p < pr[c]
    BY <2>1, <2>2 DEF Done
  <2>3. CASE p = pr[c]
    <3>1. pr[c] # -1
      BY <2>1
    <3> QED BY <2>1, <2>3, <3>1, SchedAssumption, LevelDone
  <2>4. p < pr[c] \/ p = pr[c]
    BY <2>1 DEF Level
  <2> QED BY <2>2, <2>3, <2>4
<1> QED BY <1>1, <1>2, <1>3, PTL DEF KillSpec, KillsExactly

=============================================================================
