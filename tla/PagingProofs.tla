---------------------------- MODULE PagingProofs ----------------------------
(***************************************************************************)
(* The virtual memory of a process (src/libmem.c, src/mm-vm.c, src/mm.c)   *)
(* on one CPU, whatever the program allocates, frees, reads and writes,    *)
(* when RAM has a frame for every page that allocations can ask for.  For  *)
(* every size of pages, RAM and address space and any number of registers. *)
(***************************************************************************)
EXTENDS Paging, SequenceTheorems, FiniteSetTheorems, WellFoundedInduction, TLAPS

(* The inductive invariants, when RAM has a frame for every page below      *)
(* MaxBrk besides those that the other processes may take.                  *)

EnoughRam == NumFrames >= OtherFrames + MaxBrk \div PAGESZ

(* The break is the end of the area, and that the end of a page. *)
Pages == vm_end \div PAGESZ

BreakInv == sbrk = vm_end /\ vm_end = Pages * PAGESZ

(* The entry of a page below the break was set. *)
PagesMapped == \A p \in Page : p < Pages => pgd[p] # NoFrame

(* The list of free frames, the others and the break account for RAM,       *)
(* wherever accesses have led pg_getpage.                                   *)
FreeFramesInv ==
  /\ IsInjective(free_fp_list)
  /\ IsFiniteSet(others) /\ Cardinality(others) <= OtherFrames
  /\ Range(free_fp_list) \intersect others = {}
  /\ Len(free_fp_list) + Cardinality(others) + Pages = NumFrames

(* The pages below the break and no others are mapped, each to a frame of   *)
(* its own, and every frame of RAM has its user.  An access beyond the      *)
(* regions ends that.                                                       *)
PagesExact ==
  /\ \A p \in Page : IF p < Pages THEN pgd[p] \in Frame ELSE pgd[p] = NoFrame
  /\ \A p, q \in Page : p # q /\ pgd[p] # NoFrame => pgd[p] # pgd[q]
  /\ \A p \in Page : pgd[p] \notin others \union Range(free_fp_list)
  /\ Frame = Range(free_fp_list) \union others \union (Range(pgd) \ {NoFrame})

(* Every region there is lies below the break, also one that its register   *)
(* names after it was freed, which __free may enlist again.  A region of a  *)
(* register that was never allocated, once enlisted, ends that.             *)
Sound(region) == region[1] <= region[2] /\ region[2] <= sbrk

FreesAllocated == "freedUnset" \notin misuse

RegionInv == FreesAllocated =>
  /\ \A k \in DOMAIN vm_freerg_list : Sound(vm_freerg_list[k])
  /\ \A r \in live \union freed : Sound(symrgtbl[r])
  /\ RegionsApart

VmInv ==
  /\ TypeOK
  /\ BreakInv
  /\ PagesMapped
  /\ FreeFramesInv
  /\ KeepsToRegions => PagesExact
  /\ RegionInv

(* Frames of swap have numbers. *)
SwapInv == swp_free_fp_list \in Seq(Nat)

(* Why the last write is read: no page is ever swapped out, and the mark is *)
(* where the page table says.                                               *)
MarkInv ==
  /\ VmInv
  /\ mark # NoMark =>
       /\ misuse = {}
       /\ \E r \in Reg, off \in Nat : mark = <<r, off>> /\ InRegion(r, off)
  /\ ReadsLastWrite

-----------------------------------------------------------------------------
(* Pages of P addresses: whole pages, the page of an address, and the cells *)
(* of two frames.                                                           *)
LEMMA WholePages ==
  ASSUME NEW P \in Nat \ {0}, NEW k \in Nat, NEW max \in Nat
  PROVE  /\ (k * P) \div P = k
         /\ k * P <= max => k <= max \div P
BY Z3

LEMMA PageBelow ==
  ASSUME NEW P \in Nat \ {0}, NEW a \in Nat
  PROVE  /\ a \div P \in Nat
         /\ a % P \in 0 .. P - 1
         /\ a = (a \div P) * P + (a % P)
BY Z3

LEMMA PageBelowBreak ==
  ASSUME NEW P \in Nat \ {0}, NEW a \in Nat, NEW k \in Nat, a < k * P
  PROVE  a \div P < k
BY Z3

LEMMA CellsApart ==
  ASSUME NEW P \in Nat \ {0}, NEW f \in Nat, NEW g \in Nat, NEW o \in 0 .. P - 1, NEW q \in 0 .. P - 1,
         f * P + o = g * P + q
  PROVE  f = g /\ o = q
BY Z3

LEMMA MorePages ==
  ASSUME NEW P \in Nat, NEW k \in Nat, NEW n \in Nat
  PROVE  (k + n) * P = k * P + n * P /\ k * P \in Nat
BY Z3

LEMMA AlignProperties ==
  ASSUME VmAssumption, NEW size \in Nat
  PROVE  /\ Align(size) \div PAGESZ \in Nat
         /\ Align(size) = (Align(size) \div PAGESZ) * PAGESZ
         /\ size <= Align(size)
<1> DEFINE a == size + PAGESZ - 1
           n == a \div PAGESZ
<1>1. PAGESZ \in Nat \ {0} /\ a \in Nat
  BY DEF VmAssumption
<1>2. n \in Nat /\ a % PAGESZ \in 0 .. PAGESZ - 1 /\ a = n * PAGESZ + (a % PAGESZ)
  BY <1>1, PageBelow
<1>3. Align(size) = n * PAGESZ
  BY DEF Align
<1> HIDE DEF n
<1>4. (n * PAGESZ) \div PAGESZ = n
  BY <1>1, <1>2, WholePages
<1>5. n * PAGESZ \in Nat
  BY <1>1, <1>2, MorePages
<1>6. size <= n * PAGESZ
  BY <1>1, <1>2, <1>5
<1> QED BY <1>2, <1>3, <1>4, <1>6

LEMMA MinProperties ==
  ASSUME NEW S, S \subseteq Nat, S # {}
  PROVE  Min(S) \in S
<1> DEFINE Less == OpToRel(<, Nat)
<1>1. \A x, y \in Nat : <<x, y>> \in Less <=> x < y
  BY DEF OpToRel
<1>2. IsWellFoundedOn(Less, Nat)
  BY NatLessThanWellFounded
<1> HIDE DEF Less
<1>3. \E x \in S : \A y \in S : ~(<<y, x>> \in Less)
  BY <1>2, WFMin, Zenon
<1>4. ASSUME NEW x \in S, \A y \in S : ~(<<y, x>> \in Less)
      PROVE  \A y \in S : x <= y
  <2> SUFFICES ASSUME NEW y \in S
               PROVE  x <= y
    OBVIOUS
  <2>1. ~(<<y, x>> \in Less)
    BY <1>4, Zenon
  <2>2. x \in Nat /\ y \in Nat
    OBVIOUS
  <2> QED BY <1>1, <2>1, <2>2
<1>5. \E x \in S : \A y \in S : x <= y
  BY <1>3, <1>4, Zenon
<1> QED BY <1>5 DEF Min

-----------------------------------------------------------------------------
(* The frames. *)

(* What vm_map_ram does to the page table and the list of free frames.      *)
LEMMA MapRam ==
  ASSUME VmAssumption, EnoughRam, VmInv, NEW n \in Nat, sbrk + n * PAGESZ <= MaxBrk, IncVmaLimit(n)
  PROVE  /\ n <= Len(free_fp_list)
         /\ Pages \in Nat /\ Pages' = Pages + n /\ Pages' <= MaxBrk \div PAGESZ
         /\ sbrk' = sbrk + n * PAGESZ /\ sbrk' \in 0 .. MaxBrk /\ BreakInv'
         /\ free_fp_list' = SubSeq(free_fp_list, n + 1, Len(free_fp_list))
         /\ fifo_pgn' \in Seq(Page)
         /\ pgd' = [p \in Page |-> IF p \in Pages .. Pages + n - 1 THEN free_fp_list[Pages + n - p] ELSE pgd[p]]
<1>1. /\ PAGESZ \in Nat \ {0} /\ MaxBrk \in Nat /\ NumFrames \in Nat /\ OtherFrames \in Nat
      /\ FpnRange \in Nat /\ NumFrames <= FpnRange
      /\ NumFrames >= OtherFrames + MaxBrk \div PAGESZ
      /\ MAX_PGN \in Nat /\ MaxBrk \div PAGESZ < MAX_PGN
  BY DEF VmAssumption, EnoughRam
<1>2. /\ sbrk = vm_end /\ vm_end = Pages * PAGESZ /\ vm_end \in 0 .. MaxBrk
      /\ free_fp_list \in Seq(Frame) /\ fifo_pgn \in Seq(Page)
  BY DEF VmInv, BreakInv, TypeOK
<1>3. /\ Cardinality(others) \in Nat /\ Cardinality(others) <= OtherFrames
      /\ Len(free_fp_list) + Cardinality(others) + Pages = NumFrames
  BY FS_CardinalityType DEF VmInv, FreeFramesInv
<1>4. Pages \in Nat /\ MaxBrk \div PAGESZ \in Nat
  <2>1. vm_end \in Nat
    BY <1>1, <1>2
  <2>2. vm_end \div PAGESZ \in Nat
    BY <1>1, <2>1, PageBelow
  <2>3. MaxBrk \div PAGESZ \in Nat
    BY <1>1, PageBelow
  <2> QED BY <2>2, <2>3 DEF Pages
<1>5. (Pages + n) * PAGESZ = vm_end + n * PAGESZ /\ n * PAGESZ \in Nat
  BY <1>1, <1>2, <1>4, MorePages
<1>6. Pages + n <= MaxBrk \div PAGESZ
  <2>1. Pages + n \in Nat /\ (Pages + n) * PAGESZ <= MaxBrk
    BY <1>2, <1>4, <1>5
  <2> HIDE DEF Pages
  <2> QED BY <1>1, <2>1, WholePages
<1>7. Len(free_fp_list) \in Nat /\ n <= Len(free_fp_list)
  BY <1>1, <1>2, <1>3, <1>4, <1>6, LenProperties
<1>8. /\ pgd' = Mapped(n)
      /\ fifo_pgn' = <<vm_end \div PAGESZ + n>> \o fifo_pgn
      /\ free_fp_list' = SubSeq(free_fp_list, n + 1, Len(free_fp_list))
      /\ vm_end' = vm_end + n * PAGESZ /\ sbrk' = vm_end'
  BY <1>2, <1>7 DEF IncVmaLimit, VmMapRam, EnoughFrames, Enlisted
<1>9. Pages' = Pages + n
  <2>1. vm_end' = (Pages + n) * PAGESZ
    BY <1>5, <1>8
  <2>2. ((Pages + n) * PAGESZ) \div PAGESZ = Pages + n
    BY <1>1, <1>4, WholePages
  <2> QED BY <2>1, <2>2 DEF Pages
<1>10. BreakInv'
  BY <1>5, <1>8, <1>9 DEF BreakInv
<1>11. fifo_pgn' \in Seq(Page)
  <2> DEFINE top == MaxBrk \div PAGESZ
  <2>2. Pages + n \in Nat /\ Pages + n <= top /\ top \in Nat /\ top < MAX_PGN /\ MAX_PGN \in Nat
    BY <1>1, <1>4, <1>6
  <2> HIDE DEF top
  <2>3. Pages + n \in Page
    BY <2>2 DEF Page
  <2>1. <<vm_end \div PAGESZ + n>> \in Seq(Page)
    BY <2>3 DEF Pages
  <2> QED BY <1>2, <1>8, <2>1, ConcatProperties
<1>12. ASSUME NEW p \in Page, p \in Pages .. Pages + n - 1
       PROVE  SetFpn(Frames(n)[PageIndex(p)]) = free_fp_list[Pages + n - p]
  <2> DEFINE s == SubSeq(free_fp_list, 1, n)
             k == PageIndex(p)
  <2>1. k = p - Pages + 1 /\ k \in 1 .. n
    BY <1>4, <1>12 DEF PageIndex, Pages
  <2>2. s = [j \in 1 .. n |-> free_fp_list[j]] /\ Len(s) = n
    BY <1>2, <1>7, SubSeqProperties
  <2>3. Frames(n)[k] = s[n - k + 1]
    BY <2>1, <2>2 DEF Frames, Reverse
  <2>4. n - k + 1 = Pages + n - p /\ n - k + 1 \in 1 .. n
    BY <1>4, <1>12, <2>1
  <2>5. Frames(n)[k] = free_fp_list[Pages + n - p]
    BY <2>2, <2>3, <2>4
  <2>6. free_fp_list[Pages + n - p] \in 0 .. NumFrames - 1
    BY SMTT(30), <1>2, <1>7, <2>4, ElementOfSeq DEF Frame
  <2>7. \A fpn \in 0 .. NumFrames - 1 : fpn % FpnRange = fpn
    BY <1>1
  <2> QED BY <2>5, <2>6, <2>7 DEF SetFpn
<1>13. pgd' = [p \in Page |-> IF p \in Pages .. Pages + n - 1 THEN free_fp_list[Pages + n - p] ELSE pgd[p]]
  <2>1. \A p \in Page : PageIndex(p) \in 1 .. n <=> p \in Pages .. Pages + n - 1
    BY <1>1, <1>4 DEF PageIndex, Pages, Page
  <2> QED BY <1>8, <1>12, <2>1 DEF Mapped
<1>14. sbrk' = sbrk + n * PAGESZ
  BY <1>2, <1>8
<1>15. sbrk' \in 0 .. MaxBrk
  <2> DEFINE gain == n * PAGESZ
  <2>1. sbrk' = sbrk + gain /\ sbrk \in Nat /\ gain \in Nat /\ sbrk + gain <= MaxBrk /\ MaxBrk \in Nat
    BY <1>1, <1>2, <1>5, <1>14
  <2> HIDE DEF gain
  <2> QED BY <2>1
<1>16. Pages' <= MaxBrk \div PAGESZ
  BY <1>6, <1>9
<1>17. free_fp_list' = SubSeq(free_fp_list, n + 1, Len(free_fp_list))
  BY <1>8
<1> QED BY <1>4, <1>7, <1>9, <1>10, <1>11, <1>13, <1>14, <1>15, <1>16, <1>17

(* The frame of page p once n more pages are mapped.  Each of them has a    *)
(* frame of the free list, and they are the first n of it.                  *)
LEMMA MapRamFrames ==
  ASSUME VmAssumption, EnoughRam, VmInv, NEW n \in Nat, sbrk + n * PAGESZ <= MaxBrk, IncVmaLimit(n),
         others' = others
  PROVE  /\ pgd' \in [Page -> Nat \union {NoFrame}]
         /\ free_fp_list' \in Seq(Frame)
         /\ PagesMapped'
         /\ FreeFramesInv'
         /\ PagesExact => PagesExact'
<1> DEFINE L == free_fp_list
           P == Pages
           M == free_fp_list'
<1>1. /\ n <= Len(L) /\ P \in Nat /\ Pages' = P + n
      /\ M = SubSeq(L, n + 1, Len(L))
      /\ pgd' = [p \in Page |-> IF p \in P .. P + n - 1 THEN L[P + n - p] ELSE pgd[p]]
  BY MapRam
<1>2. /\ L \in Seq(Frame) /\ Len(L) \in Nat /\ DOMAIN L = 1 .. Len(L)
      /\ pgd \in [Page -> Nat \union {NoFrame}]
      /\ others \subseteq Frame
      /\ Frame \subseteq Nat /\ NoFrame \notin Nat /\ NoFrame \notin Frame
  BY LenProperties DEF VmInv, TypeOK, VmAssumption, Frame
<1>3. /\ Page \subseteq Nat
      /\ MAX_PGN \in Nat /\ MaxBrk \div PAGESZ < MAX_PGN
  BY DEF Page, VmAssumption
<1>4. Pages' <= MaxBrk \div PAGESZ /\ MaxBrk \div PAGESZ \in Nat
  <2>1. Pages' <= MaxBrk \div PAGESZ
    BY MapRam
  <2>2. MaxBrk \in Nat /\ PAGESZ \in Nat \ {0}
    BY DEF VmAssumption
  <2> QED BY <2>1, <2>2, PageBelow
<1>5. /\ \A p \in Page : p < P => pgd[p] # NoFrame
      /\ IsInjective(L) /\ Range(L) \intersect others = {}
      /\ IsFiniteSet(others) /\ Cardinality(others) <= OtherFrames
      /\ Len(L) + Cardinality(others) + P = NumFrames
  BY DEF VmInv, FreeFramesInv, PagesMapped
<1>6. Cardinality(others) \in Nat
  BY <1>5, FS_CardinalityType
<1>7. /\ M \in Seq(Frame)
      /\ Len(M) = Len(L) - n
      /\ DOMAIN M = 1 .. Len(L) - n
      /\ \A k \in DOMAIN M : M[k] = L[n + k] /\ n + k \in 1 .. Len(L)
  <2> DEFINE l == Len(L)
  <2>1. l \in Nat /\ n + 1 \in Int /\ l \in Int /\ n <= l
    BY <1>1, <1>2
  <2>2. \A k \in n + 1 .. l : L[k] \in Frame
    BY <1>2, ElementOfSeq
  <2>3. /\ SubSeq(L, n + 1, l) \in Seq(Frame)
        /\ Len(SubSeq(L, n + 1, l)) = IF n + 1 <= l THEN l - (n + 1) + 1 ELSE 0
        /\ \A k \in 1 .. l - (n + 1) + 1 : SubSeq(L, n + 1, l)[k] = L[n + 1 + k - 1]
    BY <2>1, <2>2, SubSeqProperties
  <2> HIDE DEF l
  <2>4. M = SubSeq(L, n + 1, l)
    BY <1>1 DEF l
  <2>5. (IF n + 1 <= l THEN l - (n + 1) + 1 ELSE 0) = l - n /\ l - (n + 1) + 1 = l - n
    BY <2>1
  <2>6. M \in Seq(Frame) /\ Len(M) = l - n /\ DOMAIN M = 1 .. l - n
    BY <2>3, <2>4, <2>5, LenProperties
  <2>7. \A k \in 1 .. l - n : n + 1 + k - 1 = n + k /\ n + k \in 1 .. l
    BY <2>1
  <2>8. \A k \in 1 .. l - n : M[k] = L[n + k]
    BY <2>3, <2>4, <2>5, <2>7
  <2> QED BY <2>6, <2>7, <2>8 DEF l
<1>8. \A p \in Page : p \in P .. P + n - 1 =>
        /\ P + n - p \in 1 .. n
        /\ P + n - p \in 1 .. Len(L)
        /\ pgd'[p] = L[P + n - p]
        /\ L[P + n - p] \in Frame
  BY <1>1, <1>2, <1>3, ElementOfSeq
<1>9. \A p \in Page : p \notin P .. P + n - 1 => pgd'[p] = pgd[p]
  BY <1>1
<1>10. \A p \in Page : p < P => p \notin P .. P + n - 1
  BY <1>1, <1>3
<1>11. \A p \in Page : p < P + n => (p < P \/ p \in P .. P + n - 1)
  BY <1>1, <1>3
<1>12. \A p \in Page : ~(p < P + n) => (~(p < P) /\ p \notin P .. P + n - 1)
  BY <1>1, <1>3
<1> HIDE DEF P
<1>13. \A p \in Page : pgd'[p] \in Nat \union {NoFrame} /\ (p < P + n => pgd'[p] # NoFrame)
  BY <1>2, <1>5, <1>8, <1>9, <1>11
<1>14. pgd' \in [Page -> Nat \union {NoFrame}]
  BY <1>1, <1>13
<1>15. \A i, j \in 1 .. Len(L) : i # j => L[i] # L[j]
  BY <1>2, <1>5 DEF IsInjective
<1>16. \A i \in 1 .. Len(L) : L[i] \in Frame /\ L[i] \in Range(L) /\ L[i] \notin others
  BY <1>2, <1>5, ElementOfSeq DEF Range
<1>18. \A f \in Range(M) : \E k \in 1 .. Len(L) : k > n /\ f = L[k]
  <2> SUFFICES ASSUME NEW k \in DOMAIN M
               PROVE  \E j \in 1 .. Len(L) : j > n /\ M[k] = L[j]
    BY DEF Range
  <2>1. n + k > n
    BY <1>7
  <2> QED BY <1>7, <2>1
<1>19. \A k \in 1 .. Len(L) : k > n => L[k] \in Range(M)
  <2> SUFFICES ASSUME NEW k \in 1 .. Len(L), k > n
               PROVE  L[k] \in Range(M)
    OBVIOUS
  <2>1. k - n \in DOMAIN M /\ n + (k - n) = k
    BY <1>2, <1>7
  <2> QED BY <1>7, <2>1 DEF Range
<1>20. Range(M) \intersect others = {}
  BY <1>16, <1>18
<1>22. IsInjective(M)
  <2> SUFFICES ASSUME NEW j \in DOMAIN M, NEW k \in DOMAIN M, M[j] = M[k]
               PROVE  j = k
    BY DEF IsInjective
  <2>1. n + j = n + k
    BY <1>7, <1>15
  <2> QED BY <1>7, <2>1
<1>23. Len(M) + Cardinality(others) + (P + n) = NumFrames
  <2> DEFINE l == Len(L)
             c == Cardinality(others)
  <2>1. l \in Nat /\ c \in Nat /\ P \in Nat /\ l + c + P = NumFrames /\ n <= l
    BY <1>1, <1>2, <1>5, <1>6 DEF P
  <2>2. Len(M) = l - n
    BY <1>7
  <2> HIDE DEF l, c
  <2>3. (l - n) + c + (P + n) = NumFrames
    BY <2>1
  <2> QED BY <2>2, <2>3 DEF c
<1>24. FreeFramesInv'
  <2>1. Len(free_fp_list') + Cardinality(others') + Pages' = NumFrames
    BY <1>1, <1>23 DEF P
  <2> QED BY <1>5, <1>20, <1>22, <2>1 DEF FreeFramesInv
<1>25. PagesMapped'
  BY <1>1, <1>13 DEF P, PagesMapped
<1>26. ASSUME PagesExact
       PROVE  PagesExact'
  <2>1. \A p \in Page : IF p < P THEN pgd[p] \in Frame ELSE pgd[p] = NoFrame
    BY <1>26 DEF PagesExact, P
  <2>2. \A i \in 1 .. Len(L), p \in Page : pgd[p] # L[i]
    BY <1>16, <1>26 DEF PagesExact
  <2>3. \A p \in Page : IF p < P + n THEN pgd'[p] \in Frame ELSE pgd'[p] = NoFrame
    BY <1>8, <1>9, <1>10, <1>11, <1>12, <2>1
  <2>4. ASSUME NEW p \in Page, NEW q \in Page, p # q, pgd'[p] # NoFrame
        PROVE  pgd'[p] # pgd'[q]
    <3>1. CASE p \in P .. P + n - 1 /\ q \in P .. P + n - 1
      <4>1. P + n - p # P + n - q
        BY <1>1, <1>3, <2>4
      <4> QED BY <1>8, <1>15, <3>1, <4>1
    <3>2. CASE p \in P .. P + n - 1 /\ q \notin P .. P + n - 1
      BY SMTT(30), <1>8, <1>9, <2>2, <3>2
    <3>3. CASE p \notin P .. P + n - 1 /\ q \in P .. P + n - 1
      BY <1>8, <1>9, <2>2, <3>3
    <3>4. CASE p \notin P .. P + n - 1 /\ q \notin P .. P + n - 1
      BY <1>9, <1>26, <2>4, <3>4 DEF PagesExact
    <3> QED BY <3>1, <3>2, <3>3, <3>4
  <2>5. ASSUME NEW p \in Page
        PROVE  pgd'[p] \notin others /\ pgd'[p] \notin Range(M)
    <3>1. CASE p \in P .. P + n - 1
      <4>1. pgd'[p] \notin others
        BY <1>8, <1>16, <3>1
      <4>2. \A k \in 1 .. Len(L) : k > n => L[k] # L[P + n - p]
        <5>1. \A k \in 1 .. Len(L) : k > n => k # P + n - p
          BY <1>2, <1>8, <3>1
        <5> QED BY <1>8, <1>15, <3>1, <5>1
      <4> QED BY <1>8, <1>18, <3>1, <4>1, <4>2
    <3>2. CASE p \notin P .. P + n - 1
      BY <1>9, <1>18, <1>26, <2>2, <3>2 DEF PagesExact
    <3> QED BY <3>1, <3>2
  <2>6. DOMAIN pgd = Page /\ DOMAIN pgd' = Page
    BY <1>1, <1>2
  <2>7. Frame \subseteq Range(M) \union others \union (Range(pgd') \ {NoFrame})
    <3> SUFFICES ASSUME NEW f \in Frame, f \notin others, f \notin Range(M)
                 PROVE  f \in Range(pgd') \ {NoFrame}
      OBVIOUS
    <3>1. f \in Range(L) \/ f \in Range(pgd) \ {NoFrame}
      BY <1>26 DEF PagesExact
    <3>2. CASE f \in Range(L)
      <4>1. PICK k \in 1 .. Len(L) : f = L[k]
        BY <1>2, <3>2 DEF Range
      <4>2. k <= n
        BY <1>1, <1>2, <1>19, <4>1
      <4>3. P + n - k \in Page /\ P + n - k \in P .. P + n - 1 /\ P + n - (P + n - k) = k
        <5>1. P + n - k \in P .. P + n - 1 /\ P + n - (P + n - k) = k
          BY <1>1, <1>2, <4>2
        <5>2. P + n <= MaxBrk \div PAGESZ
          BY <1>1, <1>4 DEF P
        <5>3. P \in Nat /\ k \in Nat /\ k <= n
          BY <1>1, <4>2 DEF P
        <5>4. P + n - k \in 0 .. MAX_PGN - 1
          <6> DEFINE top == MaxBrk \div PAGESZ
          <6>1. top \in Nat /\ P + n <= top /\ top < MAX_PGN /\ MAX_PGN \in Nat
            BY <1>3, <1>4, <5>2
          <6> HIDE DEF top
          <6> QED BY <5>1, <5>3, <6>1
        <5> QED BY <5>1, <5>4 DEF Page
      <4>4. pgd'[P + n - k] = f
        BY <1>8, <4>1, <4>3
      <4> QED BY <1>2, <2>6, <4>3, <4>4 DEF Range
    <3>3. CASE f \in Range(pgd) \ {NoFrame}
      <4>1. PICK p \in Page : f = pgd[p] /\ pgd[p] # NoFrame
        BY <2>6, <3>3 DEF Range
      <4>2. p \notin P .. P + n - 1
        <5>1. p < P
          BY <2>1, <4>1
        <5> QED BY <1>10, <5>1
      <4> QED BY <1>9, <2>6, <4>1, <4>2 DEF Range
    <3> QED BY <3>1, <3>2, <3>3
  <2>8. Range(M) \subseteq Frame
    BY <1>16, <1>18
  <2>9. Range(pgd') \ {NoFrame} \subseteq Frame
    BY <2>3, <2>6 DEF Range
  <2>10. Frame = Range(M) \union others' \union (Range(pgd') \ {NoFrame})
    BY <1>2, <2>7, <2>8, <2>9
  <2>11. \A p \in Page : pgd'[p] \notin others' \union Range(M)
    BY <2>5
  <2> QED BY <1>1, <2>3, <2>4, <2>10, <2>11 DEF PagesExact, P
<1> QED BY <1>7, <1>14, <1>24, <1>25, <1>26

LEMMA OthersFrames ==
  ASSUME VmAssumption, VmInv, OtherTakesFrame
  PROVE  /\ free_fp_list' \in Seq(Frame) /\ others' \subseteq Frame
         /\ FreeFramesInv'
         /\ PagesExact => PagesExact'
<1> DEFINE L == free_fp_list
           h == Head(L)
           M == free_fp_list'
<1>1. /\ L \in Seq(Frame) /\ L # << >> /\ Len(L) \in Nat /\ DOMAIN L = 1 .. Len(L)
      /\ others \subseteq Frame
      /\ M = Tail(L) /\ others' = others \union {h}
      /\ Cardinality(others) < OtherFrames
      /\ pgd' = pgd /\ vm_end' = vm_end
  BY LenProperties DEF VmInv, TypeOK, OtherTakesFrame, mmVars
<1>2. /\ IsInjective(L) /\ Range(L) \intersect others = {}
      /\ IsFiniteSet(others) /\ Cardinality(others) <= OtherFrames
      /\ Len(L) + Cardinality(others) + Pages = NumFrames
  BY DEF VmInv, FreeFramesInv
<1>3. /\ h = L[1] /\ h \in Frame /\ Len(L) >= 1
      /\ M \in Seq(Frame) /\ Len(M) = Len(L) - 1
      /\ \A k \in 1 .. Len(M) : M[k] = L[k + 1] /\ k + 1 \in 1 .. Len(L)
      /\ DOMAIN M = 1 .. Len(M)
  <2>1. Len(L) >= 1
    BY <1>1, EmptySeq
  <2> QED BY <1>1, <2>1, HeadTailProperties, LenProperties
<1>4. Range(L) = {h} \union Range(M) /\ h \notin Range(M)
  <2>1. \A k \in 1 .. Len(L) : k # 1 => k - 1 \in 1 .. Len(M) /\ (k - 1) + 1 = k
    BY <1>1, <1>3
  <2>2. \A f \in Range(L) : f = h \/ f \in Range(M)
    <3> SUFFICES ASSUME NEW k \in 1 .. Len(L), k # 1
                 PROVE  L[k] \in Range(M)
      BY <1>1, <1>3 DEF Range
    <3>1. k - 1 \in DOMAIN M /\ M[k - 1] = L[k]
      BY <1>3, <2>1
    <3> QED BY <3>1 DEF Range
  <2>3. \A f \in Range(M) : f \in Range(L)
    BY <1>1, <1>3 DEF Range
  <2>4. h \in Range(L)
    BY <1>1, <1>3 DEF Range
  <2>5. \A k \in 1 .. Len(M) : k + 1 # 1
    BY <1>3
  <2>6. h \notin Range(M)
    BY <1>1, <1>2, <1>3, <2>5 DEF Range, IsInjective
  <2> QED BY <2>2, <2>3, <2>4, <2>6
<1>5. h \notin others
  BY <1>2, <1>4
<1>6. Range(M) \intersect others' = {}
  BY <1>1, <1>2, <1>4
<1>7. Range(M) \union others' = Range(L) \union others
  BY <1>1, <1>4
<1>8. IsInjective(M)
  <2> SUFFICES ASSUME NEW j \in 1 .. Len(M), NEW k \in 1 .. Len(M), M[j] = M[k]
               PROVE  j = k
    BY <1>3 DEF IsInjective
  <2>1. j + 1 = k + 1
    BY <1>1, <1>2, <1>3 DEF IsInjective
  <2> QED BY <2>1
<1>9. /\ IsFiniteSet(others')
      /\ Cardinality(others') = Cardinality(others) + 1
  BY <1>1, <1>2, <1>5, FS_AddElement
<1>10. Cardinality(others) \in Nat
  BY <1>2, FS_CardinalityType
<1>11. Pages' = Pages
  BY <1>1 DEF Pages
<1>12. Cardinality(others') <= OtherFrames
  BY <1>1, <1>9, <1>10 DEF VmAssumption
<1>13. Len(M) + Cardinality(others') + Pages = NumFrames
  <2> DEFINE l == Len(L)
             c == Cardinality(others)
  <2>1. l \in Nat /\ c \in Nat /\ l + c + Pages = NumFrames
    BY <1>1, <1>2, <1>10
  <2>2. Pages \in Nat
    <3>1. vm_end \in Nat /\ PAGESZ \in Nat \ {0}
      BY DEF VmInv, TypeOK, VmAssumption
    <3> QED BY <3>1, PageBelow DEF Pages
  <2>3. Len(M) = l - 1 /\ Cardinality(others') = c + 1
    BY <1>3, <1>9
  <2> HIDE DEF l, c, Pages
  <2>4. (l - 1) + (c + 1) + Pages = NumFrames
    BY <2>1, <2>2
  <2> QED BY <2>3, <2>4
<1>14. FreeFramesInv'
  <2>1. Len(free_fp_list') + Cardinality(others') + Pages' = NumFrames
    BY <1>11, <1>13
  <2> QED BY <1>6, <1>8, <1>9, <1>12, <2>1 DEF FreeFramesInv
<1>15. ASSUME PagesExact
       PROVE  PagesExact'
  <2>1. \A p \in Page : pgd'[p] \notin others' \union Range(M)
    BY <1>1, <1>7, <1>15 DEF PagesExact
  <2>2. Frame = Range(M) \union others' \union (Range(pgd') \ {NoFrame})
    BY <1>1, <1>7, <1>15 DEF PagesExact
  <2>3. /\ \A p \in Page : IF p < Pages' THEN pgd'[p] \in Frame ELSE pgd'[p] = NoFrame
        /\ \A p, q \in Page : p # q /\ pgd'[p] # NoFrame => pgd'[p] # pgd'[q]
    BY <1>1, <1>11, <1>15 DEF PagesExact
  <2> QED BY <2>1, <2>2, <2>3 DEF PagesExact
<1> QED BY <1>1, <1>3, <1>14, <1>15

-----------------------------------------------------------------------------
(* The regions.  Below is RegionInv of a free list and a break that a call  *)
(* has on the way, with the registers it has by then.                      *)
Below(list, brk, held, apart) ==
  /\ list \in Seq(Nat \X Nat)
  /\ \A k \in DOMAIN list : list[k][1] <= list[k][2] /\ list[k][2] <= brk
  /\ \A r \in live \union freed : symrgtbl[r][1] <= symrgtbl[r][2] /\ symrgtbl[r][2] <= brk
  /\ apart =>
       /\ \A r, s \in held : r # s => Addresses(symrgtbl[r]) \intersect Addresses(symrgtbl[s]) = {}
       /\ \A j, k \in DOMAIN list : j # k => Addresses(list[j]) \intersect Addresses(list[k]) = {}
       /\ \A r \in held, k \in DOMAIN list : Addresses(symrgtbl[r]) \intersect Addresses(list[k]) = {}

Registers == symrgtbl \in [Reg -> Nat \X Nat] /\ live \subseteq Reg /\ freed \subseteq Reg \ live

LEMMA RegionsBelow ==
  ASSUME TypeOK, RegionInv
  PROVE  /\ Registers
         /\ FreesAllocated => Below(vm_freerg_list, sbrk, live, FreesOnce)
BY DEF TypeOK, RegionInv, RegionsApart, Sound, Below, Registers

(* The other way round, after a step. *)
LEMMA BelowRegions ==
  ASSUME TypeOK', FreesAllocated' => Below(vm_freerg_list, sbrk, live, FreesOnce)'
  PROVE  RegionInv'
<1> SUFFICES ASSUME Below(vm_freerg_list, sbrk, live, FreesOnce)'
             PROVE  /\ \A k \in DOMAIN vm_freerg_list' : Sound(vm_freerg_list[k])'
                    /\ \A r \in live' \union freed' : Sound(symrgtbl[r])'
                    /\ RegionsApart'
  BY DEF RegionInv
<1>1. /\ sbrk' \in Nat /\ symrgtbl' \in [Reg -> Nat \X Nat] /\ live' \subseteq Reg
      /\ vm_freerg_list' \in Seq(Nat \X Nat)
  BY DEF TypeOK
<1>2. \A r \in live' : Addresses(symrgtbl'[r]) \subseteq 0 .. sbrk' - 1
  <2> SUFFICES ASSUME NEW r \in live'
               PROVE  Addresses(symrgtbl'[r]) \subseteq 0 .. sbrk' - 1
    OBVIOUS
  <2>1. symrgtbl'[r] \in Nat \X Nat /\ symrgtbl'[r][2] <= sbrk'
    BY <1>1 DEF Below
  <2> QED BY <1>1, <2>1 DEF Addresses
<1>3. \A k \in DOMAIN vm_freerg_list' : Addresses(vm_freerg_list'[k]) \subseteq 0 .. sbrk' - 1
  <2> SUFFICES ASSUME NEW k \in DOMAIN vm_freerg_list'
               PROVE  Addresses(vm_freerg_list'[k]) \subseteq 0 .. sbrk' - 1
    OBVIOUS
  <2>1. vm_freerg_list'[k] \in Nat \X Nat /\ vm_freerg_list'[k][2] <= sbrk'
    BY <1>1, ElementOfSeq, LenProperties DEF Below
  <2> QED BY <1>1, <2>1 DEF Addresses
<1>4. RegionsApart'
  BY <1>2, <1>3 DEF Below, RegionsApart
<1> QED BY <1>4 DEF Sound, Below

(* The free list gains a region that no other overlaps. *)
LEMMA EnlistedBelow ==
  ASSUME Registers,
         NEW held, NEW apart, NEW list, NEW brk \in Nat, Below(list, brk, held, apart),
         NEW top \in Nat, brk <= top,
         NEW region \in Nat \X Nat, region[1] <= region[2], region[2] <= top,
         apart => /\ \A k \in DOMAIN list : Addresses(region) \intersect Addresses(list[k]) = {}
                  /\ \A r \in held : Addresses(symrgtbl[r]) \intersect Addresses(region) = {}
  PROVE  Below(Enlisted(list, region), top, held, apart)
<1> DEFINE new == Enlisted(list, region)
<1>1. list \in Seq(Nat \X Nat) /\ DOMAIN list = 1 .. Len(list) /\ Len(list) \in Nat
  BY LenProperties DEF Below
<1>2. \A k \in DOMAIN list : list[k] \in Nat \X Nat
  BY <1>1, ElementOfSeq
<1>3. /\ new \in Seq(Nat \X Nat)
      /\ DOMAIN new = 1 .. Len(list) + 1
      /\ new[1] = region
      /\ \A k \in DOMAIN new : k # 1 => k - 1 \in DOMAIN list /\ new[k] = list[k - 1]
  <2>1. /\ <<region>> \in Seq(Nat \X Nat) /\ Len(<<region>>) = 1 /\ <<region>>[1] = region
    OBVIOUS
  <2>2. /\ new \in Seq(Nat \X Nat)
        /\ Len(new) = 1 + Len(list)
        /\ \A k \in 1 .. 1 + Len(list) : new[k] = IF k <= 1 THEN <<region>>[k] ELSE list[k - 1]
    BY <1>1, <2>1, ConcatProperties DEF Enlisted
  <2> HIDE DEF new
  <2>3. DOMAIN new = 1 .. Len(list) + 1
    BY <1>1, <2>2, LenProperties
  <2>4. new[1] = region
    BY <1>1, <2>1, <2>2
  <2>5. ASSUME NEW k \in 1 .. Len(list) + 1, k # 1
        PROVE  k - 1 \in DOMAIN list /\ new[k] = list[k - 1]
    <3>1. k \in 1 .. 1 + Len(list) /\ ~(k <= 1) /\ k - 1 \in 1 .. Len(list)
      BY <1>1, <2>5
    <3> QED BY <1>1, <2>2, <3>1
  <2> QED BY <2>2, <2>3, <2>4, <2>5
<1>4. \A k \in DOMAIN new : new[k][1] <= new[k][2] /\ new[k][2] <= top
  <2> SUFFICES ASSUME NEW k \in DOMAIN new
               PROVE  new[k][1] <= new[k][2] /\ new[k][2] <= top
    OBVIOUS
  <2>1. CASE k = 1
    BY <1>3, <2>1
  <2>2. CASE k # 1
    <3>1. new[k] = list[k - 1] /\ list[k - 1] \in Nat \X Nat
      BY <1>2, <1>3, <2>2
    <3>2. list[k - 1][1] <= list[k - 1][2] /\ list[k - 1][2] <= brk
      BY <1>3, <2>2 DEF Below
    <3>3. list[k - 1][2] \in Nat
      BY <3>1
    <3> QED BY <3>1, <3>2, <3>3
  <2> QED BY <2>1, <2>2
<1>5. \A r \in live \union freed : symrgtbl[r][1] <= symrgtbl[r][2] /\ symrgtbl[r][2] <= top
  <2> SUFFICES ASSUME NEW r \in live \union freed
               PROVE  symrgtbl[r][1] <= symrgtbl[r][2] /\ symrgtbl[r][2] <= top
    OBVIOUS
  <2>1. symrgtbl[r][2] \in Nat
    BY DEF Registers
  <2> QED BY <2>1 DEF Below
<1>6. ASSUME apart, NEW j \in DOMAIN new, NEW k \in DOMAIN new, j # k
      PROVE  Addresses(new[j]) \intersect Addresses(new[k]) = {}
  <2>1. CASE j = 1
    BY <1>3, <1>6, <2>1
  <2>2. CASE k = 1
    BY <1>3, <1>6, <2>2
  <2>3. CASE j # 1 /\ k # 1
    <3>1. j - 1 # k - 1
      BY <1>1, <1>3, <1>6
    <3> QED BY <1>3, <1>6, <2>3, <3>1 DEF Below
  <2> QED BY <2>1, <2>2, <2>3
<1>7. ASSUME apart, NEW r \in held, NEW k \in DOMAIN new
      PROVE  Addresses(symrgtbl[r]) \intersect Addresses(new[k]) = {}
  <2> HIDE DEF new
  <2>1. CASE k = 1
    BY <1>3, <1>7, <2>1
  <2>2. CASE k # 1
    BY <1>3, <1>7, <2>2 DEF Below
  <2> QED BY <2>1, <2>2
<1> HIDE DEF new
<1>8. Below(new, top, held, apart)
  BY <1>3, <1>4, <1>5, <1>6, <1>7 DEF Below
<1> QED BY <1>8 DEF new

(* A register gets part of a free region. *)
LEMMA CarvedType ==
  ASSUME Registers,
         NEW list, list \in Seq(Nat \X Nat),
         NEW r \in Reg, NEW size \in Nat, Fits(list, size) # {},
         Named(r, Carved(list, size))
  PROVE  /\ Registers'
         /\ CarvedFrom(list, size) \in Seq(Nat \X Nat)
         /\ misuse' = misuse
<1> DEFINE k0 == Min(Fits(list, size))
           old == list[k0]
           left == <<old[1] + size, old[2]>>
<1>1. DOMAIN list = 1 .. Len(list) /\ Len(list) \in Nat
  BY LenProperties
<1>2. \A k \in DOMAIN list : list[k] \in Nat \X Nat
  BY <1>1, ElementOfSeq
<1>3. k0 \in DOMAIN list
  <2>1. Fits(list, size) \subseteq Nat
    BY <1>1 DEF Fits
  <2>2. k0 \in Fits(list, size)
    BY <2>1, MinProperties
  <2> HIDE DEF k0
  <2> QED BY <2>2 DEF Fits
<1> HIDE DEF k0
<1>4. old \in Nat \X Nat
  BY <1>2, <1>3
<1>5. left \in Nat \X Nat /\ <<old[1], old[1] + size>> \in Nat \X Nat
  BY <1>4
<1>6. Registers'
  BY <1>5 DEF Named, Carved, Registers, k0
<1>7. CarvedFrom(list, size) = [list EXCEPT ![k0] = left]
  BY DEF CarvedFrom, Shrunk, k0
<1> HIDE DEF left
<1>8. CarvedFrom(list, size) \in Seq(Nat \X Nat)
  BY <1>1, <1>3, <1>5, <1>7, ExceptSeq
<1> QED BY <1>6, <1>8 DEF Named

(* What is left, and what the register got, overlap nothing else. *)
LEMMA CarvedBelow ==
  ASSUME Registers,
         NEW list, NEW brk \in Nat, Below(list, brk, live, FreesOnce),
         NEW r \in Reg, NEW size \in Nat, Fits(list, size) # {},
         Named(r, Carved(list, size)),
         NEW rest, rest = CarvedFrom(list, size)
  PROVE  Below(rest, brk, live, FreesOnce)'
<1> DEFINE k0 == Min(Fits(list, size))
           old == list[k0]
           got == <<old[1], old[1] + size>>
           left == <<old[1] + size, old[2]>>
<1>1. list \in Seq(Nat \X Nat) /\ DOMAIN list = 1 .. Len(list) /\ Len(list) \in Nat
  BY LenProperties DEF Below
<1>2. \A k \in DOMAIN list : list[k] \in Nat \X Nat
  BY <1>1, ElementOfSeq
<1>3. k0 \in DOMAIN list /\ old[2] - old[1] >= size
  <2>1. Fits(list, size) \subseteq Nat
    BY <1>1 DEF Fits
  <2>2. k0 \in Fits(list, size)
    BY <2>1, MinProperties
  <2> HIDE DEF k0
  <2> QED BY <2>2 DEF Fits
<1> HIDE DEF k0
<1>4. old \in Nat \X Nat /\ old[1] \in Nat /\ old[2] \in Nat /\ old[2] <= brk /\ old[1] + size <= old[2]
  BY <1>2, <1>3 DEF Below
<1>5. /\ got \in Nat \X Nat /\ got[1] <= got[2] /\ got[2] <= brk
      /\ left \in Nat \X Nat /\ left[1] <= left[2] /\ left[2] <= brk
  BY <1>4
<1>6. /\ Addresses(got) \subseteq Addresses(old)
      /\ Addresses(left) \subseteq Addresses(old)
      /\ Addresses(got) \intersect Addresses(left) = {}
  BY <1>4 DEF Addresses
<1>7. /\ symrgtbl' = [symrgtbl EXCEPT ![r] = got]
      /\ live' = live \union {r} /\ freed' = freed \ {r} /\ FreesOnce' = FreesOnce
  BY DEF Named, Carved, FreesOnce, k0
<1>8. /\ rest \in Seq(Nat \X Nat) /\ DOMAIN rest = DOMAIN list
      /\ rest[k0] = left
      /\ \A k \in DOMAIN list : k # k0 => rest[k] = list[k]
  <2>1. rest = [list EXCEPT ![k0] = left]
    BY DEF CarvedFrom, Shrunk, k0
  <2> HIDE DEF left
  <2>2. rest = [list EXCEPT ![k0] = left] /\ left \in Nat \X Nat /\ k0 \in 1 .. Len(list)
    BY <1>1, <1>3, <1>5, <2>1
  <2>3. rest \in Seq(Nat \X Nat)
    BY <1>1, <2>2, ExceptSeq
  <2> QED BY <1>3, <2>1, <2>3
<1> HIDE DEF old, got, left
<1>9. Registers'
  BY <1>5, <1>7 DEF Registers
<1>10. symrgtbl'[r] = got /\ \A s \in Reg : s # r => symrgtbl'[s] = symrgtbl[s]
  BY <1>7 DEF Registers
<1>11. \A s \in live' : s # r => s \in live /\ symrgtbl'[s] = symrgtbl[s]
  BY <1>7, <1>10 DEF Registers
<1>12. \A s \in live' \union freed' : symrgtbl'[s][1] <= symrgtbl'[s][2] /\ symrgtbl'[s][2] <= brk
  BY <1>5, <1>7, <1>10 DEF Registers, Below
<1>13. \A k \in DOMAIN rest : rest[k][1] <= rest[k][2] /\ rest[k][2] <= brk
  BY <1>5, <1>8 DEF Below
<1>14. ASSUME FreesOnce, NEW s \in live', NEW t \in live', s # t
       PROVE  Addresses(symrgtbl'[s]) \intersect Addresses(symrgtbl'[t]) = {}
  <2>1. CASE s = r
    <3>1. t \in live /\ symrgtbl'[t] = symrgtbl[t] /\ symrgtbl'[s] = got
      BY <1>10, <1>11, <1>14, <2>1
    <3>2. Addresses(symrgtbl[t]) \intersect Addresses(old) = {}
      BY <1>3, <1>14, <3>1 DEF Below, old
    <3> QED BY <1>6, <3>1, <3>2
  <2>2. CASE t = r
    <3>1. s \in live /\ symrgtbl'[s] = symrgtbl[s] /\ symrgtbl'[t] = got
      BY <1>10, <1>11, <1>14, <2>2
    <3>2. Addresses(symrgtbl[s]) \intersect Addresses(old) = {}
      BY <1>3, <1>14, <3>1 DEF Below, old
    <3> QED BY <1>6, <3>1, <3>2
  <2>3. CASE s # r /\ t # r
    BY <1>11, <1>14, <2>3 DEF Below
  <2> QED BY <2>1, <2>2, <2>3
<1>15. ASSUME FreesOnce, NEW j \in DOMAIN rest, NEW k \in DOMAIN rest, j # k
       PROVE  Addresses(rest[j]) \intersect Addresses(rest[k]) = {}
  <2>1. Addresses(list[j]) \intersect Addresses(list[k]) = {}
    BY <1>8, <1>15 DEF Below
  <2>2. Addresses(rest[j]) \subseteq Addresses(list[j]) /\ Addresses(rest[k]) \subseteq Addresses(list[k])
    BY <1>6, <1>8 DEF old
  <2> QED BY <2>1, <2>2
<1>16. ASSUME FreesOnce, NEW s \in live', NEW k \in DOMAIN rest
       PROVE  Addresses(symrgtbl'[s]) \intersect Addresses(rest[k]) = {}
  <2>1. CASE s # r
    <3>1. Addresses(symrgtbl[s]) \intersect Addresses(list[k]) = {}
      BY <1>8, <1>11, <1>16, <2>1 DEF Below
    <3>2. Addresses(rest[k]) \subseteq Addresses(list[k])
      BY <1>6, <1>8 DEF old
    <3> QED BY <1>11, <2>1, <3>1, <3>2
  <2>2. CASE s = r /\ k = k0
    BY <1>6, <1>8, <1>10, <2>2
  <2>3. CASE s = r /\ k # k0
    <3>1. Addresses(old) \intersect Addresses(list[k]) = {}
      BY <1>3, <1>8, <1>16, <2>3 DEF Below, old
    <3> QED BY <1>6, <1>8, <1>10, <2>3, <3>1
  <2> QED BY <2>1, <2>2, <2>3
<1>17. Below(rest, brk, live, FreesOnce)'
  BY <1>7, <1>8, <1>12, <1>13, <1>14, <1>15, <1>16 DEF Below
<1> QED BY <1>17

-----------------------------------------------------------------------------
(* The operations. *)

(* What is enlisted has its type, wherever it comes from. *)
LEMMA EnlistedType ==
  ASSUME NEW S, NEW list \in Seq(S), NEW node \in S
  PROVE  Enlisted(list, node) \in Seq(S)
<1>1. <<node>> \in Seq(S)
  OBVIOUS
<1> QED BY <1>1, ConcatProperties DEF Enlisted

(* A call that leaves the break and the frames alone. *)
LEMMA FramesKept ==
  ASSUME VmInv, UNCHANGED <<sbrk, vm_end, pgd, fifo_pgn, free_fp_list, others>>,
         Registers', vm_freerg_list' \in Seq(Nat \X Nat), misuse' \subseteq Misuse, misuse \subseteq misuse',
         FreesAllocated' => Below(vm_freerg_list, sbrk, live, FreesOnce)'
  PROVE  VmInv'
<1>1. TypeOK'
  BY DEF VmInv, TypeOK, Registers
<1>2. BreakInv' /\ PagesMapped'
  BY DEF VmInv, BreakInv, PagesMapped, Pages
<1>3. FreeFramesInv'
  BY DEF VmInv, FreeFramesInv, Pages
<1>4. KeepsToRegions' => PagesExact'
  <2>1. KeepsToRegions' => KeepsToRegions
    BY DEF KeepsToRegions
  <2> QED BY <2>1 DEF VmInv, PagesExact, Pages
<1>5. RegionInv'
  BY <1>1, BelowRegions
<1> QED BY <1>1, <1>2, <1>3, <1>4, <1>5 DEF VmInv

(* A call that moves the break. *)
LEMMA BreakMoved ==
  ASSUME VmAssumption, EnoughRam, VmInv,
         NEW n \in Nat, sbrk + n * PAGESZ <= MaxBrk, IncVmaLimit(n), others' = others,
         Registers', vm_freerg_list' \in Seq(Nat \X Nat), misuse' = misuse,
         FreesAllocated' => Below(vm_freerg_list, sbrk, live, FreesOnce)'
  PROVE  VmInv'
<1>1. BreakInv' /\ sbrk' \in 0 .. MaxBrk /\ fifo_pgn' \in Seq(Page)
  BY MapRam
<1>2. vm_end' \in 0 .. MaxBrk
  BY <1>1 DEF BreakInv
<1>3. /\ pgd' \in [Page -> Nat \union {NoFrame}]
      /\ free_fp_list' \in Seq(Frame)
      /\ PagesMapped' /\ FreeFramesInv'
      /\ PagesExact => PagesExact'
  BY MapRamFrames
<1>4. TypeOK'
  BY <1>1, <1>2, <1>3 DEF VmInv, TypeOK, Registers
<1>5. RegionInv'
  BY <1>4, BelowRegions
<1>6. KeepsToRegions' => PagesExact'
  BY <1>3 DEF VmInv, KeepsToRegions
<1> QED BY <1>1, <1>3, <1>4, <1>5, <1>6 DEF VmInv

LEMMA AllocFreeStep ==
  ASSUME VmAssumption, VmInv, NEW r \in Reg, NEW size \in Size, AllocFree(r, size)
  PROVE  VmInv'
<1>1. size \in Nat /\ sbrk \in Nat /\ misuse \subseteq Misuse /\ vm_freerg_list \in Seq(Nat \X Nat)
  BY DEF VmAssumption, VmInv, TypeOK
<1>2. Registers /\ (FreesAllocated => Below(vm_freerg_list, sbrk, live, FreesOnce))
  BY RegionsBelow DEF VmInv
<1>3. PICK list : list = vm_freerg_list
  OBVIOUS
<1>4. PICK brk : brk = sbrk
  OBVIOUS
<1>5. PICK rest : rest = vm_freerg_list'
  OBVIOUS
<1>6. /\ list \in Seq(Nat \X Nat) /\ brk \in Nat
      /\ Fits(list, size) # {} /\ Named(r, Carved(list, size)) /\ rest = CarvedFrom(list, size)
  BY <1>1, <1>3, <1>4, <1>5 DEF AllocFree
<1>7. Registers' /\ rest \in Seq(Nat \X Nat) /\ misuse' = misuse
  BY <1>1, <1>2, <1>6, CarvedType
<1>8. UNCHANGED <<sbrk, vm_end, pgd, fifo_pgn, free_fp_list, others>>
  BY DEF AllocFree
<1>9. ASSUME FreesAllocated'
      PROVE  Below(vm_freerg_list, sbrk, live, FreesOnce)'
  <2>1. Below(list, brk, live, FreesOnce)
    BY <1>2, <1>3, <1>4, <1>7, <1>9 DEF FreesAllocated
  <2>2. Below(rest, brk, live, FreesOnce)'
    BY <1>1, <1>2, <1>6, <2>1, CarvedBelow
  <2> QED BY <1>4, <1>5, <1>8, <2>2 DEF Below
<1> QED BY <1>1, <1>5, <1>7, <1>8, <1>9, FramesKept

LEMMA AllocGrowStep ==
  ASSUME VmAssumption, EnoughRam, VmInv, NEW r \in Reg, NEW size \in Size, AllocGrow(r, size)
  PROVE  VmInv'
<1>1. size \in Nat /\ sbrk \in Nat /\ MaxBrk \in Nat /\ vm_freerg_list \in Seq(Nat \X Nat)
  BY DEF VmAssumption, VmInv, TypeOK
<1>2. Registers /\ (FreesAllocated => Below(vm_freerg_list, sbrk, live, FreesOnce))
  BY RegionsBelow DEF VmInv
<1>3. PICK old : old = vm_freerg_list
  OBVIOUS
<1>4. PICK brk : brk = sbrk
  OBVIOUS
<1>5. PICK n : n = Align(size) \div PAGESZ
  OBVIOUS
<1>6. PICK gain : gain = n * PAGESZ
  OBVIOUS
<1>7. n \in Nat /\ gain \in Nat /\ gain = Align(size)
  <2>1. PAGESZ \in Nat \ {0} /\ n \in Nat
    BY <1>1, <1>5, AlignProperties DEF VmAssumption
  <2>2. n * PAGESZ \in Nat
    BY <2>1, MorePages
  <2>3. Align(size) = n * PAGESZ
    BY <1>1, <1>5, AlignProperties
  <2> QED BY <1>6, <2>1, <2>2, <2>3
<1>8. PICK list : list = Enlisted(old, <<brk, brk + gain>>)
  OBVIOUS
<1>9. /\ sbrk + n * PAGESZ <= MaxBrk /\ IncVmaLimit(n) /\ others' = others
      /\ IF Fits(list, size) = {}
         THEN vm_freerg_list' = list /\ UNCHANGED <<symrgtbl, history>>
         ELSE vm_freerg_list' = CarvedFrom(list, size) /\ Named(r, Carved(list, size))
  BY <1>3, <1>4, <1>5, <1>6, <1>7, <1>8 DEF AllocGrow
<1>10. sbrk' = brk + gain
  BY <1>4, <1>6, <1>7, <1>9, MapRam
<1>11. list \in Seq(Nat \X Nat)
  <2>1. <<brk, brk + gain>> \in Nat \X Nat /\ old \in Seq(Nat \X Nat)
    BY <1>1, <1>3, <1>4, <1>7
  <2> QED BY <1>8, <2>1, EnlistedType
<1>12. ASSUME FreesAllocated
       PROVE  Below(list, brk + gain, live, FreesOnce)
  <2> DEFINE region == <<brk, brk + gain>>
  <2>1. brk \in Nat /\ brk + gain \in Nat /\ brk <= brk + gain /\ Below(old, brk, live, FreesOnce)
    BY <1>1, <1>2, <1>3, <1>4, <1>7, <1>12
  <2>2. region \in Nat \X Nat /\ region[1] <= region[2] /\ region[2] <= brk + gain
    BY <2>1
  <2>3. \A k \in DOMAIN old : Addresses(region) \intersect Addresses(old[k]) = {}
    <3> SUFFICES ASSUME NEW k \in DOMAIN old
                 PROVE  Addresses(region) \intersect Addresses(old[k]) = {}
      OBVIOUS
    <3>1. old[k] \in Nat \X Nat /\ old[k][2] <= brk
      BY <2>1, ElementOfSeq, LenProperties DEF Below
    <3> QED BY <2>1, <3>1 DEF Addresses
  <2>4. \A s \in live : Addresses(symrgtbl[s]) \intersect Addresses(region) = {}
    <3> SUFFICES ASSUME NEW s \in live
                 PROVE  Addresses(symrgtbl[s]) \intersect Addresses(region) = {}
      OBVIOUS
    <3>1. symrgtbl[s] \in Nat \X Nat /\ symrgtbl[s][2] <= brk
      BY <1>2, <2>1 DEF Below, Registers
    <3> QED BY <2>1, <3>1 DEF Addresses
  <2> HIDE DEF region
  <2>5. Below(Enlisted(old, region), brk + gain, live, FreesOnce)
    BY <1>2, <2>1, <2>2, <2>3, <2>4, EnlistedBelow
  <2> QED BY <1>8, <2>5 DEF region
<1>13. Registers' /\ vm_freerg_list' \in Seq(Nat \X Nat) /\ misuse' = misuse
  <2>1. CASE Fits(list, size) = {}
    BY <1>2, <1>9, <1>11, <2>1 DEF history, Registers
  <2>2. CASE Fits(list, size) # {}
    BY <1>1, <1>2, <1>9, <1>11, <2>2, CarvedType
  <2> QED BY <2>1, <2>2
<1>14. ASSUME FreesAllocated'
       PROVE  Below(vm_freerg_list, sbrk, live, FreesOnce)'
  <2>1. Below(list, brk + gain, live, FreesOnce)
    BY <1>12, <1>13, <1>14 DEF FreesAllocated
  <2>2. CASE Fits(list, size) = {}
    BY <1>9, <1>10, <2>1, <2>2 DEF history, Below, FreesOnce
  <2>3. CASE Fits(list, size) # {}
    <3>1. PICK rest : rest = CarvedFrom(list, size)
      OBVIOUS
    <3>2. PICK top : top = brk + gain
      OBVIOUS
    <3>3. top \in Nat /\ Below(list, top, live, FreesOnce) /\ Named(r, Carved(list, size))
      BY <1>1, <1>4, <1>7, <1>9, <2>1, <2>3, <3>2
    <3>4. Below(rest, top, live, FreesOnce)'
      BY <1>1, <1>2, <2>3, <3>1, <3>3, CarvedBelow
    <3> QED BY <1>9, <1>10, <2>3, <3>1, <3>2, <3>4 DEF Below
  <2> QED BY <2>2, <2>3
<1> QED BY <1>7, <1>9, <1>13, <1>14, BreakMoved

LEMMA SysIncreaseStep ==
  ASSUME VmAssumption, EnoughRam, VmInv, NEW size \in Size, SysIncrease(size)
  PROVE  VmInv'
<1>1. /\ size \in Nat /\ sbrk \in Nat /\ PAGESZ \in Nat \ {0}
      /\ vm_freerg_list \in Seq(Nat \X Nat)
  BY DEF VmAssumption, VmInv, TypeOK
<1>2. Registers /\ (FreesAllocated => Below(vm_freerg_list, sbrk, live, FreesOnce))
  BY RegionsBelow DEF VmInv
<1>3. PICK n : n = Align(size) \div PAGESZ
  OBVIOUS
<1>4. PICK gain : gain = n * PAGESZ
  OBVIOUS
<1>5. n \in Nat /\ gain = Align(size)
  BY <1>1, <1>3, <1>4, AlignProperties
<1>6. gain \in Nat
  BY <1>1, <1>4, <1>5, MorePages
<1>7. sbrk + n * PAGESZ <= MaxBrk /\ IncVmaLimit(n) /\ UNCHANGED <<symrgtbl, vm_freerg_list, history, others>>
  BY <1>3, <1>4, <1>5 DEF SysIncrease
<1>8. sbrk' = sbrk + gain
  BY <1>4, <1>5, <1>7, MapRam
<1>9. /\ vm_freerg_list' = vm_freerg_list /\ symrgtbl' = symrgtbl
      /\ live' = live /\ freed' = freed /\ misuse' = misuse
  BY <1>7 DEF history
<1>10. ASSUME FreesAllocated'
       PROVE  Below(vm_freerg_list, sbrk, live, FreesOnce)'
  <2>1. Below(vm_freerg_list, sbrk, live, FreesOnce) /\ FreesOnce' = FreesOnce
    BY <1>2, <1>9, <1>10 DEF FreesAllocated, FreesOnce
  <2>2. \A k \in DOMAIN vm_freerg_list : vm_freerg_list[k][2] <= sbrk + gain
    <3> SUFFICES ASSUME NEW k \in DOMAIN vm_freerg_list
                 PROVE  vm_freerg_list[k][2] <= sbrk + gain
      OBVIOUS
    <3>1. vm_freerg_list[k] \in Nat \X Nat /\ vm_freerg_list[k][2] <= sbrk
      BY <1>1, <2>1, ElementOfSeq, LenProperties DEF Below
    <3> QED BY <1>1, <1>6, <3>1
  <2>3. \A s \in live \union freed : symrgtbl[s][2] <= sbrk + gain
    <3> SUFFICES ASSUME NEW s \in live \union freed
                 PROVE  symrgtbl[s][2] <= sbrk + gain
      OBVIOUS
    <3>1. symrgtbl[s] \in Nat \X Nat /\ symrgtbl[s][2] <= sbrk
      BY <1>2, <2>1 DEF Below, Registers
    <3> QED BY <1>1, <1>6, <3>1
  <2> QED BY <1>8, <1>9, <2>1, <2>2, <2>3 DEF Below
<1>11. Registers' /\ vm_freerg_list' \in Seq(Nat \X Nat)
  BY <1>1, <1>2, <1>9 DEF Registers
<1> QED BY <1>5, <1>7, <1>9, <1>10, <1>11, BreakMoved

(* A region that is freed once overlaps no other; one that is freed again   *)
(* may, and one that was never allocated may lie anywhere: then less is     *)
(* promised.                                                                *)
LEMMA FreeStep ==
  ASSUME VmAssumption, VmInv, NEW r \in Reg, Free(r)
  PROVE  VmInv'
<1>1. sbrk \in Nat /\ misuse \subseteq Misuse /\ vm_freerg_list \in Seq(Nat \X Nat)
  BY DEF VmInv, TypeOK
<1>2. Registers /\ (FreesAllocated => Below(vm_freerg_list, sbrk, live, FreesOnce))
  BY RegionsBelow DEF VmInv
<1>3. /\ live' = live \ {r} /\ freed' = freed \union ({r} \intersect live)
      /\ symrgtbl' = symrgtbl /\ misuse' = misuse \union Misfreed(r)
      /\ UNCHANGED <<sbrk, vm_end, pgd, fifo_pgn, free_fp_list, others>>
      /\ IF Freeable(r)
         THEN vm_freerg_list' = Enlisted(vm_freerg_list, symrgtbl[r])
         ELSE vm_freerg_list' = vm_freerg_list
  BY DEF Free
<1>4. Misfreed(r) \subseteq Misuse /\ misuse \subseteq misuse'
  BY <1>3 DEF Misfreed, Misuse
<1>5. Registers' /\ vm_freerg_list' \in Seq(Nat \X Nat)
  <2>1. symrgtbl[r] \in Nat \X Nat
    BY <1>2 DEF Registers
  <2>2. Enlisted(vm_freerg_list, symrgtbl[r]) \in Seq(Nat \X Nat)
    BY <1>1, <2>1, EnlistedType
  <2> QED BY <1>1, <1>2, <1>3, <2>2 DEF Registers
<1>6. ASSUME FreesAllocated'
      PROVE  Below(vm_freerg_list, sbrk, live, FreesOnce)'
  <2>1. Below(vm_freerg_list, sbrk, live, FreesOnce) /\ (FreesOnce' => FreesOnce)
    BY <1>2, <1>4, <1>6 DEF FreesAllocated, FreesOnce
  <2>2. live' \subseteq live /\ live' \union freed' = live \union freed
    BY <1>3
  <2>3. CASE ~Freeable(r)
    BY <1>3, <2>1, <2>2, <2>3 DEF Below
  <2>4. CASE Freeable(r)
    <3>1. PICK region : region = symrgtbl[r]
      OBVIOUS
    <3>2. PICK list : list = vm_freerg_list
      OBVIOUS
    <3>3. PICK brk : brk = sbrk
      OBVIOUS
    <3>4. PICK held : held = live \ {r}
      OBVIOUS
    <3>5. PICK apart \in BOOLEAN : apart = FreesOnce'
      BY DEF FreesOnce
    <3>6. r \in live \union freed /\ (apart => r \in live)
      BY <1>3, <1>6, <2>4, <3>5 DEF FreesAllocated, FreesOnce, Misfreed
    <3>7. brk \in Nat /\ region \in Nat \X Nat /\ region[1] <= region[2] /\ region[2] <= brk
      BY <1>1, <1>2, <2>1, <3>1, <3>3, <3>6 DEF Registers, Below
    <3>8. Below(list, brk, held, apart)
      BY <2>1, <3>2, <3>3, <3>4, <3>5 DEF Below
    <3>9. apart => /\ \A k \in DOMAIN list : Addresses(region) \intersect Addresses(list[k]) = {}
                   /\ \A s \in held : Addresses(symrgtbl[s]) \intersect Addresses(region) = {}
      BY <2>1, <3>1, <3>2, <3>4, <3>5, <3>6 DEF Below
    <3>10. Below(Enlisted(list, region), brk, held, apart)
      BY <1>2, <3>7, <3>8, <3>9, EnlistedBelow
    <3>11. /\ vm_freerg_list' = Enlisted(list, region) /\ sbrk' = brk /\ live' = held /\ FreesOnce' = apart
      BY <1>3, <2>4, <3>1, <3>2, <3>3, <3>4, <3>5
    <3> QED BY <1>3, <2>2, <3>10, <3>11 DEF Below
  <2> QED BY <2>3, <2>4
<1> QED BY <1>1, <1>3, <1>4, <1>5, <1>6, FramesKept

-----------------------------------------------------------------------------
(* Reading and writing. *)

LEMMA AddressMapped ==
  ASSUME VmAssumption, VmInv, NEW a \in Nat, a < sbrk
  PROVE  /\ a \div PAGESZ \in Page
         /\ PageOf(a) = a \div PAGESZ
         /\ a \div PAGESZ < Pages
         /\ pgd[a \div PAGESZ] \in Nat
         /\ KeepsToRegions => pgd[a \div PAGESZ] \in Frame
<1>1. /\ PAGESZ \in Nat \ {0} /\ MaxBrk \in Nat /\ NoFrame \notin Nat
      /\ MAX_PGN \in Nat /\ MaxBrk \div PAGESZ < MAX_PGN
  BY DEF VmAssumption
<1>2. vm_end \in Nat /\ vm_end <= MaxBrk /\ sbrk = vm_end /\ vm_end = Pages * PAGESZ
  BY <1>1 DEF VmInv, TypeOK, BreakInv
<1>3. Pages \in Nat
  BY <1>1, <1>2, PageBelow DEF Pages
<1>4. a \div PAGESZ \in Nat /\ MaxBrk \div PAGESZ \in Nat
  BY <1>1, PageBelow
<1>5. a \div PAGESZ < Pages
  <2> HIDE DEF Pages
  <2> QED BY <1>1, <1>2, <1>3, PageBelowBreak
<1>6. Pages <= MaxBrk \div PAGESZ
  <2> HIDE DEF Pages
  <2>1. Pages * PAGESZ <= MaxBrk
    BY <1>2
  <2> QED BY <1>1, <1>3, <2>1, WholePages
<1>7. a \div PAGESZ \in Page /\ PageOf(a) = a \div PAGESZ
  <2> DEFINE page == a \div PAGESZ
             top == MaxBrk \div PAGESZ
  <2>1. /\ page \in Nat /\ top \in Nat /\ page < Pages /\ Pages <= top /\ Pages \in Nat
        /\ top < MAX_PGN /\ MAX_PGN \in Nat
    BY <1>1, <1>3, <1>4, <1>5, <1>6
  <2>2. PageOf(a) = page % MAX_PGN
    BY DEF PageOf
  <2> HIDE DEF page, top
  <2>3. page \in 0 .. MAX_PGN - 1 /\ page % MAX_PGN = page
    BY <2>1
  <2> QED BY <2>2, <2>3 DEF Page, page
<1>8. pgd[a \div PAGESZ] \in Nat
  BY <1>5, <1>7 DEF VmInv, TypeOK, PagesMapped
<1> QED BY <1>5, <1>7, <1>8 DEF VmInv, PagesExact

LEMMA MappedLive ==
  ASSUME VmAssumption, VmInv
  PROVE  LiveIsMapped
<1> SUFFICES ASSUME FreesAllocated, NEW r \in live, NEW a \in Addresses(symrgtbl[r])
             PROVE  pgd[a \div PAGESZ] # NoFrame
  BY DEF LiveIsMapped, FreesAllocated
<1>1. symrgtbl[r] \in Nat \X Nat /\ sbrk \in Nat /\ symrgtbl[r][2] <= sbrk
  BY DEF VmInv, TypeOK, RegionInv, Sound
<1>2. a \in Nat /\ a < sbrk
  BY <1>1 DEF Addresses
<1>3. NoFrame \notin Nat
  BY DEF VmAssumption
<1> QED BY <1>2, <1>3, AddressMapped

(* A byte of a region has an address below the break. *)
LEMMA ByteBelow ==
  ASSUME VmInv, FreesAllocated, NEW r \in Reg, NEW off \in Nat, InRegion(r, off)
  PROVE  /\ VirtualAddr(r, off) \in Nat
         /\ VirtualAddr(r, off) < sbrk
         /\ VirtualAddr(r, off) \in Addresses(symrgtbl[r])
<1>1. r \in live /\ symrgtbl[r] \in Nat \X Nat /\ sbrk \in Nat /\ symrgtbl[r][2] <= sbrk
  BY DEF VmInv, TypeOK, RegionInv, Sound, InRegion
<1> QED BY <1>1 DEF InRegion, VirtualAddr, Addresses

(* The page of any address, and what getting it does to the table.          *)
LEMMA AddressPage ==
  ASSUME VmAssumption, TypeOK, NEW r \in Reg, NEW off \in Nat
  PROVE  PageOf(VirtualAddr(r, off)) \in Page
<1>1. /\ PAGESZ \in Nat \ {0} /\ MaxBrk \in Nat
      /\ MAX_PGN \in Nat /\ MaxBrk \div PAGESZ < MAX_PGN
  BY DEF VmAssumption
<1>2. MAX_PGN \in Nat \ {0}
  <2>1. MaxBrk \div PAGESZ \in Nat
    BY <1>1, PageBelow
  <2> QED BY <1>1, <2>1
<1>3. VirtualAddr(r, off) \in Nat
  BY DEF TypeOK, VirtualAddr
<1>4. VirtualAddr(r, off) \div PAGESZ \in Nat
  BY <1>1, <1>3, PageBelow
<1>5. (VirtualAddr(r, off) \div PAGESZ) % MAX_PGN \in 0 .. MAX_PGN - 1
  BY <1>2, <1>4, PageBelow
<1> QED BY <1>5 DEF PageOf, Page

LEMMA GotPage ==
  ASSUME VmAssumption, PagingAssumption, TypeOK, SwapInv, NEW p \in Page, GetPage(p)
  PROVE  /\ pgd' \in [Page -> Nat \union {NoFrame}]
         /\ fifo_pgn' \in Seq(Page)
         /\ SwapInv'
         /\ \A q \in Page : pgd[q] # NoFrame => pgd'[q] # NoFrame
<1>1. /\ pgd \in [Page -> Nat \union {NoFrame}] /\ fifo_pgn \in Seq(Page)
      /\ NoFrame \notin Nat /\ StaleFpn \subseteq Nat /\ StalePresent \subseteq Nat /\ SwpFrames \in Nat
      /\ swp_free_fp_list \in Seq(Nat)
  BY DEF TypeOK, VmAssumption, PagingAssumption, SwapInv
<1>2. CASE FoundPresent(p)
  <2>1. CASE UNCHANGED pgd
    BY <1>1, <1>2, <2>1 DEF FoundPresent, SwapInv
  <2>2. ASSUME NEW fpn \in StalePresent, pgd' = [pgd EXCEPT ![p] = fpn]
        PROVE  /\ pgd' \in [Page -> Nat \union {NoFrame}]
               /\ \A q \in Page : pgd[q] # NoFrame => pgd'[q] # NoFrame
    BY <1>1, <2>2
  <2> QED BY <1>1, <1>2, <2>1, <2>2 DEF FoundPresent, SwapInv
<1>3. ASSUME NEW vicpgn \in Victims, NEW tgtfpn, NEW swpfpn \in SwapFrames,
             NEW vicfpn \in FpnBits(vicpgn), SwapIn(p, vicpgn, vicfpn, tgtfpn, swpfpn)
      PROVE  /\ pgd' \in [Page -> Nat \union {NoFrame}]
             /\ fifo_pgn' \in Seq(Page)
             /\ SwapInv'
             /\ \A q \in Page : pgd[q] # NoFrame => pgd'[q] # NoFrame
  <2>1. vicpgn \in Page
    <3>1. CASE fifo_pgn = << >>
      BY <3>1 DEF Victims
    <3>2. CASE fifo_pgn # << >>
      <4>1. Len(fifo_pgn) \in 1 .. Len(fifo_pgn)
        BY <1>1, <3>2, EmptySeq, LenProperties
      <4>2. Last(fifo_pgn) \in Page
        BY <1>1, <4>1, ElementOfSeq DEF Last
      <4> QED BY <3>2, <4>2 DEF Victims
    <3> QED BY <3>1, <3>2
  <2>2. vicfpn \in Nat
    BY <1>1, <2>1 DEF FpnBits, Present
  <2>3. SwappedFpn(swpfpn) \in Nat
    <3>1. swpfpn \in Nat
      BY <1>1, EmptySeq, HeadTailProperties DEF SwapFrames
    <3>2. swpfpn * 32 \in Nat
      BY <3>1
    <3> QED BY <3>2 DEF SwappedFpn
  <2>4. pgd' = [pgd EXCEPT ![vicpgn] = SwappedFpn(swpfpn), ![p] = vicfpn]
    BY <1>3 DEF SwapIn
  <2>5. pgd' \in [Page -> Nat \union {NoFrame}]
    BY <1>1, <2>1, <2>2, <2>3, <2>4
  <2>6. \A q \in Page : pgd[q] # NoFrame => pgd'[q] # NoFrame
    BY <1>1, <2>1, <2>2, <2>3, <2>4
  <2>7. fifo_pgn' \in Seq(Page)
    <3>1. << >> \in Seq(Page)
      OBVIOUS
    <3>2. CASE fifo_pgn # << >>
      <4>1. Len(fifo_pgn) \in Nat /\ Len(fifo_pgn) >= 1
        BY <1>1, <3>2, EmptySeq, LenProperties
      <4>2. \A k \in 1 .. Len(fifo_pgn) - 1 : fifo_pgn[k] \in Page
        BY <1>1, <4>1, ElementOfSeq
      <4>3. AllButLast(fifo_pgn) \in Seq(Page)
        BY <1>1, <4>1, <4>2, SubSeqProperties DEF AllButLast
      <4> QED BY <1>3, <3>2, <4>3, EnlistedType DEF SwapIn
    <3>3. CASE fifo_pgn = << >>
      BY <1>3, <3>1, <3>3, EnlistedType DEF SwapIn
    <3> QED BY <3>2, <3>3
  <2>8. SwapInv'
    <3>1. << >> \in Seq(Nat)
      OBVIOUS
    <3> QED BY <1>1, <1>3, <3>1, EmptySeq, HeadTailProperties DEF SwapIn, SwapInv
  <2> QED BY <2>5, <2>6, <2>7, <2>8
<1> QED BY <1>2, <1>3 DEF GetPage

(* The page of a byte that the program has allocated is there, so that      *)
(* getting it changes nothing.                                              *)
LEMMA AccessKeeps ==
  ASSUME VmAssumption, VmInv, NEW r \in Reg, NEW off \in Nat, Access(r, off),
         InRegion(r, off), FreesAllocated
  PROVE  UNCHANGED <<vars, mswp, swp_free_fp_list>>
<1>1. pgd[PageOf(VirtualAddr(r, off))] \in Nat
  BY ByteBelow, AddressMapped
<1>2. Present(PageOf(VirtualAddr(r, off)))
  BY <1>1 DEF Present, VmAssumption
<1> QED BY <1>2 DEF Access, GetPage, FoundPresent, vars, mmVars, history

(* Any other changes the page table at most. *)
LEMMA AccessStep ==
  ASSUME VmAssumption, PagingAssumption, VmInv, SwapInv, NEW r \in Reg, NEW off \in Nat, Access(r, off)
  PROVE  VmInv' /\ SwapInv'
<1>1. /\ UNCHANGED <<symrgtbl, vm_freerg_list, sbrk, vm_end, free_fp_list, live, freed, others>>
      /\ misuse' = (IF InRegion(r, off) THEN misuse ELSE misuse \union {"strayed"})
      /\ GetPage(PageOf(VirtualAddr(r, off)))
  BY DEF Access
<1>2. PageOf(VirtualAddr(r, off)) \in Page
  BY AddressPage DEF VmInv
<1>3. /\ pgd' \in [Page -> Nat \union {NoFrame}]
      /\ fifo_pgn' \in Seq(Page)
      /\ SwapInv'
      /\ \A q \in Page : pgd[q] # NoFrame => pgd'[q] # NoFrame
  BY <1>1, <1>2, GotPage DEF VmInv
<1>4. TypeOK'
  BY <1>1, <1>3 DEF VmInv, TypeOK, Misuse
<1>5. BreakInv' /\ PagesMapped' /\ FreeFramesInv'
  BY <1>1, <1>3 DEF VmInv, BreakInv, PagesMapped, FreeFramesInv, Pages
<1>6. ASSUME KeepsToRegions'
      PROVE  PagesExact'
  <2>1. InRegion(r, off) /\ KeepsToRegions /\ FreesAllocated
    BY <1>1, <1>6 DEF KeepsToRegions, FreesAllocated
  <2>2. UNCHANGED vars
    BY <2>1, AccessKeeps
  <2> QED BY <2>1, <2>2 DEF VmInv, PagesExact, Pages, vars, mmVars
<1>7. (FreesAllocated' <=> FreesAllocated) /\ (FreesOnce' <=> FreesOnce)
  BY <1>1 DEF FreesAllocated, FreesOnce
<1>8. RegionInv'
  BY <1>1, <1>7 DEF VmInv, RegionInv, RegionsApart, Sound
<1> QED BY <1>3, <1>4, <1>5, <1>6, <1>8 DEF VmInv

LEMMA OffsetType ==
  ASSUME VmAssumption
  PROVE  Offset \subseteq Nat
BY DEF VmAssumption, Offset

LEMMA VmInit ==
  ASSUME VmAssumption, Init
  PROVE  VmInv
<1>1. /\ PAGESZ \in Nat \ {0} /\ MaxBrk \in Nat /\ NumFrames \in Nat /\ OtherFrames \in Nat
      /\ Garbage \subseteq Nat \X Nat
      /\ NoFrame \notin Nat /\ NoFrame \notin Frame
  BY DEF VmAssumption, Frame
<1>2. /\ symrgtbl \in [Reg -> Garbage]
      /\ vm_freerg_list = <<<<0, 0>>>>
      /\ sbrk = 0 /\ vm_end = 0
      /\ pgd = [p \in Page |-> NoFrame]
      /\ fifo_pgn = << >>
      /\ free_fp_list = Formatted
      /\ live = {} /\ freed = {} /\ misuse = {} /\ others = {}
  BY DEF Init
<1>3. /\ Formatted \in Seq(Frame)
      /\ Len(Formatted) = NumFrames
      /\ DOMAIN Formatted = 1 .. NumFrames
      /\ \A k \in 1 .. NumFrames : Formatted[k] = k - 1
  <2>1. \A k \in 1 .. NumFrames : k - 1 \in Frame
    BY <1>1 DEF Frame
  <2> QED BY <1>1, <2>1 DEF Formatted
<1>4. Range(Formatted) = Frame
  <2>1. ASSUME NEW f \in Frame
        PROVE  f \in Range(Formatted)
    <3>1. f + 1 \in 1 .. NumFrames /\ (f + 1) - 1 = f
      BY <1>1 DEF Frame
    <3> QED BY <1>3, <3>1 DEF Range
  <2>2. ASSUME NEW f \in Range(Formatted)
        PROVE  f \in Frame
    <3>1. PICK k \in 1 .. NumFrames : f = k - 1
      BY <1>3 DEF Range
    <3> QED BY <1>1, <3>1 DEF Frame
  <2> QED BY <2>1, <2>2
<1>5. Pages = 0
  <2>1. (0 * PAGESZ) \div PAGESZ = 0 /\ 0 * PAGESZ = 0
    BY <1>1, WholePages
  <2> QED BY <1>2, <2>1 DEF Pages
<1>6. TypeOK
  <2>1. <<0, 0>> \in Nat \X Nat /\ 0 \in 0 .. MaxBrk
    BY <1>1
  <2>2. <<<<0, 0>>>> \in Seq(Nat \X Nat)
    BY <2>1
  <2> QED BY <1>1, <1>2, <1>3, <2>1, <2>2 DEF TypeOK
<1>7. BreakInv
  BY <1>1, <1>2, <1>5 DEF BreakInv
<1>8. Page \subseteq Nat /\ (\A p \in Page : pgd[p] = NoFrame)
  BY <1>2 DEF Page
<1>9. PagesMapped
  BY <1>5, <1>8 DEF PagesMapped
<1>10. FreeFramesInv
  <2>1. IsInjective(free_fp_list)
    <3> SUFFICES ASSUME NEW j \in 1 .. NumFrames, NEW k \in 1 .. NumFrames, j - 1 = k - 1
                 PROVE  j = k
      BY <1>2, <1>3 DEF IsInjective
    <3> QED OBVIOUS
  <2>2. IsFiniteSet(others) /\ Cardinality(others) = 0
    BY <1>2, FS_EmptySet
  <2>3. Len(free_fp_list) + Cardinality(others) + Pages = NumFrames
    BY <1>1, <1>2, <1>3, <1>5, <2>2
  <2> QED BY <1>1, <1>2, <2>1, <2>2, <2>3 DEF FreeFramesInv
<1>11. PagesExact
  <2>1. Range(pgd) \ {NoFrame} = {}
    BY <1>2 DEF Range
  <2>2. Frame = Range(free_fp_list) \union others \union (Range(pgd) \ {NoFrame})
    BY <1>2, <1>4, <2>1
  <2> QED BY <1>1, <1>2, <1>4, <1>5, <1>8, <2>2 DEF PagesExact
<1>12. RegionInv
  <2>1. \A k \in DOMAIN vm_freerg_list : k = 1 /\ vm_freerg_list[k] = <<0, 0>>
    BY <1>2
  <2>2. Addresses(<<0, 0>>) = {}
    BY DEF Addresses
  <2>3. RegionsApart
    BY <1>2, <2>1, <2>2 DEF RegionsApart
  <2> QED BY <1>2, <2>1, <2>3 DEF RegionInv, Sound
<1> QED BY <1>6, <1>7, <1>9, <1>10, <1>11, <1>12 DEF VmInv

LEMMA SwapInit ==
  ASSUME PagingAssumption, PagingInit
  PROVE  SwapInv
<1>1. SwpFrames \in Nat /\ (\A k \in 1 .. SwpFrames : k - 1 \in Nat)
  BY DEF PagingAssumption
<1> QED BY <1>1 DEF PagingInit, SwapInv

LEMMA PagingStep ==
  ASSUME VmAssumption, PagingAssumption, EnoughRam, VmInv, SwapInv, [PagingNext]_pagingVars
  PROVE  VmInv' /\ SwapInv'
<1>1. ASSUME UNCHANGED vars
      PROVE  VmInv'
  <2>1. UNCHANGED <<symrgtbl, vm_freerg_list, sbrk, vm_end, pgd, fifo_pgn, free_fp_list, live, freed, misuse, others>>
    BY <1>1 DEF vars, mmVars, history
  <2>2. TypeOK'
    BY <2>1 DEF VmInv, TypeOK
  <2>3. BreakInv' /\ PagesMapped' /\ FreeFramesInv'
    BY <2>1 DEF VmInv, BreakInv, PagesMapped, FreeFramesInv, Pages
  <2>4. KeepsToRegions' => PagesExact'
    BY <2>1 DEF VmInv, KeepsToRegions, PagesExact, Pages
  <2>5. RegionInv'
    BY <2>1 DEF VmInv, RegionInv, RegionsApart, Sound, FreesAllocated, FreesOnce
  <2> QED BY <2>2, <2>3, <2>4, <2>5 DEF VmInv
<1>2. ASSUME NEW r \in Reg, NEW size \in Size, AllocRegion(r, size)
      PROVE  VmInv' /\ SwapInv'
  <2>1. AllocFree(r, size) \/ AllocGrow(r, size)
    BY <1>2 DEF AllocRegion, Alloc
  <2>2. SwapInv'
    BY <1>2 DEF AllocRegion, SwapInv
  <2> QED BY <2>1, <2>2, AllocFreeStep, AllocGrowStep
<1>3. ASSUME NEW r \in Reg, FreeRegion(r)
      PROVE  VmInv' /\ SwapInv'
  BY <1>3, FreeStep DEF FreeRegion, SwapInv
<1>4. ASSUME NEW r \in Reg, NEW off \in Offset, Read(r, off) \/ WriteMark(r, off) \/ Write(r, off)
      PROVE  VmInv' /\ SwapInv'
  <2>1. off \in Nat /\ Access(r, off)
    BY <1>4, OffsetType DEF Read, WriteMark, Write
  <2> QED BY <2>1, AccessStep
<1>5. ASSUME NEW size \in Size, Increase(size)
      PROVE  VmInv' /\ SwapInv'
  BY <1>5, SysIncreaseStep DEF Increase, SwapInv, swapVars
<1>6. ASSUME OtherGetsFrame
      PROVE  VmInv' /\ SwapInv'
  <2>1. OtherTakesFrame /\ SwapInv'
    BY <1>6 DEF OtherGetsFrame, SwapInv, swapVars
  <2>2. UNCHANGED <<symrgtbl, vm_freerg_list, sbrk, vm_end, pgd, fifo_pgn, live, freed, misuse>>
    BY <2>1 DEF OtherTakesFrame, mmVars, history
  <2>3. /\ free_fp_list' \in Seq(Frame) /\ others' \subseteq Frame
        /\ FreeFramesInv'
        /\ PagesExact => PagesExact'
    BY <2>1, OthersFrames
  <2>4. TypeOK'
    BY <2>2, <2>3 DEF VmInv, TypeOK
  <2>5. BreakInv' /\ PagesMapped'
    BY <2>2 DEF VmInv, BreakInv, PagesMapped, Pages
  <2>6. RegionInv'
    BY <2>2 DEF VmInv, RegionInv, RegionsApart, Sound, FreesAllocated, FreesOnce
  <2>7. KeepsToRegions' => PagesExact'
    BY <2>2, <2>3 DEF VmInv, KeepsToRegions
  <2> QED BY <2>1, <2>3, <2>4, <2>5, <2>6, <2>7 DEF VmInv
<1>7. ASSUME NEW f \in Frame, OtherWrites(f)
      PROVE  VmInv' /\ SwapInv'
  <2>1. UNCHANGED <<symrgtbl, vm_freerg_list, sbrk, vm_end, pgd, fifo_pgn, free_fp_list, live, freed, others>>
    BY <1>7 DEF OtherWrites, mmVars
  <2>2. misuse' = misuse \/ misuse' = misuse \union {"strayed"}
    BY <1>7 DEF OtherWrites
  <2>3. TypeOK'
    BY <2>1, <2>2 DEF VmInv, TypeOK, Misuse
  <2>4. BreakInv' /\ PagesMapped' /\ FreeFramesInv'
    BY <2>1 DEF VmInv, BreakInv, PagesMapped, FreeFramesInv, Pages
  <2>5. KeepsToRegions' => PagesExact'
    <3>1. KeepsToRegions' => KeepsToRegions
      BY <2>2 DEF KeepsToRegions
    <3> QED BY <2>1, <3>1 DEF VmInv, PagesExact, Pages
  <2>6. (FreesAllocated' <=> FreesAllocated) /\ (FreesOnce' <=> FreesOnce)
    BY <2>2 DEF FreesAllocated, FreesOnce
  <2>7. RegionInv'
    BY <2>1, <2>6 DEF VmInv, RegionInv, RegionsApart, Sound
  <2>8. SwapInv'
    BY <1>7 DEF OtherWrites, SwapInv
  <2> QED BY <2>3, <2>4, <2>5, <2>7, <2>8 DEF VmInv
<1>8. ASSUME NoEffect \/ UNCHANGED pagingVars
      PROVE  VmInv' /\ SwapInv'
  BY <1>1, <1>8 DEF NoEffect, pagingVars, swapVars, SwapInv
<1> QED BY <1>2, <1>3, <1>4, <1>5, <1>6, <1>7, <1>8 DEF PagingNext, Run

-----------------------------------------------------------------------------
(* The mark. *)

(* Pages that were mapped keep their frames when the break moves. *)
LEMMA MappedKept ==
  ASSUME VmAssumption, EnoughRam, VmInv,
         NEW n \in Nat, sbrk + n * PAGESZ <= MaxBrk, IncVmaLimit(n), NEW a \in Nat, a < sbrk
  PROVE  pgd'[a \div PAGESZ] = pgd[a \div PAGESZ]
<1>1. PICK page : page = a \div PAGESZ
  OBVIOUS
<1>2. page \in Page /\ page < Pages /\ page \in Nat /\ Pages \in Nat
  <2>1. page \in Page /\ page < Pages
    BY <1>1, AddressMapped
  <2>2. Pages \in Nat
    BY MapRam
  <2> QED BY <2>1, <2>2 DEF Page
<1>3. page \notin Pages .. Pages + n - 1
  BY <1>2
<1>4. pgd' = [p \in Page |-> IF p \in Pages .. Pages + n - 1 THEN free_fp_list[Pages + n - p] ELSE pgd[p]]
  BY MapRam
<1>5. pgd'[page] = pgd[page]
  BY <1>2, <1>3, <1>4
<1> QED BY <1>1, <1>5

(* What an allocation does to the registers. *)
LEMMA AllocOutcome ==
  ASSUME VmAssumption, EnoughRam, VmInv, NEW r \in Reg, NEW size \in Size, Alloc(r, size)
  PROVE  /\ \/ UNCHANGED <<symrgtbl, live, freed, misuse>>
            \/ \E start \in Nat : Named(r, <<start, start + size>>)
         /\ \A a \in Nat : a < sbrk => pgd'[a \div PAGESZ] = pgd[a \div PAGESZ]
<1>1. symrgtbl \in [Reg -> Nat \X Nat] /\ symrgtbl' \in [Reg -> Nat \X Nat]
  <2>1. AllocFree(r, size) \/ AllocGrow(r, size)
    BY DEF Alloc
  <2>2. VmInv'
    BY <2>1, AllocFreeStep, AllocGrowStep
  <2> QED BY <2>2 DEF VmInv, TypeOK
<1>2. ASSUME NEW start, Named(r, <<start, start + size>>)
      PROVE  start \in Nat
  <2>1. symrgtbl'[r] = <<start, start + size>>
    BY <1>1, <1>2 DEF Named
  <2>2. symrgtbl'[r] \in Nat \X Nat
    BY <1>1
  <2> QED BY <2>1, <2>2
<1>3. ASSUME NEW list, Named(r, Carved(list, size))
      PROVE  \E start \in Nat : Named(r, <<start, start + size>>)
  <2>1. PICK start : start = list[Min(Fits(list, size))][1]
    OBVIOUS
  <2>2. Named(r, <<start, start + size>>)
    BY <1>3, <2>1 DEF Carved
  <2> QED BY <1>2, <2>2
<1>4. CASE AllocFree(r, size)
  <2>1. PICK list : list = vm_freerg_list
    OBVIOUS
  <2>2. Named(r, Carved(list, size)) /\ pgd' = pgd
    BY <1>4, <2>1 DEF AllocFree
  <2> QED BY <1>3, <2>2
<1>5. CASE AllocGrow(r, size)
  <2>1. PICK list : list = Enlisted(vm_freerg_list, <<sbrk, sbrk + Align(size)>>)
    OBVIOUS
  <2>2. IF Fits(list, size) = {} THEN UNCHANGED <<symrgtbl, history>> ELSE Named(r, Carved(list, size))
    BY <1>5, <2>1 DEF AllocGrow
  <2>3. \/ UNCHANGED <<symrgtbl, live, freed, misuse>>
        \/ \E start \in Nat : Named(r, <<start, start + size>>)
    BY <1>3, <2>2 DEF history
  <2>4. PICK n : n = Align(size) \div PAGESZ
    OBVIOUS
  <2>5. size \in Nat
    BY DEF VmAssumption
  <2>6. n \in Nat /\ Align(size) = n * PAGESZ
    BY <2>4, <2>5, AlignProperties
  <2>7. sbrk + n * PAGESZ <= MaxBrk /\ IncVmaLimit(n)
    BY <1>5, <2>4, <2>6 DEF AllocGrow
  <2>8. \A a \in Nat : a < sbrk => pgd'[a \div PAGESZ] = pgd[a \div PAGESZ]
    BY <2>6, <2>7, MappedKept
  <2> QED BY <2>3, <2>8
<1> QED BY <1>4, <1>5 DEF Alloc

Marked(r, off) == mark = <<r, off>> /\ InRegion(r, off)

(* The mark stays where it is as long as its region and its page do. *)
LEMMA MarkStays ==
  ASSUME VmInv', NEW r \in Reg, NEW off \in Nat, Marked(r, off), ReadsLastWrite, misuse = {}, misuse' = {},
         r \in live', symrgtbl'[r] = symrgtbl[r], mark' = mark,
         pgd'[PageOf(VirtualAddr(r, off))] = pgd[PageOf(VirtualAddr(r, off))],
         Cell(pgd, VirtualAddr(r, off)) \in mram => Cell(pgd, VirtualAddr(r, off)) \in mram'
  PROVE  MarkInv'
<1> DEFINE addr == symrgtbl[r][1] + off
<1>1. Marked(r, off)'
  BY DEF Marked, InRegion, VirtualAddr
<1>2. mark = <<r, off>> /\ mark[1] = r /\ mark[2] = off /\ mark # NoMark
  BY DEF Marked, NoMark
<1>3. mark'[1] = r /\ mark'[2] = off
  BY <1>2
<1>4. Cell(pgd, addr) \in mram'
  BY <1>2 DEF ReadsLastWrite, VirtualAddr
<1>5. Cell(pgd', addr) = Cell(pgd, addr)
  BY DEF Cell, VirtualAddr
<1>6. ReadsLastWrite'
  BY <1>3, <1>4, <1>5 DEF ReadsLastWrite, VirtualAddr
<1>7. mark' # NoMark => \E s \in Reg, o \in Nat : mark' = <<s, o>> /\ InRegion(s, o)'
  BY <1>1 DEF Marked
<1> QED BY <1>6, <1>7 DEF MarkInv

LEMMA NoMarkInv ==
  ASSUME VmInv', mark' = NoMark
  PROVE  MarkInv'
BY DEF MarkInv, ReadsLastWrite

(* Two addresses below the break have two cells. *)
LEMMA CellOfOne ==
  ASSUME VmAssumption, VmInv, KeepsToRegions,
         NEW a \in Nat, a < sbrk, NEW b \in Nat, b < sbrk, a # b
  PROVE  Cell(pgd, a) # Cell(pgd, b)
<1>1. /\ a \div PAGESZ \in Page /\ pgd[a \div PAGESZ] \in Frame
      /\ b \div PAGESZ \in Page /\ pgd[b \div PAGESZ] \in Frame
      /\ PageOf(a) = a \div PAGESZ /\ PageOf(b) = b \div PAGESZ
  BY AddressMapped
<1>2. PICK f : f = pgd[a \div PAGESZ]
  OBVIOUS
<1>3. PICK g : g = pgd[b \div PAGESZ]
  OBVIOUS
<1>4. PICK o : o = a % PAGESZ
  OBVIOUS
<1>5. PICK q : q = b % PAGESZ
  OBVIOUS
<1>6. PAGESZ \in Nat \ {0} /\ f \in Nat /\ g \in Nat /\ NoFrame \notin Nat
  BY <1>1, <1>2, <1>3 DEF VmAssumption, Frame
<1>7. o \in 0 .. PAGESZ - 1 /\ q \in 0 .. PAGESZ - 1
  BY <1>4, <1>5, <1>6, PageBelow
<1>8. Cell(pgd, a) = f * PAGESZ + o /\ Cell(pgd, b) = g * PAGESZ + q
  BY <1>1, <1>2, <1>3, <1>4, <1>5 DEF Cell
<1>9. ASSUME f = g, o = q
      PROVE  FALSE
  <2>1. a \div PAGESZ = b \div PAGESZ
    BY <1>1, <1>2, <1>3, <1>6, <1>9 DEF VmInv, PagesExact
  <2>2. /\ a = (a \div PAGESZ) * PAGESZ + (a % PAGESZ)
        /\ b = (b \div PAGESZ) * PAGESZ + (b % PAGESZ)
    BY <1>6, PageBelow
  <2>3. a = b
    BY <1>4, <1>5, <1>9, <2>1, <2>2, Zenon
  <2> QED BY <2>3
<1> QED BY <1>6, <1>7, <1>8, <1>9, CellsApart

(* What was recorded of a program stays recorded. *)
LEMMA MisuseStays ==
  ASSUME [PagingNext]_pagingVars
  PROVE  misuse \subseteq misuse'
<1>1. ASSUME NEW r \in Reg, NEW size \in Size, AllocRegion(r, size)
      PROVE  misuse \subseteq misuse'
  BY <1>1 DEF AllocRegion, Alloc, AllocFree, AllocGrow, Named, history
<1>2. ASSUME NEW r \in Reg, FreeRegion(r)
      PROVE  misuse \subseteq misuse'
  BY <1>2 DEF FreeRegion, Free
<1>3. ASSUME NEW r \in Reg, NEW off \in Offset, Read(r, off) \/ WriteMark(r, off) \/ Write(r, off)
      PROVE  misuse \subseteq misuse'
  BY <1>3 DEF Read, WriteMark, Write, Access
<1>4. ASSUME NEW size \in Size, Increase(size)
      PROVE  misuse \subseteq misuse'
  BY <1>4 DEF Increase, SysIncrease, history
<1>5. ASSUME OtherGetsFrame
      PROVE  misuse \subseteq misuse'
  BY <1>5 DEF OtherGetsFrame, OtherTakesFrame, history
<1>6. ASSUME NEW f \in Frame, OtherWrites(f)
      PROVE  misuse \subseteq misuse'
  BY <1>6 DEF OtherWrites
<1>7. ASSUME NoEffect \/ UNCHANGED pagingVars
      PROVE  misuse \subseteq misuse'
  BY <1>7 DEF NoEffect, pagingVars, vars, history
<1> QED BY <1>1, <1>2, <1>3, <1>4, <1>5, <1>6, <1>7 DEF PagingNext, Run

LEMMA MarkStep ==
  ASSUME VmAssumption, PagingAssumption, EnoughRam, MarkInv, SwapInv, [PagingNext]_pagingVars
  PROVE  MarkInv'
<1>1. VmInv /\ VmInv' /\ ReadsLastWrite
  BY PagingStep DEF MarkInv
<1>2. misuse' = {} => misuse = {} /\ FreesAllocated /\ FreesOnce /\ KeepsToRegions
  <2>1. misuse \subseteq misuse'
    BY MisuseStays
  <2> QED BY <2>1 DEF FreesAllocated, FreesOnce, KeepsToRegions
<1>3. mark = NoMark \/ \E r \in Reg, off \in Nat : Marked(r, off)
  BY DEF MarkInv, Marked
<1>4. mark # NoMark => misuse = {}
  BY DEF MarkInv
<1>5. ASSUME NEW r \in Reg, NEW off \in Nat, Marked(r, off)
      PROVE  /\ mark[1] = r /\ mark # NoMark /\ misuse = {} /\ r \in live
             /\ VirtualAddr(r, off) \in Nat /\ VirtualAddr(r, off) < sbrk
             /\ VirtualAddr(r, off) \div PAGESZ \in Page
             /\ PageOf(VirtualAddr(r, off)) = VirtualAddr(r, off) \div PAGESZ
             /\ pgd[PageOf(VirtualAddr(r, off))] \in Frame
  <2>1. mark[1] = r /\ mark # NoMark /\ misuse = {} /\ r \in live /\ InRegion(r, off)
    BY <1>4, <1>5 DEF Marked, NoMark, InRegion
  <2>2. FreesAllocated /\ KeepsToRegions
    BY <2>1 DEF FreesAllocated, KeepsToRegions
  <2>3. VirtualAddr(r, off) \in Nat /\ VirtualAddr(r, off) < sbrk
    BY <1>1, <2>1, <2>2, ByteBelow
  <2> QED BY <1>1, <2>1, <2>2, <2>3, AddressMapped
<1>6. ASSUME UNCHANGED <<vars, mram, mark>>
      PROVE  MarkInv'
  <2>1. CASE mark = NoMark
    BY <1>1, <1>6, <2>1, NoMarkInv
  <2>2. ASSUME NEW r \in Reg, NEW off \in Nat, Marked(r, off)
        PROVE  MarkInv'
    <3>1. /\ live' = live /\ symrgtbl' = symrgtbl /\ mark' = mark /\ misuse' = misuse
          /\ pgd' = pgd /\ mram' = mram
      BY <1>6 DEF vars, mmVars, history
    <3> QED BY <1>1, <1>5, <2>2, <3>1, MarkStays
  <2> QED BY <1>3, <2>1, <2>2
<1>7. ASSUME NEW r \in Reg, NEW size \in Size, AllocRegion(r, size)
      PROVE  MarkInv'
  <2>1. CASE mark' = NoMark
    BY <1>1, <2>1, NoMarkInv
  <2>2. CASE mark' # NoMark
    <3>1. /\ misuse' = {} /\ ~(mark # NoMark /\ mark[1] = r) /\ mark' = mark /\ mram' = mram
          /\ Alloc(r, size)
      BY <1>7, <2>2 DEF AllocRegion, Forget, Follow
    <3>2. ASSUME NEW s \in Reg, NEW off \in Nat, Marked(s, off)
          PROVE  MarkInv'
      <4>1. s # r /\ s \in live
        BY <1>5, <3>1, <3>2
      <4>2. pgd'[PageOf(VirtualAddr(s, off))] = pgd[PageOf(VirtualAddr(s, off))]
        BY <1>1, <1>5, <3>1, <3>2, AllocOutcome
      <4>3. \/ UNCHANGED <<symrgtbl, live, freed, misuse>>
            \/ \E start \in Nat : Named(r, <<start, start + size>>)
        BY <1>1, <3>1, AllocOutcome
      <4>4. symrgtbl \in [Reg -> Nat \X Nat]
        BY <1>1 DEF VmInv, TypeOK
      <4>5. s \in live' /\ symrgtbl'[s] = symrgtbl[s]
        BY <4>1, <4>3, <4>4 DEF Named
      <4> QED BY <1>1, <1>5, <3>1, <3>2, <4>2, <4>5, MarkStays
    <3> QED BY <1>3, <2>2, <3>1, <3>2
  <2> QED BY <2>1, <2>2
<1>8. ASSUME NEW r \in Reg, FreeRegion(r)
      PROVE  MarkInv'
  <2>1. CASE mark' = NoMark
    BY <1>1, <2>1, NoMarkInv
  <2>2. CASE mark' # NoMark
    <3>1. /\ misuse' = {} /\ ~(mark # NoMark /\ mark[1] = r) /\ mark' = mark /\ mram' = mram
          /\ live' = live \ {r} /\ symrgtbl' = symrgtbl /\ pgd' = pgd
      BY <1>8, <2>2 DEF FreeRegion, Forget, Follow, Free
    <3>2. ASSUME NEW s \in Reg, NEW off \in Nat, Marked(s, off)
          PROVE  MarkInv'
      <4>1. s # r /\ s \in live
        BY <1>5, <3>1, <3>2
      <4> QED BY <1>1, <1>5, <3>1, <3>2, <4>1, MarkStays
    <3> QED BY <1>3, <2>2, <3>1, <3>2
  <2> QED BY <2>1, <2>2
<1>9. ASSUME NEW size \in Size, Increase(size)
      PROVE  MarkInv'
  <2>1. mark' = mark /\ mram' = mram /\ SysIncrease(size)
    BY <1>9 DEF Increase, swapVars
  <2>2. live' = live /\ symrgtbl' = symrgtbl /\ misuse' = misuse
    BY <2>1 DEF SysIncrease, history
  <2>3. ASSUME NEW s \in Reg, NEW off \in Nat, Marked(s, off)
        PROVE  MarkInv'
    <3>1. PICK n : n = Align(size) \div PAGESZ
      OBVIOUS
    <3>2. n \in Nat /\ Align(size) = n * PAGESZ
      <4>1. size \in Nat
        BY DEF VmAssumption
      <4> QED BY <3>1, <4>1, AlignProperties
    <3>3. sbrk + n * PAGESZ <= MaxBrk /\ IncVmaLimit(n)
      BY <2>1, <3>1, <3>2 DEF SysIncrease
    <3>4. pgd'[PageOf(VirtualAddr(s, off))] = pgd[PageOf(VirtualAddr(s, off))]
      BY <1>1, <1>5, <2>3, <3>2, <3>3, MappedKept
    <3> QED BY <1>1, <1>5, <2>1, <2>2, <2>3, <3>4, MarkStays
  <2>4. CASE mark = NoMark
    BY <1>1, <2>1, <2>4, NoMarkInv
  <2> QED BY <1>3, <2>3, <2>4
<1>10. ASSUME OtherGetsFrame
       PROVE  MarkInv'
  <2>1. mark' = mark /\ mram' = mram /\ live' = live /\ symrgtbl' = symrgtbl /\ misuse' = misuse /\ pgd' = pgd
    BY <1>10 DEF OtherGetsFrame, OtherTakesFrame, swapVars, mmVars, history
  <2>2. ASSUME NEW s \in Reg, NEW off \in Nat, Marked(s, off)
        PROVE  MarkInv'
    BY <1>1, <1>5, <2>1, <2>2, MarkStays
  <2>3. CASE mark = NoMark
    BY <1>1, <2>1, <2>3, NoMarkInv
  <2> QED BY <1>3, <2>2, <2>3
<1>11. ASSUME NEW f \in Frame, OtherWrites(f)
       PROVE  MarkInv'
  <2>1. CASE mark' = NoMark
    BY <1>1, <2>1, NoMarkInv
  <2>2. CASE mark' # NoMark
    <3>1. /\ misuse' = {} /\ mark' = mark /\ live' = live /\ symrgtbl' = symrgtbl /\ pgd' = pgd
          /\ mram' = mram \ Cells(f) /\ f \in others
      BY <1>11, <2>2 DEF OtherWrites, Follow, mmVars
    <3>2. ASSUME NEW s \in Reg, NEW off \in Nat, Marked(s, off)
          PROVE  MarkInv'
      <4>1. PICK addr : addr = VirtualAddr(s, off)
        OBVIOUS
      <4>2. PICK g : g = pgd[addr \div PAGESZ]
        OBVIOUS
      <4>3. PICK o : o = addr % PAGESZ
        OBVIOUS
      <4>4. /\ addr \in Nat /\ addr < sbrk /\ addr \div PAGESZ \in Page
            /\ PageOf(addr) = addr \div PAGESZ
            /\ g \in Frame /\ g \in Nat /\ f \in Nat
        BY <1>5, <3>2, <4>1, <4>2 DEF Frame
      <4>5. o \in 0 .. PAGESZ - 1 /\ PAGESZ \in Nat \ {0}
        BY <4>3, <4>4, PageBelow DEF VmAssumption
      <4>6. PagesExact
        BY <1>1, <1>2, <3>1 DEF VmInv
      <4>7. g # f
        BY <3>1, <4>2, <4>4, <4>6 DEF PagesExact
      <4>8. \A k \in 0 .. PAGESZ - 1 : g * PAGESZ + o # f * PAGESZ + k
        BY <4>4, <4>5, <4>7, CellsApart
      <4>9. Cell(pgd, addr) = g * PAGESZ + o
        BY <4>2, <4>3, <4>4 DEF Cell
      <4>10. Cell(pgd, addr) \notin Cells(f)
        BY <4>8, <4>9 DEF Cells
      <4> QED BY <1>1, <1>5, <3>1, <3>2, <4>1, <4>10, MarkStays
    <3> QED BY <1>3, <2>2, <3>1, <3>2
  <2> QED BY <2>1, <2>2
<1>12. ASSUME NEW r \in Reg, NEW off \in Nat, Access(r, off), misuse' = {}
       PROVE  InRegion(r, off) /\ UNCHANGED vars
  <2>1. InRegion(r, off)
    BY <1>12 DEF Access
  <2> QED BY <1>1, <1>2, <1>12, <2>1, AccessKeeps
<1>13. ASSUME NEW r \in Reg, NEW off \in Nat, Read(r, off)
       PROVE  MarkInv'
  <2>1. CASE mark' = NoMark
    BY <1>1, <2>1, NoMarkInv
  <2>2. CASE mark' # NoMark
    <3>1. misuse' = {} /\ mark' = mark /\ mram' = mram /\ Access(r, off)
      BY <1>13, <2>2 DEF Read, Follow
    <3> QED BY <1>6, <1>12, <3>1
  <2> QED BY <2>1, <2>2
<1>14. ASSUME NEW r \in Reg, NEW off \in Nat, WriteMark(r, off)
       PROVE  MarkInv'
  <2>1. CASE mark' = NoMark
    BY <1>1, <2>1, NoMarkInv
  <2>2. CASE mark' # NoMark
    <3>1. /\ misuse' = {} /\ mark' = <<r, off>> /\ Cell(pgd', VirtualAddr(r, off)) \in mram'
          /\ Access(r, off)
      BY <1>14, <2>2 DEF WriteMark, Follow, Written
    <3>2. InRegion(r, off) /\ UNCHANGED vars
      BY <1>12, <3>1
    <3>3. live' = live /\ symrgtbl' = symrgtbl
      BY <3>2 DEF vars, mmVars, history
    <3>4. InRegion(r, off)'
      BY <3>2, <3>3 DEF InRegion, VirtualAddr
    <3>5. mark'[1] = r /\ mark'[2] = off
      BY <3>1
    <3>6. ReadsLastWrite'
      BY <3>1, <3>3, <3>5 DEF ReadsLastWrite, VirtualAddr
    <3> QED BY <1>1, <3>1, <3>4, <3>6 DEF MarkInv
  <2> QED BY <2>1, <2>2
<1>15. ASSUME NEW r \in Reg, NEW off \in Nat, Write(r, off)
       PROVE  MarkInv'
  <2>1. CASE mark' = NoMark
    BY <1>1, <2>1, NoMarkInv
  <2>2. CASE mark' # NoMark
    <3>1. /\ misuse' = {} /\ mark' = mark /\ <<r, off>> # mark /\ Access(r, off)
          /\ mram' = mram \ {Cell(pgd', VirtualAddr(r, off))}
      BY <1>15, <2>2 DEF Write, Follow, Written
    <3>2. InRegion(r, off) /\ UNCHANGED vars
      BY <1>12, <3>1
    <3>3. live' = live /\ symrgtbl' = symrgtbl /\ pgd' = pgd
      BY <3>2 DEF vars, mmVars, history
    <3>4. FreesAllocated /\ FreesOnce /\ KeepsToRegions
      BY <1>2, <3>1
    <3>5. ASSUME NEW s \in Reg, NEW o \in Nat, Marked(s, o)
          PROVE  MarkInv'
      <4>1. InRegion(s, o) /\ mark = <<s, o>>
        BY <3>5 DEF Marked
      <4>2. VirtualAddr(r, off) # VirtualAddr(s, o)
        <5>1. CASE r = s
          <6>1. o # off /\ symrgtbl[r] \in Nat \X Nat
            BY <1>1, <3>1, <4>1, <5>1 DEF VmInv, TypeOK
          <6> QED BY <5>1, <6>1 DEF VirtualAddr
        <5>2. CASE r # s
          <6>1. /\ VirtualAddr(r, off) \in Addresses(symrgtbl[r])
                /\ VirtualAddr(s, o) \in Addresses(symrgtbl[s])
                /\ r \in live /\ s \in live
            BY <1>1, <3>2, <3>4, <4>1, ByteBelow DEF InRegion
          <6> QED BY <1>1, <3>4, <5>2, <6>1 DEF VmInv, RegionInv, RegionsApart
        <5> QED BY <5>1, <5>2
      <4>3. VirtualAddr(r, off) \in Nat /\ VirtualAddr(r, off) < sbrk
        BY <1>1, <3>2, <3>4, ByteBelow
      <4>4. Cell(pgd, VirtualAddr(s, o)) # Cell(pgd, VirtualAddr(r, off))
        BY <1>1, <1>5, <3>4, <3>5, <4>2, <4>3, CellOfOne
      <4> QED BY <1>1, <1>5, <3>1, <3>3, <3>5, <4>4, MarkStays
    <3> QED BY <1>3, <2>2, <3>1, <3>5
  <2> QED BY <2>1, <2>2
<1>16. ASSUME NoEffect \/ UNCHANGED pagingVars
       PROVE  MarkInv'
  BY <1>6, <1>16 DEF NoEffect, pagingVars, swapVars
<1> QED BY <1>7, <1>8, <1>9, <1>10, <1>11, <1>13, <1>14, <1>15, <1>16, OffsetType DEF PagingNext, Run

-----------------------------------------------------------------------------
(* The theorems.  Each holds of one CPU (OneCpu), which the atomicity of a  *)
(* library call rests on, and of a RAM that is large enough (EnoughRam);    *)
(* for any program, and any use of RAM by the other processes.              *)

(* On one CPU with enough RAM the tables of a process keep to the inductive *)
(* invariant, whatever it allocates, frees, reads and writes.               *)
THEOREM VmCorrect ==
  ASSUME OneCpu, EnoughRam
  PROVE  PagingSpec => [](VmInv /\ SwapInv)
<1>1. PagingInit => VmInv /\ SwapInv
  BY VmAssumption, PagingAssumption, VmInit, SwapInit DEF PagingInit
<1>2. VmInv /\ SwapInv /\ [PagingNext]_pagingVars => (VmInv /\ SwapInv)'
  BY VmAssumption, PagingAssumption, PagingStep
<1> QED BY <1>1, <1>2, PTL DEF PagingSpec

(* The tables of a process have their types at all times, also when it uses *)
(* registers that were never allocated.                                     *)
THEOREM TypeCorrect ==
  ASSUME OneCpu, EnoughRam
  PROVE  PagingSpec => []TypeOK
<1>1. VmInv => TypeOK
  BY DEF VmInv
<1> QED BY <1>1, VmCorrect, PTL

(* Free regions and those that registers name overlap nowhere, for a        *)
(* program that frees once what it has allocated.                           *)
THEOREM RegionsNeverOverlap ==
  ASSUME OneCpu, EnoughRam
  PROVE  PagingSpec => []RegionsApart
<1>1. VmInv => RegionsApart
  <2>1. FreesOnce => FreesAllocated
    BY DEF FreesOnce, FreesAllocated
  <2> QED BY <2>1 DEF VmInv, RegionInv, RegionsApart
<1> QED BY <1>1, VmCorrect, PTL

(* A region that a register names is mapped, to its last address, until a   *)
(* register that was never allocated is freed.                              *)
THEOREM LiveStaysMapped ==
  ASSUME OneCpu, EnoughRam
  PROVE  PagingSpec => []LiveIsMapped
<1>1. VmInv => LiveIsMapped
  BY VmAssumption, MappedLive
<1> QED BY <1>1, VmCorrect, PTL

(* On one CPU no frame of RAM is handed out twice, and none has two users   *)
(* as long as the program accesses and frees what it has allocated.         *)
THEOREM FramesNeverShared ==
  ASSUME OneCpu, EnoughRam
  PROVE  PagingSpec => []FramesApart
<1>1. VmInv => FramesApart
  BY DEF VmInv, FreeFramesInv, PagesExact, FramesApart
<1> QED BY <1>1, VmCorrect, PTL

(* And none is without one. *)
THEOREM FramesAccounted ==
  ASSUME OneCpu, EnoughRam
  PROVE  PagingSpec => []NoFrameLost
<1>1. VmInv => NoFrameLost
  BY DEF VmInv, PagesExact, NoFrameLost
<1> QED BY <1>1, VmCorrect, PTL

(* What a program wrote last is what it reads, as long as it and the others *)
(* access and free once what they have allocated.                           *)
THEOREM LastWriteRead ==
  ASSUME OneCpu, EnoughRam
  PROVE  PagingSpec => []ReadsLastWrite
<1>1. PagingInit => MarkInv /\ SwapInv
  BY VmAssumption, PagingAssumption, VmInit, SwapInit DEF PagingInit, MarkInv, ReadsLastWrite
<1>2. MarkInv /\ SwapInv /\ [PagingNext]_pagingVars => (MarkInv /\ SwapInv)'
  BY VmAssumption, PagingAssumption, MarkStep, PagingStep DEF MarkInv
<1>3. MarkInv => ReadsLastWrite
  BY DEF MarkInv
<1> QED BY <1>1, <1>2, <1>3, PTL DEF PagingSpec

-----------------------------------------------------------------------------
(* The allocator's promise. *)

ExtentOf(r) == IF FreesOnce /\ r \in live THEN Addresses(symrgtbl[r]) ELSE {}

LEMMA ExtentStep ==
  ASSUME VmAssumption, PagingAssumption, EnoughRam, VmInv, SwapInv, [PagingNext]_pagingVars
  PROVE  [RA!Next]_<<Extent, FreesOnce>>
<1>1. VmInv'
  BY PagingStep
<1>2. /\ FreesOnce \in BOOLEAN /\ FreesOnce' \in BOOLEAN
      /\ symrgtbl \in [Reg -> Nat \X Nat] /\ live \subseteq Reg /\ freed \subseteq Reg \ live
      /\ symrgtbl' \in [Reg -> Nat \X Nat] /\ live' \subseteq Reg
      /\ sbrk' \in Nat /\ sbrk' <= MaxBrk /\ MaxBrk \in Nat
  BY <1>1 DEF VmInv, TypeOK, VmAssumption, FreesOnce
<1>3. /\ Extent = [r \in Reg |-> ExtentOf(r)]
      /\ Extent' = [r \in Reg |-> ExtentOf(r)']
  BY DEF Extent, ExtentOf
<1>4. ASSUME UNCHANGED <<symrgtbl, live, FreesOnce>>
      PROVE  UNCHANGED <<Extent, FreesOnce>>
  BY <1>4 DEF Extent, Addresses
<1>5. ASSUME UNCHANGED <<symrgtbl, live, misuse>>
      PROVE  UNCHANGED <<Extent, FreesOnce>>
  BY <1>4, <1>5 DEF FreesOnce
<1>6. ASSUME ~FreesOnce, FreesOnce' = FreesOnce
      PROVE  UNCHANGED <<Extent, FreesOnce>>
  BY <1>6 DEF Extent
<1>7. ASSUME NEW r \in Reg, NEW start \in Nat, NEW size \in Nat, Named(r, <<start, start + size>>)
      PROVE  RA!Next \/ UNCHANGED <<Extent, FreesOnce>>
  <2>1. /\ symrgtbl'[r] = <<start, start + size>>
        /\ \A s \in Reg \ {r} : symrgtbl'[s] = symrgtbl[s] /\ (s \in live' <=> s \in live)
        /\ r \in live' /\ FreesOnce' = FreesOnce
    BY <1>2, <1>7 DEF Named, FreesOnce
  <2>2. CASE FreesOnce
    <3> DEFINE piece == RA!Interval(start, size)
    <3>1. start + size <= sbrk'
      BY <1>1, <2>1, <2>2 DEF VmInv, RegionInv, Sound, FreesAllocated, FreesOnce
    <3>2. start \in 0 .. MaxBrk /\ size \in 0 .. MaxBrk /\ piece \subseteq 0 .. MaxBrk
      BY <1>2, <3>1 DEF RA!Interval
    <3>3. Addresses(<<start, start + size>>) = piece
      BY DEF Addresses, RA!Interval
    <3> HIDE DEF piece
    <3>4. ExtentOf(r)' = piece
      BY <2>1, <2>2, <3>3 DEF ExtentOf, Addresses
    <3>5. \A s \in Reg \ {r} : ExtentOf(s)' = ExtentOf(s)
      BY <2>1, <2>2 DEF ExtentOf, Addresses
    <3>6. Extent' = [Extent EXCEPT ![r] = piece]
      BY <1>3, <3>4, <3>5
    <3>7. \A s \in Reg \ {r} : piece \intersect Extent[s] = {}
      <4> SUFFICES ASSUME NEW s \in Reg \ {r}
                   PROVE  piece \intersect ExtentOf(s) = {}
        BY <1>3
      <4>1. CASE s \in live
        <5>1. Addresses(symrgtbl[r])' \intersect Addresses(symrgtbl[s])' = {}
          BY <1>1, <2>1, <2>2, <4>1 DEF VmInv, RegionInv, RegionsApart, FreesAllocated, FreesOnce
        <5>2. ExtentOf(s)' = Addresses(symrgtbl[s])' /\ ExtentOf(r)' = Addresses(symrgtbl[r])'
          BY <2>1, <2>2, <4>1 DEF ExtentOf
        <5> QED BY <3>4, <3>5, <5>1, <5>2
      <4>2. CASE s \notin live
        BY <4>2 DEF ExtentOf
      <4> QED BY <4>1, <4>2
    <3>8. RA!Alloc(r)
      BY <3>2, <3>6, <3>7 DEF RA!Alloc, piece
    <3> QED BY <2>1, <2>2, <3>8 DEF RA!Next
  <2>3. CASE ~FreesOnce
    BY <1>6, <2>1, <2>3
  <2> QED BY <2>2, <2>3
<1>8. ASSUME NEW r \in Reg, NEW size \in Size, AllocRegion(r, size)
      PROVE  RA!Next \/ UNCHANGED <<Extent, FreesOnce>>
  <2>1. \/ UNCHANGED <<symrgtbl, live, freed, misuse>>
        \/ \E start \in Nat : Named(r, <<start, start + size>>)
    BY <1>8, AllocOutcome DEF AllocRegion
  <2>2. size \in Nat
    BY DEF VmAssumption
  <2> QED BY <1>5, <1>7, <2>1, <2>2
<1>9. ASSUME NEW r \in Reg, FreeRegion(r)
      PROVE  RA!Next \/ UNCHANGED <<Extent, FreesOnce>>
  <2>1. /\ live' = live \ {r} /\ symrgtbl' = symrgtbl
        /\ FreesOnce' => FreesOnce
    BY <1>9 DEF FreeRegion, Free, FreesOnce
  <2>2. CASE FreesOnce /\ FreesOnce'
    <3>1. ExtentOf(r)' = {}
      BY <2>1 DEF ExtentOf
    <3>2. \A s \in Reg \ {r} : ExtentOf(s)' = ExtentOf(s)
      BY <2>1, <2>2 DEF ExtentOf, Addresses
    <3>3. Extent' = [Extent EXCEPT ![r] = {}]
      BY <1>3, <3>1, <3>2
    <3> QED BY <1>2, <2>2, <3>3 DEF RA!Next, RA!Free
  <2>3. CASE FreesOnce /\ ~FreesOnce'
    <3>1. Extent' = RA!Nothing /\ FreesOnce' = FALSE
      BY <1>2, <1>3, <2>3 DEF ExtentOf, RA!Nothing
    <3> QED BY <3>1 DEF RA!Next, RA!Forfeit
  <2>4. CASE ~FreesOnce
    <3>1. FreesOnce' = FreesOnce
      BY <1>2, <2>1, <2>4
    <3> QED BY <1>6, <2>4, <3>1
  <2> QED BY <2>2, <2>3, <2>4
<1>10. ASSUME NEW size \in Size, Increase(size)
       PROVE  UNCHANGED <<Extent, FreesOnce>>
  BY <1>5, <1>10 DEF Increase, SysIncrease, history
<1>11. ASSUME OtherGetsFrame
       PROVE  UNCHANGED <<Extent, FreesOnce>>
  BY <1>5, <1>11 DEF OtherGetsFrame, OtherTakesFrame, mmVars, history
<1>12. ASSUME symrgtbl' = symrgtbl, live' = live, misuse' = misuse \/ misuse' = misuse \union {"strayed"}
       PROVE  UNCHANGED <<Extent, FreesOnce>>
  <2>1. FreesOnce' = FreesOnce
    BY <1>12 DEF FreesOnce
  <2> QED BY <1>4, <1>12, <2>1
<1>13. ASSUME NEW f \in Frame, OtherWrites(f)
       PROVE  UNCHANGED <<Extent, FreesOnce>>
  BY <1>12, <1>13 DEF OtherWrites, mmVars
<1>14. ASSUME NEW r \in Reg, NEW off \in Offset, Read(r, off) \/ WriteMark(r, off) \/ Write(r, off)
       PROVE  UNCHANGED <<Extent, FreesOnce>>
  BY <1>12, <1>14 DEF Read, WriteMark, Write, Access
<1>15. ASSUME NoEffect \/ UNCHANGED pagingVars
       PROVE  UNCHANGED <<Extent, FreesOnce>>
  BY <1>5, <1>15 DEF NoEffect, pagingVars, vars, mmVars, history
<1> QED BY <1>8, <1>9, <1>10, <1>11, <1>13, <1>14, <1>15 DEF PagingNext, Run

(* The free list, the break and the symbol table implement Allocator: what  *)
(* a register names is its own, as long as the program frees once what it   *)
(* has allocated.                                                           *)
THEOREM AllocatorImplemented ==
  ASSUME OneCpu, EnoughRam
  PROVE  PagingSpec => ImplementsAllocator
<1>1. PagingInit => RA!Init
  BY DEF PagingInit, Init, Extent, RA!Init, RA!Nothing, FreesOnce
<1>2. VmInv /\ SwapInv /\ [PagingNext]_pagingVars => [RA!Next]_<<Extent, FreesOnce>>
  BY VmAssumption, PagingAssumption, ExtentStep
<1> QED BY <1>1, <1>2, VmCorrect, PTL DEF PagingSpec, ImplementsAllocator, RA!Spec

=============================================================================
