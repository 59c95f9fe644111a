---------------------------- MODULE MemPhyProofs ----------------------------
(***************************************************************************)
(* The free frame list of src/mm-memphy.c: types for any number of CPUs,   *)
(* and the list's promise when one CPU uses it, for every size of device.  *)
(***************************************************************************)
EXTENDS MemPhy, TLAPS

(* The inductive invariants. *)

(* alloc_pages_range calls MEMPHY_get_freefp only for a page it still needs. *)
CountInv == TypeOK /\ \A c \in CPU : cpc[c] \notin {"idle", "loop"} => pgit[c] < req_pgnum[c]

(* The rest holds when one CPU uses the list. *)
OneCpu == \E c : CPU = {c}

(* The frames that have left the list; it holds the others in order. *)
Unlisted == {f \in Frame : free_fp_list \in Frame => f < free_fp_list}

(* CPU c has the node it unlinked last still to free, and its frame still to *)
(* hand out.                                                                *)
ListInv(c) ==
  /\ fp_next = [f \in Frame |-> Linked(f, NULL)]
  /\ free_fp_list # Wild
  /\ freed = IF cpc[c] = "free" THEN Unlisted \ {fp[c]} ELSE Unlisted
  /\ cpc[c] \in {"read", "unlink"} => fp[c] = free_fp_list /\ fp[c] \in Frame
  /\ cpc[c] \in {"unlink", "free"} => fpn[c] = fp[c]
  /\ cpc[c] \in {"free", "got"} =>
       fpn[c] \in Frame /\ free_fp_list = Linked(fpn[c], NULL)
  /\ {f \in Frame : owner[f] # {}} =
       IF cpc[c] \in {"free", "got"} THEN Unlisted \ {fpn[c]} ELSE Unlisted

ListsInv == CountInv /\ \A c \in CPU : ListInv(c)

-----------------------------------------------------------------------------
(* The free list that MEMPHY_format makes has the types. *)
LEMMA CountInit ==
  ASSUME MemPhyAssumption, Init
  PROVE  CountInv
<1>1. 0 \in Frame
  BY DEF MemPhyAssumption, Frame
<1>2. fp_next \in [Frame -> Pointer]
  <2>1. PICK end \in FormatEnd : fp_next = [f \in Frame |-> Linked(f, end)]
    BY DEF Init
  <2>2. end \in Pointer
    BY DEF FormatEnd, Pointer
  <2>3. \A f \in Frame : Linked(f, end) \in Pointer
    BY <2>2 DEF MemPhyAssumption, Linked, Frame, Pointer
  <2> QED BY <2>1, <2>3
<1>3. TypeOK
  <2>1. 0 \in 0 .. MaxRequest
    BY DEF MemPhyAssumption
  <2>2. req_pgnum \in [CPU -> 0 .. MaxRequest] /\ pgit \in [CPU -> 0 .. MaxRequest] /\ \A c \in CPU : pgit[c] <= req_pgnum[c]
    BY <2>1 DEF Init
  <2>3. cpc \in [CPU -> CpuPC] /\ fp \in [CPU -> Pointer] /\ fpn \in [CPU -> Frame \union {-1}] /\ free_fp_list \in Pointer
    BY <1>1 DEF Init, CpuPC, Pointer
  <2>4. freed \in SUBSET Frame /\ caller \in [CPU -> Proc] /\ owner \in [Frame -> SUBSET Proc] /\ refused \in BOOLEAN
    BY DEF Init
  <2> QED BY <1>2, <2>2, <2>3, <2>4 DEF TypeOK
<1> QED BY <1>3 DEF Init, CountInv

LEMMA CountStep ==
  ASSUME MemPhyAssumption, CountInv, [Next]_vars
  PROVE  CountInv'
<1>1. /\ TypeOK /\ \A c \in CPU : cpc[c] \notin {"idle", "loop"} => pgit[c] < req_pgnum[c]
      /\ MaxRequest \in Nat
  BY DEF CountInv, MemPhyAssumption
<1> USE DEF listVars, CpuPC, Goto
<1>2. CASE UNCHANGED vars
  BY <1>1, <1>2 DEF vars, cpuVars, CountInv, TypeOK
<1>3. ASSUME NEW c \in CPU, NEW q \in Proc, NEW n \in 1 .. MaxRequest, AllocPages(c, q, n) PROVE CountInv'
  BY <1>1, <1>3 DEF AllocPages, CountInv, TypeOK
<1>4. ASSUME NEW c \in CPU, NextPage(c) PROVE CountInv'
  BY <1>1, <1>4 DEF NextPage, AnotherPage, CountInv, TypeOK
<1>5. ASSUME NEW c \in CPU, GotFrame(c) PROVE CountInv'
  <2>1. /\ cpc[c] = "got" /\ pgit' = [pgit EXCEPT ![c] = pgit[c] + 1] /\ cpc' = [cpc EXCEPT ![c] = "loop"]
        /\ UNCHANGED <<listVars, fp, fpn, req_pgnum, caller, refused>>
    BY <1>5 DEF GotFrame
  <2>2. pgit[c] \in 0 .. MaxRequest /\ req_pgnum[c] \in 0 .. MaxRequest /\ pgit[c] < req_pgnum[c]
    BY <1>1, <2>1 DEF TypeOK
  <2>3. owner' \in [Frame -> SUBSET Proc]
    BY <1>1, <1>5 DEF GotFrame, TypeOK
  <2>4. pgit' \in [CPU -> 0 .. MaxRequest] /\ \A d \in CPU : pgit'[d] <= req_pgnum[d]
    BY <1>1, <2>1, <2>2 DEF TypeOK
  <2>5. \A d \in CPU : cpc'[d] \notin {"idle", "loop"} => pgit'[d] < req_pgnum[d]
    BY <1>1, <2>1 DEF TypeOK
  <2>6. TypeOK'
    BY <1>1, <2>1, <2>3, <2>4 DEF TypeOK
  <2> QED BY <2>1, <2>5, <2>6 DEF CountInv
<1>6. ASSUME NEW c \in CPU, GetHead(c) PROVE CountInv'
  BY <1>1, <1>6 DEF GetHead, CountInv, TypeOK
<1>7. ASSUME NEW c \in CPU, GetNone(c) PROVE CountInv'
  BY <1>1, <1>7 DEF GetNone, CountInv, TypeOK
<1>8. ASSUME NEW c \in CPU, ReadFpn(c) PROVE CountInv'
  <2>1. fpn' \in [CPU -> Frame \union {-1}]
    BY <1>1, <1>8 DEF ReadFpn, Intact, TypeOK
  <2> QED BY <1>1, <1>8, <2>1 DEF ReadFpn, CountInv, TypeOK
<1>9. ASSUME NEW c \in CPU, Unlink(c) PROVE CountInv'
  <2>1. free_fp_list' \in Pointer
    BY <1>1, <1>9 DEF Unlink, Unlinked, Intact, TypeOK
  <2> QED BY <1>1, <1>9, <2>1 DEF Unlink, CountInv, TypeOK
<1>10. ASSUME NEW c \in CPU, FreeNode(c) PROVE CountInv'
  BY <1>1, <1>10 DEF FreeNode, CountInv, TypeOK
<1> QED BY <1>2, <1>3, <1>4, <1>5, <1>6, <1>7, <1>8, <1>9, <1>10 DEF Next, GetFreeFp

(* Every variable keeps its type whatever CPUs race for the list, and no    *)
(* call of alloc_pages_range collects more pages than it was asked for.     *)
THEOREM TypeCorrect == Spec => []TypeOK
<1>1. Init => CountInv
  BY MemPhyAssumption, CountInit
<1>2. CountInv /\ [Next]_vars => CountInv'
  BY MemPhyAssumption, CountStep
<1>3. CountInv => TypeOK
  BY DEF CountInv
<1> QED BY <1>1, <1>2, <1>3, PTL DEF Spec

-----------------------------------------------------------------------------
(* One CPU. *)

LEMMA ListsInit ==
  ASSUME MemPhyAssumption, NumFrames > 1, Init
  PROVE  ListsInv
<1>1. CountInv
  BY CountInit
<1>2. NumFrames \in Nat /\ 0 \in Frame /\ Wild \notin Frame
  BY DEF MemPhyAssumption, Frame
<1>3. fp_next = [f \in Frame |-> Linked(f, NULL)]
  BY <1>2 DEF Init, FormatEnd
<1>4. Unlisted = {}
  BY <1>2 DEF Init, Unlisted, Frame
<1>5. ASSUME NEW c \in CPU PROVE ListInv(c)
  BY <1>2, <1>3, <1>4 DEF Init, ListInv
<1> QED BY <1>1, <1>5 DEF ListsInv

(* The head that follows frame f leaves f and the frames before it unlisted. *)
LEMMA UnlistNext ==
  ASSUME MemPhyAssumption, free_fp_list \in Frame, free_fp_list' = Linked(free_fp_list, NULL)
  PROVE  Unlisted' = Unlisted \union {free_fp_list} /\ free_fp_list \notin Unlisted
<1>1. NumFrames \in Nat /\ free_fp_list \in 0 .. NumFrames - 1 /\ NULL \notin Frame
  BY DEF MemPhyAssumption, Frame
<1>2. CASE free_fp_list + 1 < NumFrames
  BY <1>1, <1>2 DEF Linked, Unlisted, Frame
<1>3. CASE ~(free_fp_list + 1 < NumFrames)
  BY <1>1, <1>3 DEF Linked, Unlisted, Frame
<1> QED BY <1>2, <1>3

LEMMA ListsStep ==
  ASSUME MemPhyAssumption, OneCpu, ListsInv, [Next]_vars
  PROVE  ListsInv'
<1>1. CountInv'
  BY CountStep DEF ListsInv
<1>2. PICK c : CPU = {c}
  BY DEF OneCpu
<1>3. /\ c \in CPU /\ ListInv(c) /\ TypeOK
      /\ NULL \notin Frame /\ Wild \notin Frame /\ NULL # Wild
      /\ NumFrames \in Nat /\ Frame = 0 .. NumFrames - 1
  BY <1>2 DEF ListsInv, CountInv, MemPhyAssumption, Frame
<1>4. /\ cpc \in [CPU -> CpuPC] /\ fp \in [CPU -> Pointer] /\ fpn \in [CPU -> Frame \union {-1}]
      /\ owner \in [Frame -> SUBSET Proc] /\ caller \in [CPU -> Proc] /\ free_fp_list \in Pointer
  BY <1>3 DEF TypeOK
<1> SUFFICES ListInv(c)'
  BY <1>1, <1>2 DEF ListsInv
<1> USE DEF listVars, Goto
<1>5. CASE UNCHANGED vars
  BY <1>3, <1>5 DEF vars, cpuVars, ListInv, Unlisted
<1>6. CASE (\E q \in Proc, n \in 1 .. MaxRequest : AllocPages(c, q, n)) \/ NextPage(c) \/ GetNone(c)
  <2>1. /\ UNCHANGED <<free_fp_list, fp_next, freed, owner>> /\ cpc'[c] \in {"idle", "loop", "head"}
        /\ cpc[c] \in {"idle", "loop", "head"}
    BY <1>4, <1>6 DEF AllocPages, NextPage, GetNone
  <2> QED BY <1>3, <2>1 DEF ListInv, Unlisted
<1>7. CASE GotFrame(c)
  <2>1. /\ cpc[c] = "got" /\ cpc'[c] = "loop" /\ UNCHANGED <<free_fp_list, fp_next, freed, fpn>>
        /\ owner' = [f \in Frame |-> IF f = fpn[c] THEN owner[f] \union {caller[c]} ELSE owner[f]]
    BY <1>3, <1>4, <1>7 DEF GotFrame
  <2>2. Unlisted' = Unlisted
    BY <2>1 DEF Unlisted
  <2>3. fpn[c] \in Unlisted
    BY <1>3, <2>1 DEF ListInv, Unlisted, Linked
  <2>4. {f \in Frame : owner'[f] # {}} = Unlisted
    BY <1>3, <2>1, <2>3 DEF ListInv
  <2> QED BY <1>3, <2>1, <2>2, <2>4 DEF ListInv
<1>8. CASE GetHead(c)
  <2>1. /\ cpc[c] = "head" /\ free_fp_list # NULL /\ fp'[c] = free_fp_list /\ cpc'[c] = "read"
        /\ UNCHANGED <<free_fp_list, fp_next, freed, owner>>
    BY <1>3, <1>4, <1>8 DEF GetHead
  <2>2. free_fp_list \in Frame
    BY <1>3, <1>4, <2>1 DEF ListInv, Pointer
  <2> QED BY <1>3, <2>1, <2>2 DEF ListInv, Unlisted
<1>9. CASE ReadFpn(c)
  <2>1. /\ cpc[c] = "read" /\ cpc'[c] = "unlink"
        /\ UNCHANGED <<free_fp_list, fp_next, freed, owner, fp>>
    BY <1>3, <1>4, <1>9 DEF ReadFpn
  <2>2. fp[c] = free_fp_list /\ fp[c] \in Frame /\ freed = Unlisted
    BY <1>3, <2>1 DEF ListInv
  <2>3. Intact(c)
    BY <1>3, <2>2 DEF Intact, Unlisted
  <2>4. fpn'[c] = fp[c]
    BY <1>3, <1>4, <1>9, <2>3 DEF ReadFpn
  <2> QED BY <1>3, <2>1, <2>2, <2>4 DEF ListInv, Unlisted
<1>10. CASE Unlink(c)
  <2>1. /\ cpc[c] = "unlink" /\ cpc'[c] = "free" /\ Unlinked(c)
        /\ UNCHANGED <<fp_next, freed, owner, fp, fpn>>
    BY <1>3, <1>4, <1>10 DEF Unlink
  <2>2. /\ fp[c] = free_fp_list /\ fp[c] \in Frame /\ fpn[c] = fp[c] /\ freed = Unlisted
        /\ fp_next = [f \in Frame |-> Linked(f, NULL)]
        /\ {f \in Frame : owner[f] # {}} = Unlisted
    BY <1>3, <2>1 DEF ListInv
  <2>3. Intact(c)
    BY <1>3, <2>2 DEF Intact, Unlisted
  <2>4. free_fp_list' = Linked(free_fp_list, NULL)
    BY <2>1, <2>2, <2>3 DEF Unlinked
  <2>5. Unlisted' = Unlisted \union {fp[c]} /\ fp[c] \notin Unlisted
    BY <2>2, <2>4, UnlistNext
  <2>6. free_fp_list' # Wild
    BY <1>3, <2>2, <2>4 DEF Linked
  <2> QED BY <2>1, <2>2, <2>4, <2>5, <2>6 DEF ListInv
<1>11. CASE FreeNode(c)
  <2>1. /\ cpc[c] = "free" /\ cpc'[c] = "got" /\ freed' = freed \union ({fp[c]} \intersect Frame)
        /\ UNCHANGED <<free_fp_list, fp_next, owner, fp, fpn>>
    BY <1>3, <1>4, <1>11 DEF FreeNode
  <2>2. Unlisted' = Unlisted
    BY <2>1 DEF Unlisted
  <2>3. fpn[c] \in Unlisted
    BY <1>3, <2>1 DEF ListInv, Unlisted, Linked
  <2>4. freed' = Unlisted
    BY <1>3, <2>1, <2>3 DEF ListInv, Unlisted
  <2> QED BY <1>3, <2>1, <2>2, <2>4 DEF ListInv
<1> QED BY <1>2, <1>5, <1>6, <1>7, <1>8, <1>9, <1>10, <1>11 DEF Next, GetFreeFp

(* With one CPU the free list keeps its shape through every removal. *)
THEOREM ListsCorrect ==
  ASSUME OneCpu, NumFrames > 1
  PROVE  Spec => []ListsInv
<1>1. Init => ListsInv
  BY MemPhyAssumption, NumFrames > 1, ListsInit
<1>2. ListsInv /\ [Next]_vars => ListsInv'
  BY MemPhyAssumption, OneCpu, ListsStep
<1> QED BY <1>1, <1>2, PTL DEF Spec

(* With one CPU the list of free frames never leads to a node that was      *)
(* freed (MEMPHY_get_freefp unlinks it first) nor out of the list.          *)
THEOREM ListStaysIntact ==
  ASSUME OneCpu, NumFrames > 1
  PROVE  Spec => []ListIntact
<1>1. ListsInv => ListIntact
  <2> SUFFICES ASSUME ListsInv
               PROVE  ListIntact
    OBVIOUS
  <2>1. PICK c : c \in CPU /\ ListInv(c) /\ TypeOK
    BY OneCpu DEF OneCpu, ListsInv, CountInv
  <2>2. /\ NULL \notin Frame /\ Wild \notin Frame /\ NULL # Wild
        /\ NumFrames \in Nat /\ Frame = 0 .. NumFrames - 1
    BY MemPhyAssumption DEF MemPhyAssumption, Frame
  <2>3. freed \subseteq Unlisted /\ fp_next = [f \in Frame |-> Linked(f, NULL)] /\ free_fp_list # Wild
    BY <2>1 DEF ListInv
  <2>4. free_fp_list \notin freed
    BY <2>2, <2>3 DEF Unlisted
  <2>5. ASSUME NEW f \in Frame \ freed PROVE fp_next[f] \notin freed \union {Wild}
    <3>1. fp_next[f] # Wild
      BY <2>2, <2>3 DEF Linked
    <3>2. CASE f \in Unlisted
      <4>1. cpc[c] = "free" /\ f = fp[c] /\ fpn[c] = fp[c] /\ free_fp_list = Linked(fpn[c], NULL)
        BY <2>1, <3>2 DEF ListInv
      <4> QED BY <2>3, <2>4, <3>1, <4>1
    <3>3. CASE f \notin Unlisted
      <4>1. free_fp_list \in Frame /\ f >= free_fp_list
        BY <2>2, <3>3 DEF Unlisted
      <4>2. fp_next[f] \notin Unlisted
        BY <2>2, <2>3, <4>1 DEF Linked, Unlisted
      <4> QED BY <2>3, <3>1, <4>2
    <3> QED BY <3>2, <3>3
  <2> QED BY <2>3, <2>4, <2>5 DEF ListIntact
<1> QED BY <1>1, ListsCorrect, PTL

(* With one CPU what alloc_pages_range receives is a frame of the device    *)
(* that no process has.                                                     *)
THEOREM FramesFresh ==
  ASSUME OneCpu, NumFrames > 1
  PROVE  Spec => []FreshFrame
<1>1. ListsInv => FreshFrame
  <2> SUFFICES ASSUME ListsInv, NEW c \in CPU, cpc[c] = "got"
               PROVE  fpn[c] \in Frame /\ owner[fpn[c]] = {}
    BY DEF FreshFrame
  <2>1. ListInv(c)
    BY DEF ListsInv
  <2> QED BY <2>1 DEF ListInv
<1> QED BY <1>1, ListsCorrect, PTL

(* With one CPU the list implements FramePool: each frame is handed to one  *)
(* process at most, and a call is refused only when none is left.           *)
THEOREM PoolImplemented ==
  ASSUME OneCpu, NumFrames > 1
  PROVE  Spec => ImplementsPool
<1>1. Init => Pool!Init
  BY DEF Init, Pool!Init
<1>2. ListsInv /\ [Next]_vars => [Pool!Next]_<<owner, refused>>
  <2> SUFFICES ASSUME ListsInv, [Next]_vars
               PROVE  [Pool!Next]_<<owner, refused>>
    OBVIOUS
  <2>1. ASSUME NEW c \in CPU, GotFrame(c) PROVE Pool!Next
    <3>1. /\ ListInv(c) /\ cpc[c] = "got" /\ refused' = refused
          /\ owner' = [f \in Frame |-> IF f = fpn[c] THEN owner[f] \union {caller[c]} ELSE owner[f]]
      BY <2>1 DEF ListsInv, GotFrame
    <3>2. fpn[c] \in Frame /\ owner[fpn[c]] = {}
      BY <3>1 DEF ListInv
    <3>3. owner \in [Frame -> SUBSET Proc] /\ caller[c] \in Proc
      BY DEF ListsInv, CountInv, TypeOK
    <3>4. owner' = [owner EXCEPT ![fpn[c]] = {caller[c]}]
      BY <3>1, <3>2, <3>3
    <3> QED BY <3>1, <3>2, <3>3, <3>4 DEF Pool!Next, Pool!Take
  <2>2. ASSUME NEW c \in CPU, GetNone(c) PROVE Pool!Next
    <3>1. /\ ListInv(c) /\ cpc[c] = "head" /\ free_fp_list = NULL /\ refused' = TRUE /\ owner' = owner
      BY <2>2 DEF ListsInv, GetNone
    <3>2. NULL \notin Frame
      BY MemPhyAssumption DEF MemPhyAssumption, Frame
    <3>3. \A f \in Frame : owner[f] # {}
      BY <3>1, <3>2 DEF ListInv, Unlisted
    <3> QED BY <3>1, <3>3 DEF Pool!Next, Pool!Refuse
  <2>3. ASSUME NEW c \in CPU, NextPage(c) \/ GetHead(c) \/ ReadFpn(c) \/ Unlink(c) \/ FreeNode(c)
        PROVE  UNCHANGED <<owner, refused>>
    BY <2>3 DEF NextPage, GetHead, ReadFpn, Unlink, FreeNode
  <2>4. ASSUME NEW c \in CPU, NEW q \in Proc, NEW n \in 1 .. MaxRequest, AllocPages(c, q, n)
        PROVE  UNCHANGED <<owner, refused>>
    BY <2>4 DEF AllocPages
  <2> QED BY <2>1, <2>2, <2>3, <2>4 DEF Next, GetFreeFp, vars
<1> QED BY <1>1, <1>2, ListsCorrect, PTL DEF Spec, ImplementsPool, Pool!Spec

=============================================================================
