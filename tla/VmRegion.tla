------------------------------ MODULE VmRegion ------------------------------
(***************************************************************************)
(* The virtual memory of one process: liballoc and libfree of src/libmem.c *)
(* down through syscall 17 (src/sys_mem.c) to inc_vma_limit                *)
(* (src/mm-vm.c), vm_map_ram (src/mm.c) and the frames of src/mm-memphy.c. *)
(*                                                                         *)
(* The simulator has one CPU here, so that a library call is one step: the *)
(* frames of RAM are shared with the other processes, and the list of free *)
(* frames has no lock.  The others take frames between the steps.  MemPhy  *)
(* is the list with more CPUs.  A region is a pair of its first address    *)
(* and the first address after it, as in vm_rg_struct.  Paging adds the    *)
(* accesses and the specification.                                         *)
(***************************************************************************)
EXTENDS Integers, Sequences, SequencesExt, FiniteSetsExt, Functions

CONSTANTS
  CPU,                 \* the CPUs of the configuration
  Reg,                 \* the symbol table's indices, 0..29 in the build
  Size,                \* sizes a program asks for
  PAGESZ,              \* PAGING_PAGESZ, 256 in the build
  MAX_PGN,             \* PAGING_MAX_PGN, entries of pgd, 2^14 in the build
  NumFrames,           \* frames of MEMRAM
  FpnRange,            \* frame numbers an entry can hold, 2^13 in the build
  MaxBrk,              \* bound: no call that may move sbrk further is made
  MaxRegions,          \* bound: no call is made with more nodes in the free list
  OtherFrames,         \* bound: frames the other processes may take
  Garbage,             \* regions an entry of symrgtbl may hold before it is set
  NoFrame              \* pgd entry without the present bit

(* Two CPUs in MEMPHY_get_freefp can be given one frame. *)
ASSUME OneCpu == Cardinality(CPU) = 1

ASSUME VmAssumption ==
  /\ PAGESZ \in Nat \ {0} /\ MAX_PGN \in Nat /\ MaxBrk \div PAGESZ < MAX_PGN
  /\ NumFrames \in Nat /\ MaxBrk \in Nat /\ MaxRegions \in Nat /\ OtherFrames \in Nat
  /\ Size \subseteq Nat
  /\ FpnRange \in Nat /\ NumFrames <= FpnRange /\ FpnRange > 0
  /\ Garbage \subseteq Nat \X Nat
  /\ NoFrame \notin Nat

VARIABLES
  symrgtbl,            \* the region of each register
  vm_freerg_list,      \* free regions, head first
  sbrk, vm_end,        \* break and end of vma0
  pgd,                 \* the frame number in each page's entry
  fifo_pgn,            \* pages for replacement, newest first
  free_fp_list,        \* free frames of MEMRAM, head first
  live,                \* history: registers allocated and not freed since
  freed,               \* history: registers freed and not allocated since
  misuse,              \* history: what programs did beyond their regions
  others               \* history: frames other processes took

mmVars == <<symrgtbl, vm_freerg_list, sbrk, vm_end, pgd, fifo_pgn>>
history == <<live, freed, misuse>>
vars == <<mmVars, free_fp_list, history, others>>

(* A region freed again; one freed that was never allocated; an access, of  *)
(* this or another process, that is not to a region allocated then.         *)
Misuse == {"freedAgain", "freedUnset", "strayed"}

Page == 0 .. MAX_PGN - 1
Frame == 0 .. NumFrames - 1

(* The frames MEMPHY_format lists.  Faulty: counted from one. *)
FormattedFromOne == [k \in 1 .. NumFrames |-> k]
Formatted == [k \in 1 .. NumFrames |-> k - 1]

(* init_mm leaves symrgtbl as malloc returned it. *)
Init ==
  /\ symrgtbl \in [Reg -> Garbage]
  /\ vm_freerg_list = <<<<0, 0>>>>
  /\ sbrk = 0
  /\ vm_end = 0
  /\ pgd = [p \in Page |-> NoFrame]
  /\ fifo_pgn = <<>>
  /\ free_fp_list = Formatted
  /\ live = {}
  /\ freed = {}
  /\ misuse = {}
  /\ others = {}

-----------------------------------------------------------------------------
(* PAGING_PAGE_ALIGNSZ. *)
Align(size) == ((size + PAGESZ - 1) \div PAGESZ) * PAGESZ

(* Positions of the free regions that are long enough; get_free_vmrg_area   *)
(* takes the first.  Faulty: one address is missing.                        *)
NearlyFits(list, size) == {k \in DOMAIN list : list[k][2] - list[k][1] >= size - 1}
Fits(list, size) == {k \in DOMAIN list : list[k][2] - list[k][1] >= size}

(* What is left of a free region after size addresses were taken from it.   *)
(* Faulty: all of it.                                                       *)
Unshrunk(region, size) == region
Shrunk(region, size) == <<region[1] + size, region[2]>>

(* The region get_free_vmrg_area returns from list, and the list it leaves. *)
Carved(list, size) == LET start == list[Min(Fits(list, size))][1] IN <<start, start + size>>
CarvedFrom(list, size) == [list EXCEPT ![Min(Fits(list, size))] = Shrunk(@, size)]

(* alloc_pages_range gives the frames in the opposite order to that it got  *)
(* them in; vmap_page_range maps consecutive pages to them.  Faulty: all to  *)
(* the first of them; the last page is left out.                            *)
Frames(n) == Reverse(SubSeq(free_fp_list, 1, n))

PageIndex(p) == p - vm_end \div PAGESZ + 1

(* What pte_set_fpn keeps of a frame number. *)
SetFpn(fpn) == fpn % FpnRange

MappedToFirst(n) ==
  [p \in Page |-> IF PageIndex(p) \in 1 .. n THEN SetFpn(Frames(n)[1]) ELSE pgd[p]]
MappedButLast(n) ==
  [p \in Page |-> IF PageIndex(p) \in 1 .. n - 1 THEN SetFpn(Frames(n)[PageIndex(p)]) ELSE pgd[p]]
Mapped(n) ==
  [p \in Page |-> IF PageIndex(p) \in 1 .. n THEN SetFpn(Frames(n)[PageIndex(p)]) ELSE pgd[p]]

(* enlist_vm_rg_node and enlist_pgn_node. *)
Enlisted(list, node) == <<node>> \o list

EnoughFrames(n) == n <= Len(free_fp_list)

(* vm_map_ram of n pages from vm_end.  Without enough frames those there are *)
(* have been taken when it gives up.                                        *)
VmMapRam(n) ==
  IF EnoughFrames(n)
  THEN /\ pgd' = Mapped(n)
       /\ fifo_pgn' = Enlisted(fifo_pgn, vm_end \div PAGESZ + n)
       /\ free_fp_list' = SubSeq(free_fp_list, n + 1, Len(free_fp_list))
  ELSE /\ free_fp_list' = <<>>
       /\ UNCHANGED <<pgd, fifo_pgn>>

(* inc_vma_limit by n pages.  If it cannot map them break and end are set    *)
(* back, and the error goes nowhere: __sys_memmap returns 0.                *)
IncVmaLimit(n) ==
  /\ VmMapRam(n)
  /\ vm_end' = IF EnoughFrames(n) THEN sbrk + n * PAGESZ ELSE vm_end
  /\ sbrk' = vm_end'

(* __alloc names the region it got in the symbol table. *)
Named(r, region) ==
  /\ symrgtbl' = [symrgtbl EXCEPT ![r] = region]
  /\ live' = live \union {r}
  /\ freed' = freed \ {r}
  /\ UNCHANGED misuse

(* __alloc finds a free region. *)
AllocFree(r, size) ==
  /\ Fits(vm_freerg_list, size) # {}
  /\ Named(r, Carved(vm_freerg_list, size))
  /\ vm_freerg_list' = CarvedFrom(vm_freerg_list, size)
  /\ UNCHANGED <<sbrk, vm_end, pgd, fifo_pgn, free_fp_list, others>>

(* __alloc moves the break, and takes the region from what it gained. *)
AllocGrow(r, size) ==
  /\ Fits(vm_freerg_list, size) = {}
  /\ Len(vm_freerg_list) < MaxRegions
  /\ sbrk + Align(size) <= MaxBrk
  /\ IncVmaLimit(Align(size) \div PAGESZ)
  /\ LET list == Enlisted(vm_freerg_list, <<sbrk, sbrk + Align(size)>>)
     IN  IF Fits(list, size) = {}
         THEN /\ vm_freerg_list' = list
              /\ UNCHANGED <<symrgtbl, history>>
         ELSE /\ vm_freerg_list' = CarvedFrom(list, size)
              /\ Named(r, Carved(list, size))
  /\ UNCHANGED others

(* __free refuses a region that ends before it starts, or is empty. *)
Freeable(r) == symrgtbl[r][1] < symrgtbl[r][2]

Misfreed(r) ==
  IF ~Freeable(r) \/ r \in live THEN {} ELSE IF r \in freed THEN {"freedAgain"} ELSE {"freedUnset"}

(* __free does not ask whether the register was allocated, and leaves the   *)
(* symbol table as it is.  So the region of one that was freed before is    *)
(* enlisted again, though an allocation may have split it or given it to    *)
(* another register since; and of one that never was allocated what malloc  *)
(* left in symrgtbl.                                                        *)
Free(r) ==
  /\ Len(vm_freerg_list) < MaxRegions
  /\ vm_freerg_list' = IF Freeable(r) THEN Enlisted(vm_freerg_list, symrgtbl[r]) ELSE vm_freerg_list
  /\ live' = live \ {r}
  /\ freed' = freed \union ({r} \intersect live)
  /\ misuse' = misuse \union Misfreed(r)
  /\ UNCHANGED <<symrgtbl, sbrk, vm_end, pgd, fifo_pgn, free_fp_list, others>>

(* Another process gets a frame for a page of its own. *)
OtherTakesFrame ==
  /\ free_fp_list # <<>>
  /\ Cardinality(others) < OtherFrames
  /\ others' = others \union {Head(free_fp_list)}
  /\ free_fp_list' = Tail(free_fp_list)
  /\ UNCHANGED <<mmVars, history>>

(* The program calls memmap itself, with SYSMEM_INC_OP: the break moves and *)
(* no register names what it passes.  Bound: not by nothing, for which each *)
(* call adds a page to fifo_pgn.                                            *)
SysIncrease(size) ==
  /\ size > 0
  /\ sbrk + Align(size) <= MaxBrk
  /\ IncVmaLimit(Align(size) \div PAGESZ)
  /\ UNCHANGED <<symrgtbl, vm_freerg_list, history, others>>

Alloc(r, size) == AllocFree(r, size) \/ AllocGrow(r, size)

-----------------------------------------------------------------------------
(* Properties. *)

TypeOK ==
  /\ symrgtbl \in [Reg -> Nat \X Nat]
  /\ vm_freerg_list \in Seq(Nat \X Nat)
  /\ sbrk \in 0 .. MaxBrk
  /\ vm_end \in 0 .. MaxBrk
  /\ pgd \in [Page -> Nat \union {NoFrame}]
  /\ fifo_pgn \in Seq(Page)
  /\ free_fp_list \in Seq(Frame)
  /\ live \subseteq Reg
  /\ freed \subseteq Reg \ live
  /\ misuse \subseteq Misuse
  /\ others \subseteq Frame

Addresses(region) == region[1] .. region[2] - 1

(* The program freed only what it had allocated, and that once. *)
FreesOnce == misuse \intersect {"freedAgain", "freedUnset"} = {}

(* No page was asked for that the program has not allocated. *)
KeepsToRegions == misuse \intersect {"freedUnset", "strayed"} = {}

(* The free regions and the regions that registers name never overlap, and  *)
(* all of them lie below the break, as long as the program frees what it    *)
(* has allocated, once: first fit splits regions and __free returns them,   *)
(* in any order, without making an address available twice, and no access,  *)
(* wherever it goes, changes that.                                          *)
RegionsApart == FreesOnce =>
  /\ \A r, s \in live : r # s => Addresses(symrgtbl[r]) \intersect Addresses(symrgtbl[s]) = {}
  /\ \A j, k \in DOMAIN vm_freerg_list : j # k =>
       Addresses(vm_freerg_list[j]) \intersect Addresses(vm_freerg_list[k]) = {}
  /\ \A r \in live, k \in DOMAIN vm_freerg_list :
       Addresses(symrgtbl[r]) \intersect Addresses(vm_freerg_list[k]) = {}
  /\ \A r \in live : Addresses(symrgtbl[r]) \subseteq 0 .. sbrk - 1
  /\ \A k \in DOMAIN vm_freerg_list : Addresses(vm_freerg_list[k]) \subseteq 0 .. sbrk - 1

(* Every address of a region a register names is on a page whose entry was  *)
(* set (libmem.c: __alloc asks to "increase limit to get space"), also when *)
(* the program frees twice or accesses what is not its own.  Only the free  *)
(* of a register that was never allocated forfeits it.                      *)
LiveIsMapped == "freedUnset" \notin misuse =>
  \A r \in live : \A a \in Addresses(symrgtbl[r]) : pgd[a \div PAGESZ] # NoFrame

(* With one CPU no frame has two users, a page of this process, another     *)
(* process, or the list of free frames, unless the program accessed memory  *)
(* it had not allocated, for which pg_getpage may take a frame from any     *)
(* page.  Whatever it did, no frame is handed out twice.                    *)
FramesApart ==
  /\ Range(free_fp_list) \intersect others = {}
  /\ KeepsToRegions =>
       /\ \A p, q \in Page : p # q /\ pgd[p] # NoFrame => pgd[p] # pgd[q]
       /\ \A p \in Page : pgd[p] \notin others \union Range(free_fp_list)

(* And none is without one: it is free, mapped, or another process's.       *)
NoFrameLost == KeepsToRegions =>
  Frame = Range(free_fp_list) \union others \union (Range(pgd) \ {NoFrame})

Extent == [r \in Reg |-> IF FreesOnce /\ r \in live THEN Addresses(symrgtbl[r]) ELSE {}]

RA == INSTANCE Allocator WITH extent <- Extent, Addr <- 0 .. MaxBrk, careful <- FreesOnce

(* The free list, the break and the symbol table implement the allocator    *)
(* for a program that frees once what it has allocated: what a register     *)
(* names is its own.                                                        *)
ImplementsAllocator == RA!Spec

=============================================================================
