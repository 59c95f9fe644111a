------------------------------- MODULE Paging -------------------------------
(***************************************************************************)
(* Reading and writing through the page table: libread and libwrite of     *)
(* src/libmem.c over the allocator of VmRegion, with pg_getpage and its    *)
(* swapping (src/mm.c, src/sys_mem.c, src/mm-memphy.c).                    *)
(*                                                                         *)
(* Of the data one value matters, the mark: the program writes it to one   *)
(* byte of one register, and to another only when that region is gone.     *)
(* The devices are the sets of cells that hold the mark.                   *)
(*                                                                         *)
(* A program may read and write anywhere: libread and libwrite ask neither *)
(* whether the register was allocated nor where its region ends.  What     *)
(* that does to the page table stays in the model; the mark is followed    *)
(* until the first such access, or the first free of what the program does *)
(* not hold, since nothing is claimed of the data from then on.            *)
(***************************************************************************)
EXTENDS VmRegion

CONSTANTS
  SwpFrames,           \* frames of the active swap device
  StaleFpn,            \* frame numbers in the bits of an entry never set
  StalePresent         \* those among them that come with the present bit

ASSUME PagingAssumption ==
  /\ SwpFrames \in Nat \ {0}
  /\ StaleFpn \subseteq Nat /\ StaleFpn # {}
  /\ StalePresent \subseteq StaleFpn

VARIABLES
  mram, mswp,          \* cells of RAM and of swap that hold the mark
  swp_free_fp_list,    \* free frames of the swap device, head first
  mark                 \* history: <<register, offset>> marked, or NoMark

swapVars == <<mram, mswp, swp_free_fp_list>>
pagingVars == <<vars, swapVars, mark>>

NoMark == <<>>

PagingInit ==
  /\ Init
  /\ mram = {}
  /\ mswp = {}
  /\ swp_free_fp_list = [k \in 1 .. SwpFrames |-> k - 1]
  /\ mark = NoMark

-----------------------------------------------------------------------------
(* Allocation, and the other processes. *)

(* The mark, and the cells of RAM with it, as long as it is followed. *)
Follow(m, ram) ==
  /\ mark' = IF misuse' = {} THEN m ELSE NoMark
  /\ mram' = IF mark' = NoMark THEN {} ELSE ram

(* The region of a register changes: what was written there is no longer    *)
(* expected.                                                                *)
Forget(r) ==
  /\ Follow(IF mark # NoMark /\ mark[1] = r THEN NoMark ELSE mark, mram)
  /\ mswp' = IF mark' = NoMark THEN {} ELSE mswp

AllocRegion(r, size) ==
  /\ Alloc(r, size)
  /\ Forget(r)
  /\ UNCHANGED swp_free_fp_list

FreeRegion(r) ==
  /\ Free(r)
  /\ Forget(r)
  /\ UNCHANGED swp_free_fp_list

Increase(size) == SysIncrease(size) /\ UNCHANGED <<swapVars, mark>>

OtherGetsFrame == OtherTakesFrame /\ UNCHANGED <<swapVars, mark>>

Cells(f) == {f * PAGESZ + k : k \in 0 .. PAGESZ - 1}

(* Another process writes to a frame.  One that keeps to its regions writes *)
(* to those that it was given; one that does not can be led to any.         *)
OtherWrites(f) ==
  /\ misuse' = IF f \in others THEN misuse ELSE misuse \union {"strayed"}
  /\ Follow(mark, mram \ Cells(f))
  /\ UNCHANGED <<mmVars, free_fp_list, live, freed, others, mswp, swp_free_fp_list>>

-----------------------------------------------------------------------------
(* Page table entries.  pte_set_swap sets the present bit as well, so a     *)
(* page that was swapped out looks present, and its swap offset lies in the *)
(* bits that PAGING_FPN reads.                                              *)
Present(p) == pgd[p] # NoFrame

SwappedFpn(swpfpn) == (swpfpn * 32) % 8192

(* PAGING_PTE_FPN of any entry: malloc leaves anything in one never set. *)
FpnBits(p) == IF Present(p) THEN {pgd[p]} ELSE StaleFpn

(* find_victim_page takes the oldest page of the list; without one it sets  *)
(* no page, and the caller does not look.                                   *)
Victims == IF fifo_pgn = <<>> THEN Page ELSE {Last(fifo_pgn)}

(* The same with a frame of the swap device. *)
SwapFrames ==
  IF swp_free_fp_list = <<>> THEN 0 .. SwpFrames - 1 ELSE {Head(swp_free_fp_list)}

AllButLast(list) == SubSeq(list, 1, Len(list) - 1)

(* __swap_cp_page: the mark goes with the cells that are copied. *)
Copied(from, src, to, dst) ==
  (to \ Cells(dst)) \union {c + (dst - src) * PAGESZ : c \in from \intersect Cells(src)}

(* __mm_swap_page always copies from RAM to swap. *)
SwappedPage(swp, vicfpn, swpfpn) == Copied(mram, vicfpn, swp, swpfpn)

(* pg_getpage of a page that is not present, when vicpgn is the victim: its *)
(* frame vicfpn is copied to frame swpfpn of the swap device and given to   *)
(* the page.  The second copy has frame tgtfpn of RAM for its source and    *)
(* frame vicfpn of swap for its destination; nothing comes back from swap.  *)
SwapIn(p, vicpgn, vicfpn, tgtfpn, swpfpn) ==
  /\ mswp' = SwappedPage(SwappedPage(mswp, vicfpn, swpfpn), tgtfpn, vicfpn)
  /\ pgd' = [pgd EXCEPT ![vicpgn] = SwappedFpn(swpfpn), ![p] = vicfpn]
  /\ fifo_pgn' = Enlisted(IF fifo_pgn = <<>> THEN <<>> ELSE AllButLast(fifo_pgn), p)
  /\ swp_free_fp_list' = IF swp_free_fp_list = <<>> THEN <<>> ELSE Tail(swp_free_fp_list)

(* The entry of p is read as present, which one never set may be too: what  *)
(* malloc left in it is found out now.                                      *)
FoundPresent(p) ==
  /\ IF Present(p)
     THEN UNCHANGED pgd
     ELSE \E fpn \in StalePresent : pgd' = [pgd EXCEPT ![p] = fpn]
  /\ UNCHANGED <<mswp, fifo_pgn, swp_free_fp_list>>

GetPage(p) ==
  \/ FoundPresent(p)
  \/ /\ ~Present(p)
     /\ \E vicpgn \in Victims, tgtfpn \in FpnBits(p), swpfpn \in SwapFrames :
          \E vicfpn \in FpnBits(vicpgn) : SwapIn(p, vicpgn, vicfpn, tgtfpn, swpfpn)

-----------------------------------------------------------------------------
(* __read and __write: the address of a byte of a region, and the cell of   *)
(* RAM it has once its page has been got.  Faulty: the offset in the page   *)
(* is left out.                                                             *)
VirtualAddr(r, off) == symrgtbl[r][1] + off
PageOf(addr) == (addr \div PAGESZ) % MAX_PGN

PageStart(table, addr) == table[PageOf(addr)] * PAGESZ
Cell(table, addr) == table[PageOf(addr)] * PAGESZ + (addr % PAGESZ)

(* What a program may access; nothing in the code asks. *)
InRegion(r, off) == r \in live /\ VirtualAddr(r, off) < symrgtbl[r][2]

Access(r, off) ==
  /\ GetPage(PageOf(VirtualAddr(r, off)))
  /\ misuse' = IF InRegion(r, off) THEN misuse ELSE misuse \union {"strayed"}
  /\ UNCHANGED <<symrgtbl, vm_freerg_list, sbrk, vm_end, free_fp_list, live, freed, others>>

Read(r, off) ==
  /\ Access(r, off)
  /\ Follow(mark, mram)

(* Operation SYSMEM_IO_WRITE of __sys_memmap; pg_setval writes the same byte *)
(* a second time itself.                                                    *)
Written(ram, cell, isMark) == IF isMark THEN ram \union {cell} ELSE ram \ {cell}

(* The program writes the mark, to one byte of a region at a time. *)
WriteMark(r, off) ==
  /\ mark \in {NoMark, <<r, off>>}
  /\ Access(r, off)
  /\ Follow(<<r, off>>, Written(mram, Cell(pgd', VirtualAddr(r, off)), TRUE))

(* The program writes something else, to another byte. *)
Write(r, off) ==
  /\ <<r, off>> # mark
  /\ Access(r, off)
  /\ Follow(mark, Written(mram, Cell(pgd', VirtualAddr(r, off)), FALSE))

Offset == UNION {0 .. size - 1 : size \in Size}

(* CALC, and the system calls that print or do not exist. *)
NoEffect == UNCHANGED pagingVars

(* One instruction of the program; what a READ returns is not kept, since   *)
(* libread is given a field of run's copy of the instruction to put it in.  *)
Run ==
  \/ \E r \in Reg, size \in Size : AllocRegion(r, size)
  \/ \E r \in Reg : FreeRegion(r)
  \/ \E r \in Reg, off \in Offset : Read(r, off) \/ WriteMark(r, off) \/ Write(r, off)
  \/ \E size \in Size : Increase(size)
  \/ NoEffect

PagingNext ==
  \/ Run
  \/ OtherGetsFrame
  \/ \E f \in Frame : OtherWrites(f)

PagingSpec == PagingInit /\ [][PagingNext]_pagingVars

-----------------------------------------------------------------------------
(* Properties. *)

(* What a program wrote last to a byte of a region it holds is what it      *)
(* reads there, whatever it and other processes allocate, free and write in *)
(* between, as long as all of them keep to their regions and free them once *)
(* (libmem.c: pg_getval gets "the page to MEMRAM, swap from MEMSWAP if      *)
(* needed").                                                                *)
ReadsLastWrite ==
  misuse = {} /\ mark # NoMark => Cell(pgd, VirtualAddr(mark[1], mark[2])) \in mram

=============================================================================
