------------------------------- MODULE MemPhy -------------------------------
(***************************************************************************)
(* The free frame list of a memory device (src/mm-memphy.c) and its users: *)
(* CPU threads inside alloc_pages_range (src/mm.c), each collecting frames *)
(* for the process it runs.                                                *)
(*                                                                         *)
(* No lock is held around MEMPHY_get_freefp, so each access to the shared  *)
(* list is a step of its own.  Reading a node that was freed, or a field   *)
(* nobody has written, is undefined behaviour: the read gives anything.    *)
(***************************************************************************)
EXTENDS Integers, FiniteSets

CONSTANTS
  CPU,
  Proc,
  NumFrames,           \* numfp of MEMPHY_format
  MaxRequest,          \* bound: pages asked for in one call
  NULL,
  Wild                 \* a pointer to something that is not a node

ASSUME MemPhyAssumption ==
  /\ NumFrames \in Nat \ {0}
  /\ MaxRequest \in Nat
  /\ NULL \notin Nat /\ Wild \notin Nat /\ NULL # Wild

Frame == 0 .. NumFrames - 1

(* The node MEMPHY_format makes for frame f is named f, as its fpn field.   *)
Pointer == Frame \union {NULL, Wild}

VARIABLES
  free_fp_list,        \* head of the list
  fp_next,             \* fp_next field of each node
  freed,               \* nodes that were given to free
  cpc,                 \* program point of each CPU
  fp,                  \* local fp of MEMPHY_get_freefp
  fpn,                 \* what it has put in *retfpn
  req_pgnum, pgit,     \* locals of alloc_pages_range
  caller,              \* the process the CPU runs
  owner,               \* history: processes each frame was handed to
  refused              \* history: some call found the list empty

listVars == <<free_fp_list, fp_next, freed>>
cpuVars == <<cpc, fp, fpn, req_pgnum, pgit, caller>>
vars == <<listVars, cpuVars, owner, refused>>

CpuPC == {"idle", "loop", "head", "read", "unlink", "free", "got"}

(* A value malloc left in a field nobody has written. *)
FormatEnd == IF NumFrames = 1 THEN {NULL, Wild} ELSE {NULL}

(* Faulty: the list ends one node early. *)
LinkedShort(f, end) == IF f + 2 < NumFrames THEN f + 1 ELSE end
Linked(f, end) == IF f + 1 < NumFrames THEN f + 1 ELSE end

(* MEMPHY_format: a loop that starts with the second node ends every list   *)
(* but that of a single node.                                               *)
Init ==
  /\ free_fp_list = 0
  /\ \E end \in FormatEnd : fp_next = [f \in Frame |-> Linked(f, end)]
  /\ freed = {}
  /\ cpc = [c \in CPU |-> "idle"]
  /\ fp = [c \in CPU |-> NULL]
  /\ fpn = [c \in CPU |-> 0]
  /\ req_pgnum = [c \in CPU |-> 0]
  /\ pgit = [c \in CPU |-> 0]
  /\ caller \in [CPU -> Proc]
  /\ owner = [f \in Frame |-> {}]
  /\ refused = FALSE

Goto(c, label) == cpc' = [cpc EXCEPT ![c] = label]

(* The node c's fp points to can be read. *)
Intact(c) == fp[c] \in Frame \ freed

-----------------------------------------------------------------------------
(* alloc_pages_range *)

AllocPages(c, q, n) ==
  /\ cpc[c] = "idle"
  /\ caller' = [caller EXCEPT ![c] = q]
  /\ req_pgnum' = [req_pgnum EXCEPT ![c] = n]
  /\ pgit' = [pgit EXCEPT ![c] = 0]
  /\ Goto(c, "loop")
  /\ UNCHANGED <<listVars, fp, fpn, owner, refused>>

(* Faulty: one more turn. *)
AnotherPageToo(c) == pgit[c] <= req_pgnum[c]
AnotherPage(c) == pgit[c] < req_pgnum[c]

NextPage(c) ==
  /\ cpc[c] = "loop"
  /\ Goto(c, IF AnotherPage(c) THEN "head" ELSE "idle")
  /\ UNCHANGED <<listVars, fp, fpn, req_pgnum, pgit, caller, owner, refused>>

(* The frame goes to the head of frm_lst. *)
GotFrame(c) ==
  /\ cpc[c] = "got"
  /\ pgit' = [pgit EXCEPT ![c] = @ + 1]
  /\ owner' = [f \in Frame |-> IF f = fpn[c] THEN owner[f] \union {caller[c]} ELSE owner[f]]
  /\ Goto(c, "loop")
  /\ UNCHANGED <<listVars, fp, fpn, req_pgnum, caller, refused>>

-----------------------------------------------------------------------------
(* MEMPHY_get_freefp *)

GetHead(c) ==
  /\ cpc[c] = "head"
  /\ free_fp_list # NULL
  /\ fp' = [fp EXCEPT ![c] = free_fp_list]
  /\ Goto(c, "read")
  /\ UNCHANGED <<listVars, fpn, req_pgnum, pgit, caller, owner, refused>>

(* The list is empty; alloc_pages_range gives up with what it has. *)
GetNone(c) ==
  /\ cpc[c] = "head"
  /\ free_fp_list = NULL
  /\ refused' = TRUE
  /\ Goto(c, "idle")
  /\ UNCHANGED <<listVars, fp, fpn, req_pgnum, pgit, caller, owner>>

ReadFpn(c) ==
  /\ cpc[c] = "read"
  /\ \E value \in IF Intact(c) THEN {fp[c]} ELSE Frame \union {-1} :
       fpn' = [fpn EXCEPT ![c] = value]
  /\ Goto(c, "unlink")
  /\ UNCHANGED <<listVars, fp, req_pgnum, pgit, caller, owner, refused>>

(* mp->free_fp_list = fp->fp_next.  Faulty: it is left as it is. *)
StillLinked(c) == UNCHANGED free_fp_list
Unlinked(c) == free_fp_list' \in IF Intact(c) THEN {fp_next[fp[c]]} ELSE Pointer

Unlink(c) ==
  /\ cpc[c] = "unlink"
  /\ Unlinked(c)
  /\ Goto(c, "free")
  /\ UNCHANGED <<fp_next, freed, fp, fpn, req_pgnum, pgit, caller, owner, refused>>

FreeNode(c) ==
  /\ cpc[c] = "free"
  /\ freed' = freed \union ({fp[c]} \intersect Frame)
  /\ Goto(c, "got")
  /\ UNCHANGED <<free_fp_list, fp_next, fp, fpn, req_pgnum, pgit, caller, owner, refused>>

GetFreeFp(c) == GetHead(c) \/ GetNone(c) \/ ReadFpn(c) \/ Unlink(c) \/ FreeNode(c)

Next == \E c \in CPU :
  \/ \E q \in Proc, n \in 1 .. MaxRequest : AllocPages(c, q, n)
  \/ NextPage(c) \/ GotFrame(c) \/ GetFreeFp(c)

Spec == Init /\ [][Next]_vars

-----------------------------------------------------------------------------
(* Properties. *)

TypeOK ==
  /\ free_fp_list \in Pointer
  /\ fp_next \in [Frame -> Pointer]
  /\ freed \in SUBSET Frame
  /\ cpc \in [CPU -> CpuPC]
  /\ fp \in [CPU -> Pointer]
  /\ fpn \in [CPU -> Frame \union {-1}]
  /\ req_pgnum \in [CPU -> 0 .. MaxRequest]
  /\ pgit \in [CPU -> 0 .. MaxRequest] /\ \A c \in CPU : pgit[c] <= req_pgnum[c]
  /\ caller \in [CPU -> Proc]
  /\ owner \in [Frame -> SUBSET Proc]
  /\ refused \in BOOLEAN

(* What alloc_pages_range receives is a frame of the device that no process *)
(* has yet (libmem.c says of this path "no need lock here", mm-memphy.c     *)
(* that the device is "used up until its exhausted").                       *)
FreshFrame == \A c \in CPU : cpc[c] = "got" => fpn[c] \in Frame /\ owner[fpn[c]] = {}

(* The list of free frames never leads to a node that was freed, nor out of *)
(* the list: MEMPHY_get_freefp unlinks the node before it frees it, and the *)
(* last link is NULL.                                                       *)
ListIntact ==
  /\ free_fp_list \notin freed \union {Wild}
  /\ \A f \in Frame \ freed : fp_next[f] \notin freed \union {Wild}

Pool == INSTANCE FramePool WITH User <- Proc

(* With one CPU the list hands every frame out once, and refuses only when  *)
(* none is left.                                                            *)
ImplementsPool == Pool!Spec

=============================================================================
