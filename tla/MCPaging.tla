------------------------------ MODULE MCPaging ------------------------------
(* Finite instances of Paging, and of VmRegion, which it extends: pages of  *)
(* two addresses, registers that start with a region of their own or none.  *)
EXTENDS Paging

GarbageNone == {<<0, 0>>}
GarbageSome == {<<0, 0>>, <<1, 3>>}
=============================================================================
