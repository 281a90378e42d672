------------------------------ MODULE MCFreeList ------------------------------
(***************************************************************************)
(* FreeList on a small disk.  MCFreeList.cfg asks for single blocks, as    *)
(* every caller in file.c does; MCFreeListSizes.cfg also asks for two at a *)
(* time, which the interface of allocate_block admits.                     *)
(***************************************************************************)
EXTENDS FreeList
=============================================================================
