----------------------------- MODULE MCFileBlocks -----------------------------
(***************************************************************************)
(* FileBlocks on a disk with few blocks and a short index, so that files   *)
(* reach the second index level and the disk fills up.                     *)
(***************************************************************************)
EXTENDS FileBlocks
=============================================================================
