------------------------------ MODULE MCOpenFiles ------------------------------
(* One file that grows through the direct block and both levels of index     *)
(* blocks, with pointers inside, at the end and outside of it.               *)
EXTENDS OpenFiles
=============================================================================
