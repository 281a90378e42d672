----------------------------- MODULE MCNamespace ------------------------------
(***************************************************************************)
(* Namespace with two names, a few inodes and a short table of open files. *)
(***************************************************************************)
EXTENDS Namespace
=============================================================================
