---------------------------- MODULE MCMessageQueue ----------------------------
(***************************************************************************)
(* MessageQueue with a queue of two messages and a handful of lines typed. *)
(***************************************************************************)
EXTENDS MessageQueue
=============================================================================
