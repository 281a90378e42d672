------------------------------ MODULE MCPipeIPC -------------------------------
(***************************************************************************)
(* PipeIPC with a pipe of a few bytes.                                     *)
(***************************************************************************)
EXTENDS PipeIPC
=============================================================================
