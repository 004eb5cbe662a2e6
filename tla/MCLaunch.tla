------------------------------ MODULE MCLaunch ------------------------------
(***************************************************************************)
(* The disk of MCProgram, for the callers of load_program.                 *)
(***************************************************************************)
EXTENDS Launch, MCProgram
=============================================================================
