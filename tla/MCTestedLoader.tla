--------------------------- MODULE MCTestedLoader ---------------------------
(***************************************************************************)
(* The images of MCLoader, in the address space of the tests.              *)
(***************************************************************************)
EXTENDS TestedLoader, MCLoader
=============================================================================
