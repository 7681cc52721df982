------------------------------ MODULE MCPfsFile ------------------------------
(***************************************************************************)
(* PfsFile for the model checker.                                           *)
(***************************************************************************)
EXTENDS PfsFile, TLC

\* The handles differ only in name.
Symmetric == Permutations(Handle)
=============================================================================
