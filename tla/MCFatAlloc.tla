----------------------------- MODULE MCFatAlloc -----------------------------
(***************************************************************************)
(* FatAlloc for the model checker.                                          *)
(***************************************************************************)
EXTENDS FatAlloc, TLC

\* The threads differ only in name, and so do the files.
Symmetric == Permutations(Thread) \cup Permutations(File)
=============================================================================
