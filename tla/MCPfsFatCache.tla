--------------------------- MODULE MCPfsFatCache ---------------------------
(***************************************************************************)
(* PfsFatCache for the model checker.                                       *)
(***************************************************************************)
EXTENDS PfsFatCache

\* The threads differ only in name, and so do the sectors.
Symmetric == Permutations(Thread) \cup Permutations(Sector)
=============================================================================
