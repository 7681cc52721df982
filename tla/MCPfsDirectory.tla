--------------------------- MODULE MCPfsDirectory ---------------------------
(***************************************************************************)
(* PfsDirectory for the model checker.                                      *)
(***************************************************************************)
EXTENDS PfsDirectory
CONSTANTS a, b

\* Two names of the root, one of which may be a directory with two names.
Paths2 == { <<a>>, <<b>>, <<a, a>>, <<a, b>> }

\* A blank volume; one with a label; one whose root fills its first block.
Roots == { [label |-> 0, pairs |-> 0, clusters |-> 1],
           [label |-> 1, pairs |-> 0, clusters |-> 1],
           [label |-> 0, pairs |-> 3, clusters |-> 2] }

\* The threads differ only in name.
Symmetric == Permutations(Thread)
=============================================================================
