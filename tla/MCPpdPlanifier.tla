--------------------------- MODULE MCPpdPlanifier ---------------------------
(* Instances of PpdPlanifier for TLC. *)
EXTENDS PpdPlanifier

\* A trace to 4 moves the head from next to 1 to next to 4, turning over the
\* end of a track; one to 9 is out of the disk.
Sectors == {1, 4}
Traced == {4, 9}
=============================================================================
