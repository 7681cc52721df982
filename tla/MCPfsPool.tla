------------------------------ MODULE MCPfsPool ------------------------------
(* A small instance of PfsPool for TLC. *)
EXTENDS PfsPool

\* The threads cannot all lack their last connection at the same time.
ASSUME FewThreads == Cardinality(Thread) * (BlockConnections - 1) < MaxConnections

=============================================================================
