----------------------------- MODULE MCGrageRaid -----------------------------
(* Small instances of GrageRaid for TLC. *)
EXTENDS GrageRaid, TLC

CONSTANTS s1, s2, s3, c1, c2

Trio == <<s1, s2, s3>>
Pair == <<s1, s2>>
Single == <<s1>>
DistinctIds == [s \in Storage |-> CASE s = s1 -> 1 [] s = s2 -> 2 [] OTHER -> 3]

\* No action tells one PFS connection from another.
SocketSymmetry == Permutations(Socket)

\* Nor one sector from another.  Of two reads by two connections it is enough
\* that this one asks for the first sector, and the other for any; two reads by
\* one connection, of any sectors, are met on the other.
FirstAsksFirst == waiting[c1] \in {0, 1}

=============================================================================
