----------------------------- MODULE DiskService -----------------------------
(***************************************************************************)
(* What a disk process promises to those that send it jobs, whatever its   *)
(* planifier does: a set of jobs waits, and they are served one by one, the *)
(* jobs a client sends for one sector in the order it sent them.  A job     *)
(* that arrives when three others wait may go before older ones, and one    *)
(* that arrives when two others wait may make the disk lose some of them.   *)
(***************************************************************************)
EXTENDS Naturals, FiniteSets

CONSTANT
    Sector       \* sectors of the disk

VARIABLES
    waiting,     \* jobs accepted and not served
    loose,       \* the jobs, by their ids, that found three others waiting
    volume,      \* contents of the sectors
    answers      \* answers sent, each with its job and the value read

vars == <<waiting, loose, volume, answers>>

Init ==
    /\ waiting = {}
    /\ loose = {}
    /\ volume = [s \in Sector |-> 0]
    /\ answers = {}

\* The jobs of a client are numbered in the order in which it sends them.
Accept(job) ==
    /\ \A other \in waiting : other.client = job.client => other.id < job.id
    /\ \E gone \in SUBSET waiting :
          /\ gone # {} => Cardinality(waiting) >= 2
          /\ waiting' = (waiting \ gone) \cup {job}
    /\ loose' = IF Cardinality(waiting) >= 3 THEN loose \cup {job.id} ELSE loose
    /\ UNCHANGED <<volume, answers>>

FirstOfItsSector(job) ==
    \A other \in waiting :
        other.client = job.client /\ other.sector = job.sector => other.id >= job.id

Serve(job) ==
    /\ job \in waiting
    /\ job.id \in loose \/ FirstOfItsSector(job)
    /\ waiting' = waiting \ {job}
    /\ \/ /\ job.op = "put"
          /\ volume' = [volume EXCEPT ![job.sector] = job.id]
          /\ UNCHANGED answers
       \/ /\ job.op = "get"
          /\ answers' = answers \cup
                 {[id |-> job.id, client |-> job.client, value |-> volume[job.sector]]}
          /\ UNCHANGED volume
       \/ job.op = "trace" /\ UNCHANGED <<volume, answers>>
    /\ UNCHANGED loose

Next ==
    \/ \E job \in waiting' \ waiting : Accept(job)
    \/ \E job \in waiting : Serve(job)

Spec == Init /\ [][Next]_vars
=============================================================================
