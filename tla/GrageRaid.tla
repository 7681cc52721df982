------------------------------ MODULE GrageRaid ------------------------------
(***************************************************************************)
(* The storage side of the system put together: PFS connections, the RAID  *)
(* process and the disk processes.                                         *)
(***************************************************************************)
EXTENDS PpdNode

VARIABLES
    waiting,   \* the sector each PFS connection waits for, 0 for none
    lastPut,   \* history: the last value PFS wrote to each sector
    gets, puts \* requests issued so far

clientVars == <<waiting, lastPut, gets, puts>>
vars == <<praidVars, networkVars, ppdStatus, nodeVars, deaths, clientVars>>

InitClient ==
    /\ waiting = [c \in Socket |-> 0]
    /\ lastPut = [x \in Sector |-> 0]
    /\ gets = 0
    /\ puts = 0

\* The thread that holds a pooled connection sends a read on it and waits for
\* the answer (pfs_endpoint_buildAndSendGet).
ClientGet(c, x) ==
    /\ worker[c].pc # "off"
    /\ waiting[c] = 0
    /\ gets < MaxGets
    /\ gets' = gets + 1
    /\ waiting' = [waiting EXCEPT ![c] = x]
    /\ requests' = [requests EXCEPT ![c] =
           Append(@, [op |-> "get", socket |-> c, sector |-> x, value |-> 0])]
    /\ UNCHANGED <<praidVars, toPpd, fromPpd, replies, ppdStatus, nodeVars, deaths,
                   lastPut, puts>>

\* A write is sent and not answered (pfs_endpoint_bulidAndSendPut).
ClientPut(c, x) ==
    /\ worker[c].pc # "off"
    /\ waiting[c] = 0
    /\ puts < MaxPuts
    /\ puts' = puts + 1
    /\ lastPut' = [lastPut EXCEPT ![x] = puts + 1]
    /\ requests' = [requests EXCEPT ![c] =
           Append(@, [op |-> "put", socket |-> c, sector |-> x, value |-> puts + 1])]
    /\ UNCHANGED <<praidVars, toPpd, fromPpd, replies, ppdStatus, nodeVars, deaths,
                   waiting, gets>>

\* The next message on the connection is taken for the answer.
ClientReceive(c) ==
    /\ waiting[c] # 0
    /\ replies[c] # <<>>
    /\ replies' = [replies EXCEPT ![c] = Tail(@)]
    /\ waiting' = [waiting EXCEPT ![c] = 0]
    /\ UNCHANGED <<praidVars, toPpd, fromPpd, requests, ppdStatus, nodeVars, deaths,
                   lastPut, gets, puts>>

Init == InitPraid /\ InitNode /\ InitClient

\* Time, for the assumption on sleep(3): every write still on its way to the
\* master, or in the hand of a thread that is about to queue it there, is also
\* queued for the PPD that is about to be replicated.
Puts(queue) == { m \in ToSet(queue) : m.op = "put" }
PutsInHand(s) ==
    { worker[c].job : c \in { c \in Socket : worker[c].pc = "put" /\ worker[c].cursor = s } }

Drained ==
    LET master == acceptor.master
    IN PutsInHand(master) \cup Puts(pending[master]) \cup Puts(toPpd[master])
           \cup Puts(jobs[master]) \subseteq Puts(pending[acceptor.destiny])

PraidStep ==
    /\ \/ Acceptor(Drained)
       \/ \E c \in Socket : Worker(c)
       \/ \E s \in Storage : Sender(s) \/ Listener(s)
    /\ UNCHANGED <<nodeVars, deaths, clientVars>>

NodeStep ==
    /\ \E s \in Storage : Node(s) \/ NodeLosesJob(s) \/ NodeDies(s)
    /\ UNCHANGED clientVars

ClientStep ==
    \E c \in Socket :
        \/ \E x \in Sector : ClientGet(c, x) \/ ClientPut(c, x)
        \/ ClientReceive(c)

Next == up /\ (PraidStep \/ NodeStep \/ ClientStep)

Spec == Init /\ [][Next]_vars

\* Every thread and every process keeps running and every message in transit
\* is delivered.  New PPDs, new requests, losses and crashes are never owed.
PraidRuns(Step) == up /\ Step /\ UNCHANGED <<nodeVars, deaths, clientVars>>

AcceptorRuns == PraidRuns(AddPpd \/ ValidateReplication \/ StartReplication(Drained)
                            \/ FireSynchronization)
WorkerRuns(c) == PraidRuns(Worker(c))
SenderRuns(s) == PraidRuns(Sender(s))
ListenerRuns(s) == PraidRuns(Listener(s))
NodeRuns(s) == up /\ Node(s) /\ UNCHANGED clientVars
ClientRuns(c) == up /\ ClientReceive(c)

Fairness ==
    /\ WF_vars(AcceptorRuns)
    /\ \A c \in Socket : WF_vars(WorkerRuns(c)) /\ WF_vars(ClientRuns(c))
    /\ \A s \in Storage :
          WF_vars(SenderRuns(s)) /\ WF_vars(ListenerRuns(s)) /\ WF_vars(NodeRuns(s))

FairSpec == Spec /\ Fairness

-----------------------------------------------------------------------------
StorageTypeOK ==
    /\ storages \in Seq(Storage)
    /\ link \in [Storage -> Storage \cup {Nil}]
    /\ connected \in [Storage -> BOOLEAN]
    /\ pending \in [Storage -> Seq(Job)]
    /\ sended \in [Storage -> Seq(Job)]
    /\ responses \in [Storage -> 0 .. CounterMod - 1]
    /\ mutex \in [Storage -> {"free", "sender", "listener"}]
    /\ replicationActive \in BOOLEAN
    /\ syncState \in [source : Storage \cup {Nil}, destiny : Storage \cup {Nil}]

ThreadTypeOK ==
    /\ up \in BOOLEAN
    /\ acceptor \in AcceptorState
    /\ worker \in [Socket -> WorkerState]
    /\ sender \in [Storage -> SenderState]
    /\ listener \in [Storage -> ListenerState]
    /\ lostReads \subseteq Socket

NetworkTypeOK ==
    /\ toPpd \in [Storage -> Seq(Message)]
    /\ fromPpd \in [Storage -> Seq(Message)]
    /\ requests \in [Socket -> Seq(Job)]
    /\ replies \in [Socket -> Seq(Message)]

NodeTypeOK ==
    /\ ppdStatus \in [Storage -> {"offline", "running", "dead"}]
    /\ disk \in [Storage -> Seq(Value)]
    /\ mapped \in [Storage -> BOOLEAN]
    /\ jobs \in [Storage -> Seq(Job)]
    /\ stream \in [Storage -> Nat]
    /\ rebuilding \in [Storage -> BOOLEAN]
    /\ ready \in [Storage -> BOOLEAN]
    /\ misplaced \subseteq Sector /\ dropped \subseteq Sector
    /\ deaths \in Nat

ClientTypeOK ==
    /\ waiting \in [Socket -> 0 .. VolumeSectors]
    /\ lastPut \in [Sector -> Value]
    /\ gets \in 0 .. MaxGets
    /\ puts \in 0 .. MaxPuts

TypeOK == StorageTypeOK /\ ThreadTypeOK /\ NetworkTypeOK /\ NodeTypeOK /\ ClientTypeOK

-----------------------------------------------------------------------------
\* A sector whose jobs some PPD has executed out of order, or lost: with three
\* jobs waiting the planifier promises nothing (look, commons_list_addNode).
Astray(x) == x \in misplaced \cup dropped

(* Reads.                                                                   *)

IsRead(m, c) == m.op = "get" /\ m.socket = c
Reads(queue, c) == { i \in DOMAIN queue : IsRead(queue[i], c) }
Holds(queue, c) == Reads(queue, c) # {}
Count(queue, c) == Cardinality(Reads(queue, c))

\* The copies of a read of connection c that a storage and its PPD hold, and
\* those that are not yet or no longer on any storage.
Replying(s, c) == listener[s].pc = "reply" /\ listener[s].message.socket = c
CopiesOn(s, c) ==
    Count(pending[s], c) + Count(toPpd[s], c) + Count(jobs[s], c) + Count(fromPpd[s], c)
    + (IF Replying(s, c) THEN 1 ELSE 0)
CopiesOff(c) ==
    Count(requests[c], c) + Len(replies[c])
    + (IF worker[c].pc \in {"select", "enqueue"} THEN 1 ELSE 0)

NoneOn(c, S) == \A s \in S : CopiesOn(s, c) = 0

\* While no PPD has crashed a connection that waits for a read is owed exactly
\* one answer and an idle one is owed none: no interleaving of the PFS threads,
\* the balancer, the senders and the listeners drops a read or doubles it
\* (praid_pfs_entrypoint_executeGetSector to praid_ppd_thread_listener).  Only
\* the list of jobs of a PPD loses one, and then none is owed.
OneAnswer(c) ==
    IF waiting[c] = 0
    THEN CopiesOff(c) = 0 /\ NoneOn(c, Storage)
    ELSE \/ CopiesOff(c) = 1 /\ NoneOn(c, Storage)
         \/ /\ CopiesOff(c) = 0
            /\ \E s \in Storage : CopiesOn(s, c) = 1 /\ NoneOn(c, Storage \ {s})
         \/ CopiesOff(c) = 0 /\ NoneOn(c, Storage) /\ waiting[c] \in dropped

OneAnswerPerRead == deaths = 0 => \A c \in Socket : OneAnswer(c)

\* While no PPD has crashed the message a connection takes for the answer is
\* the answer to the sector it asked for: buildAndSendGet never compares them.
AnswersMatch ==
    deaths = 0 => \A c \in Socket : \A i \in DOMAIN replies[c] :
                     replies[c][i].sector = waiting[c]

\* A read that is not answered can always be recovered after a crash: it has
\* not reached a storage, or it is in a queue that praid_utils_getReadingJobs
\* collects (pendingJobs, or sendedJobs from the moment the sender lets its
\* lock go), or it is being handed over.  Being on its way to a PPD or back
\* is not enough.  LoseReads marks two exceptions.  The third is a read of a
\* sector whose jobs a PPD has put out of order or lost: an answer makes PRAID
\* forget the oldest job of its sector, which may then be another's.
Recoverable(c) ==
    \/ Holds(requests[c], c) \/ replies[c] # <<>>
    \/ worker[c].pc \in {"select", "enqueue"}
    \/ \E s \in Storage :
          \/ /\ ~ Collected(s)
             /\ \/ Holds(pending[s], c)
                \/ /\ sender[s].pc = "sent"
                   /\ sender[s].job.op = "get" /\ sender[s].job.socket = c
          \/ /\ ~ Collected(s) \/ listener[s].pc = "collectSended"
             /\ Holds(sended[s], c)
          \/ Replying(s, c)
          \/ Holds(listener[s].orphans, c)

ReadsAreRecoverable ==
    \A c \in Socket :
        waiting[c] # 0 => Recoverable(c) \/ c \in lostReads \/ Astray(waiting[c])

\* Once the listener of a storage has begun to collect its reads the sender
\* sends nothing and records nothing more, or a read would be sent twice or
\* forgotten: that is what disconnectionMutex and the second look at connected
\* are for (praid_ppd_thread_sender).
Sending(s) == sender[s].pc = "cleared" /\ sender'[s].pc = "sent"

CollectedIsFinal ==
    [][\A s \in Storage : HandingOver(s) \/ listener[s].pc = "done"
                             => sended'[s] = sended[s] /\ ~ Sending(s)]_vars

\* Every read is answered, unless it was lost in one of the two known ways, a
\* PPD reordered or lost jobs of its sector, or the RAID process died for want of
\* storages.
ReadsAreAnswered ==
    \A c \in Socket :
        waiting[c] # 0 ~>
            (waiting[c] = 0 \/ c \in lostReads \/ Astray(waiting[c]) \/ ~ up)

-----------------------------------------------------------------------------
(* Writes.                                                                  *)

IsWrite(m, x) == m.op = "put" /\ m.sector = x

\* What sector x of the disk of s will hold once the writes on their way to it
\* have been executed.
SettledValue(s, x) ==
    LET queue == jobs[s] \o toPpd[s] \o pending[s]
        writes == { i \in DOMAIN queue : IsWrite(queue[i], x) }
    IN IF writes = {} THEN disk[s][x] ELSE queue[Max(writes)].value

Serves(s) == Member(s) /\ ppdStatus[s] = "running" /\ ready[s]

HoldsLastWrites(s) ==
    \A x \in Sector :
        x \in DOMAIN disk[s] /\ (Astray(x) \/ SettledValue(s, x) = lastPut[x])

\* No request is waiting, and no write is still being distributed.
Distributed == \A c \in Socket : requests[c] = <<>> /\ worker[c].pc \notin {"walk", "put"}

\* RAID 1.  With one PFS connection in use, once its writes are distributed
\* every PPD that was in the cluster from the start and runs holds, or is about
\* to hold, the last value written to every sector but the astray ones,
\* whatever joins the list under the iteration or leaves it
\* (praid_pfs_entrypoint_executePutSector, praid_state_removePddStorage).
FoundersHoldLastWrite ==
    Distributed => \A s \in ToSet(InitialStorages) :
                      ppdStatus[s] = "running" => HoldsLastWrites(s)

\* While no PPD has crashed so does every PPD that serves the cluster, those
\* included that joined it and were given the volume of another.  (A crash
\* while a PPD joins may leave it with part of the volume.)
\* (praid_entry_processNewPpdConnection, ppd_sync_replicatePut)
ReplicasHoldLastWrite ==
    deaths = 0 /\ Distributed => \A s \in Storage : Serves(s) => HoldsLastWrites(s)

\* With one PFS connection in use and no crash, a read returns the last value
\* the connection wrote, although writes are never acknowledged: the read is
\* queued behind the write on whichever storage the balancer chooses, and stays
\* behind it in the PPD unless the planifier puts it before (ppd_alg_planif_...).
ReadsSeeLastWrite ==
    deaths = 0 => \A c \in Socket : \A i \in DOMAIN replies[c] :
                     LET x == replies[c][i].sector
                     IN Astray(x) \/ replies[c][i].value = lastPut[x]

-----------------------------------------------------------------------------
(* Replication.                                                             *)

\* No job is sent to the PPD that is being replicated while its replication
\* runs.  (Others may be sent jobs: a sender reads the flag before it takes the
\* lock.)  (Between raising the flag and naming the new pair syncState
\* still names the previous one.)
Replicating(s) == replicationActive /\ acceptor.pc # "fire" /\ syncState.destiny = s

DestinyHearsNoJob == [][\A s \in Storage : Sending(s) => ~ Replicating(s)]_vars

\* A volume is on its way from s: it is asked for, being read, or in transit.
Streaming(s) ==
    \/ stream[s] # 0
    \/ \E i \in DOMAIN toPpd[s] : toPpd[s][i].op = "syncGet"
    \/ \E i \in DOMAIN fromPpd[s] : fromPpd[s][i].op \in {"syncPut", "syncEnd"}

\* While no PPD has crashed sectors flow only while the flag is up, and only
\* from the source that syncState names: no second replication mixes with the
\* first (praid_entry_processNewPpdConnection, praid_sync_fireSynchronization).
\* Once a destiny has crashed its source streams on with the flag lowered.
StreamsOnlyFromSource ==
    deaths = 0 => \A s \in Storage :
                     Streaming(s) => replicationActive /\ syncState.source = s

\* A replication fired while the listeners of both its PPDs are in their loop
\* ends, by SYNC_END or by the disconnection of either
\* (praid_ppd_checkIfContinueDenegatingRequests).
Listening(s) == s # Nil /\ listener[s].pc \in {"receive", "reply", "forget", "disconnected"}

ReplicationEnds ==
    (replicationActive /\ acceptor.pc = "accept"
       /\ Listening(syncState.source) /\ Listening(syncState.destiny))
        ~> (~ replicationActive \/ ~ up)

\* With the replication enabled and a PPD in the cluster from the start, the
\* first PPD to end, unless it crashes, is a source that was given a job while
\* it maps its volume again: a PPD that joins is never made to execute a job on
\* a volume it does not have, and no master without a volume is asked for it
\* (ppd_planifier_worker_doJob, ppd_sync_replicateGet).
Unmapped(s) == stream[s] # 0 /\ ~ mapped[s]
Ending(s) == ppdStatus[s] = "running" /\ ppdStatus'[s] = "dead"

OnlySourcesFault ==
    [][ReplicationEnabled /\ InitialStorages # <<>> /\ deaths = 0 /\ MaxDeaths = 0
         => \A s \in Storage : Ending(s) => Unmapped(s)]_vars

\* Every PPD let into the cluster is told to process jobs, unless some PPD
\* crashes.
JoinersBecomeReady ==
    \A s \in Storage : ppdStatus[s] = "running" ~> (ready[s] \/ deaths > 0 \/ ~ up)

=============================================================================
