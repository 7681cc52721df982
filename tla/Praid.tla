-------------------------------- MODULE Praid --------------------------------
(***************************************************************************)
(* The threads of the RAID process: the one that accepts connections, one  *)
(* per PFS connection, and a listener and a sender per PPD.  A step is what *)
(* a thread does between two accesses to state that another thread may      *)
(* change.  ppdStatus belongs to the PPDs; PRAID learns of it only as end   *)
(* of file on a connection, and what it sends to a dead PPD is lost.        *)
(***************************************************************************)
EXTENDS PraidState

VARIABLE ppdStatus      \* "offline", "running" or "dead", for each connection

\* nipc_messaging_send on a PPD connection.
SendPpd(s, message) ==
    toPpd' = IF ppdStatus[s] = "running"
             THEN [toPpd EXCEPT ![s] = Append(@, message)]
             ELSE toPpd

\* A thread moves on; a PFS thread goes back to its first receive.
WorkerMoves(c, state) == worker' = [worker EXCEPT ![c] = state]
WorkerLoops(c) == WorkerMoves(c, WorkerAt("receive", NoMessage, Nil))
SenderMoves(s, state) == sender' = [sender EXCEPT ![s] = state]
ListenerMoves(s, state) == listener' = [listener EXCEPT ![s] = state]

\* praid_ppd_thread_launchNewSlaveThread
LaunchSlaveThreads(s) ==
    /\ ListenerMoves(s, ListenerAt("receive", NoMessage, 0))
    /\ SenderMoves(s, SenderAt("idle", NoMessage, 0))

\* The listener of s holds disconnectionMutex, to hand over the reads of s.
HandingOver(s) ==
    listener[s].pc \in {"collectPending", "collectSended", "remove", "redistribute",
                        "choose", "assign"}

\* The listener of s has scanned pendingJobs: a read that is queued on s from
\* now on is never sent.
Collected(s) ==
    listener[s].pc = "done" \/ (HandingOver(s) /\ listener[s].pc # "collectPending")

LoseReads(sockets) == lostReads' = lostReads \cup sockets

\* commons_queue_put of a read on the storage that was chosen for it before.
QueueRead(s, job) ==
    /\ pending' = [pending EXCEPT ![s] = Append(@, job)]
    /\ LoseReads(IF Collected(s) THEN {job.socket} ELSE {})

-----------------------------------------------------------------------------
(* The accepting thread: praid_entry_startEntrypointListening.              *)

\* A PPD that dials while the replication flag is up is turned away.
DenyPpd(s) ==
    /\ acceptor.pc = "accept"
    /\ ppdStatus[s] = "offline"
    /\ replicationActive
    /\ ppdStatus' = [ppdStatus EXCEPT ![s] = "dead"]
    /\ UNCHANGED <<praidVars, networkVars>>

\* A faulty AcceptPpd: the flag is not looked at.
AcceptPpdAlways(s) ==
    /\ acceptor.pc = "accept"
    /\ ppdStatus[s] = "offline"
    /\ \E master \in Storage \cup {Nil} :
          /\ Selects(master)
          /\ acceptor' = AcceptorAt("add", s, master)
    /\ connected' = [connected EXCEPT ![s] = TRUE]
    /\ ppdStatus' = [ppdStatus EXCEPT ![s] = "running"]
    /\ UNCHANGED <<up, clusterVars, pending, sended, responses, mutex, syncVars, worker,
                   sender, listener, lostReads, networkVars>>

\* A PPD comes in: its storage is built, and the master is chosen among the
\* storages of the list, which it has yet to join.
AcceptPpd(s) ==
    /\ acceptor.pc = "accept"
    /\ ppdStatus[s] = "offline"
    /\ ~ replicationActive
    /\ \E master \in Storage \cup {Nil} :
          /\ Selects(master)
          /\ acceptor' = AcceptorAt("add", s, master)
    /\ connected' = [connected EXCEPT ![s] = TRUE]
    /\ ppdStatus' = [ppdStatus EXCEPT ![s] = "running"]
    /\ UNCHANGED <<up, clusterVars, pending, sended, responses, mutex, syncVars, worker,
                   sender, listener, lostReads, networkVars>>

\* praid_state_addPpdStorage: from now on writes are queued for the new PPD.
AddPpd ==
    /\ acceptor.pc = "add"
    /\ AddStorage(acceptor.destiny)
    /\ acceptor' = AcceptorAt("validate", acceptor.destiny, acceptor.master)
    /\ UNCHANGED <<up, storageVars, syncVars, worker, sender, listener, lostReads,
                   networkVars, ppdStatus>>

AcceptAgain == acceptor' = AcceptorAt("accept", Nil, Nil)

\* praid_ppd_sync_isValidReplication: alone in the cluster, or with the
\* replication disabled, the new PPD is told to process jobs at once.
ValidateReplication ==
    /\ acceptor.pc = "validate"
    /\ IF Len(storages) >= 2 /\ ReplicationEnabled
       THEN /\ acceptor' = AcceptorAt("sleep", acceptor.destiny, acceptor.master)
            /\ UNCHANGED <<listener, sender, toPpd>>
       ELSE /\ SendPpd(acceptor.destiny, Sync("syncEnd", 0))
            /\ LaunchSlaveThreads(acceptor.destiny)
            /\ AcceptAgain
    /\ UNCHANGED <<up, clusterVars, storageVars, syncVars, worker, lostReads,
                   fromPpd, requests, replies, ppdStatus>>

\* The end of sleep(3).  Nothing but time ensures that the writes queued
\* before the new storage joined have reached the master by then: that is
\* the assumption SleepDrainsMaster makes, through the predicate Drained.
StartReplication(Drained) ==
    /\ acceptor.pc = "sleep"
    /\ SleepDrainsMaster => Drained
    /\ replicationActive' = TRUE
    /\ acceptor' = AcceptorAt("fire", acceptor.destiny, acceptor.master)
    /\ UNCHANGED <<up, clusterVars, storageVars, syncState, worker, sender,
                   listener, lostReads, networkVars, ppdStatus>>

\* The rest of praid_ppd_sync_fireSynchronization, then the slave threads.
FireSynchronization ==
    /\ acceptor.pc = "fire"
    /\ syncState' = [source |-> acceptor.master, destiny |-> acceptor.destiny]
    /\ SendPpd(acceptor.master, Sync("syncGet", 0))
    /\ LaunchSlaveThreads(acceptor.destiny)
    /\ AcceptAgain
    /\ UNCHANGED <<up, clusterVars, storageVars, replicationActive, worker,
                   lostReads, fromPpd, requests, replies, ppdStatus>>

\* A PFS connection is served only while some PPD is connected; a PFS that
\* is turned away gives up, so its refusal changes nothing here.
AcceptPfs(c) ==
    /\ acceptor.pc = "accept"
    /\ worker[c].pc = "off"
    /\ storages # <<>>
    /\ WorkerLoops(c)
    /\ UNCHANGED <<up, clusterVars, storageVars, syncVars, acceptor, sender,
                   listener, lostReads, networkVars, ppdStatus>>

-----------------------------------------------------------------------------
(* The thread of a PFS connection: praid_pfs_entrypoint_processRequest.     *)

\* A write starts iterating over the list from its present head; a read goes
\* to the balancer.
PfsReceive(c) ==
    /\ worker[c].pc = "receive"
    /\ requests[c] # <<>>
    /\ requests' = [requests EXCEPT ![c] = Tail(@)]
    /\ LET job == Head(requests[c]) IN
       CASE job.op = "get" -> WorkerMoves(c, WorkerAt("select", job, Nil))
         [] job.op = "put" /\ storages # <<>> ->
               WorkerMoves(c, WorkerAt("walk", job, Head(storages)))
         [] OTHER -> UNCHANGED worker
    /\ UNCHANGED <<up, clusterVars, storageVars, syncVars, acceptor, sender,
                   listener, lostReads, toPpd, fromPpd, replies, ppdStatus>>

\* The unlocked iteration of praid_pfs_entrypoint_executePutSector: the link of a
\* node is read (commons_iterator_next) before the write is queued there.  A PPD
\* that is linked to the last node in between is not visited.
IterateStorages(c) ==
    /\ worker[c].pc = "walk"
    /\ LET s == worker[c].cursor IN
       WorkerMoves(c, WorkerPuts(worker[c].job, s, link[s]))
    /\ UNCHANGED <<up, clusterVars, storageVars, syncVars, acceptor, sender, listener,
                   lostReads, networkVars, ppdStatus>>

ExecutePut(c) ==
    /\ worker[c].pc = "put"
    /\ LET s == worker[c].cursor IN pending' = [pending EXCEPT ![s] = Append(@, worker[c].job)]
    /\ IF worker[c].next = Nil
       THEN WorkerLoops(c)
       ELSE WorkerMoves(c, WorkerAt("walk", worker[c].job, worker[c].next))
    /\ UNCHANGED <<up, clusterVars, connected, sended, responses, mutex, syncVars,
                   acceptor, sender, listener, lostReads, networkVars, ppdStatus>>

\* praid_pfs_entrypoint_executeGetSector up to the choice of a storage.  With
\* no storage left it dereferences NULL and the process dies.
SelectForGet(c) ==
    /\ worker[c].pc = "select"
    /\ \E s \in Storage \cup {Nil} :
          /\ Selects(s)
          /\ up' = (s # Nil)
          /\ WorkerMoves(c, WorkerAt("enqueue", worker[c].job, s))
    /\ UNCHANGED <<clusterVars, storageVars, syncVars, acceptor, sender, listener,
                   lostReads, networkVars, ppdStatus>>

\* The job goes to the chosen storage, whatever has become of it meanwhile.
EnqueueGet(c) ==
    /\ worker[c].pc = "enqueue"
    /\ QueueRead(worker[c].cursor, worker[c].job)
    /\ WorkerLoops(c)
    /\ UNCHANGED <<up, clusterVars, connected, sended, responses, mutex, syncVars,
                   acceptor, sender, listener, networkVars, ppdStatus>>

-----------------------------------------------------------------------------
(* The sender thread of a storage: praid_ppd_thread_sender.                 *)

SenderLoops(s) == SenderMoves(s, SenderAt("idle", NoMessage, 0))

\* A faulty SenderCheck: the flag is not looked at.
SenderCheckAnyway(s) ==
    /\ sender[s].pc = "idle"
    /\ pending[s] # <<>>
    /\ SenderMoves(s, SenderAt("cleared", NoMessage, 0))
    /\ UNCHANGED <<up, clusterVars, storageVars, syncVars, acceptor, worker,
                   listener, lostReads, networkVars, ppdStatus>>

\* A job is there and no replication is running.  The flag is read with no
\* lock held; a sender that finds it up sleeps and tries again.
SenderCheck(s) ==
    /\ sender[s].pc = "idle"
    /\ pending[s] # <<>>
    /\ ~ replicationActive
    /\ SenderMoves(s, SenderAt("cleared", NoMessage, 0))
    /\ UNCHANGED <<up, clusterVars, storageVars, syncVars, acceptor, worker,
                   listener, lostReads, networkVars, ppdStatus>>

\* Faulty forms of SenderSend: connected is not checked again under the lock;
\* the job stays in the queue.
SenderSendUnchecked(s) ==
    /\ sender[s].pc = "cleared"
    /\ mutex[s] # "sender"
    /\ mutex' = [mutex EXCEPT ![s] = "sender"]
    /\ pending' = [pending EXCEPT ![s] = Tail(@)]
    /\ SendPpd(s, Head(pending[s]))
    /\ SenderMoves(s, SenderAt("sent", Head(pending[s]), 0))
    /\ UNCHANGED <<up, clusterVars, connected, sended, responses, syncVars, acceptor,
                   worker, listener, lostReads, fromPpd, requests, replies, ppdStatus>>
SenderSendPeeking(s) ==
    /\ sender[s].pc = "cleared"
    /\ mutex[s] = "free"
    /\ connected[s]
    /\ mutex' = [mutex EXCEPT ![s] = "sender"]
    /\ SendPpd(s, Head(pending[s]))
    /\ SenderMoves(s, SenderAt("sent", Head(pending[s]), 0))
    /\ UNCHANGED <<up, clusterVars, connected, pending, sended, responses, syncVars,
                   acceptor, worker, listener, lostReads, fromPpd, requests, replies,
                   ppdStatus>>

\* Under disconnectionMutex the storage is checked again, then the job leaves
\* the queue for the connection.
SenderSend(s) ==
    /\ sender[s].pc = "cleared"
    /\ mutex[s] = "free"
    /\ connected[s]
    /\ mutex' = [mutex EXCEPT ![s] = "sender"]
    /\ pending' = [pending EXCEPT ![s] = Tail(@)]
    /\ SendPpd(s, Head(pending[s]))
    /\ SenderMoves(s, SenderAt("sent", Head(pending[s]), 0))
    /\ UNCHANGED <<up, clusterVars, connected, sended, responses, syncVars, acceptor,
                   worker, listener, lostReads, fromPpd, requests, replies, ppdStatus>>

\* A faulty SenderExit: the thread ends without letting the lock go.
SenderExitLocked(s) ==
    /\ ~ connected[s]
    /\ \/ sender[s].pc = "idle" /\ UNCHANGED mutex
       \/ /\ sender[s].pc = "cleared" /\ mutex[s] = "free"
          /\ mutex' = [mutex EXCEPT ![s] = "sender"]
    /\ SenderMoves(s, SenderAt("done", NoMessage, 0))
    /\ UNCHANGED <<up, clusterVars, connected, pending, sended, responses, syncVars,
                   acceptor, worker, listener, lostReads, networkVars, ppdStatus>>

\* A storage found disconnected, under the lock or at the top of the loop,
\* ends the thread.
SenderExit(s) ==
    /\ \/ sender[s].pc = "idle"
       \/ sender[s].pc = "cleared" /\ mutex[s] = "free"
    /\ ~ connected[s]
    /\ SenderMoves(s, SenderAt("done", NoMessage, 0))
    /\ UNCHANGED <<up, clusterVars, storageVars, syncVars, acceptor, worker,
                   listener, lostReads, networkVars, ppdStatus>>

\* The job is noted as sent.  For a read the counter is then loaded, to be
\* stored by the next step: the increment holds no lock the listener takes.
SenderRecord(s) ==
    /\ sender[s].pc = "sent"
    /\ sended' = [sended EXCEPT ![s] = Append(@, sender[s].job)]
    /\ IF sender[s].job.op = "get"
       THEN /\ SenderMoves(s, SenderAt("count", sender[s].job, responses[s]))
            /\ UNCHANGED mutex
       ELSE /\ SenderLoops(s)
            /\ mutex' = [mutex EXCEPT ![s] = "free"]
    /\ UNCHANGED <<up, clusterVars, connected, pending, responses, syncVars, acceptor,
                   worker, listener, lostReads, networkVars, ppdStatus>>

SenderCount(s) ==
    /\ sender[s].pc = "count"
    /\ responses' = [responses EXCEPT ![s] = Incremented(sender[s].loaded)]
    /\ SenderLoops(s)
    /\ mutex' = [mutex EXCEPT ![s] = "free"]
    /\ UNCHANGED <<up, clusterVars, connected, pending, sended, syncVars, acceptor,
                   worker, listener, lostReads, networkVars, ppdStatus>>

-----------------------------------------------------------------------------
(* The listener thread of a storage: praid_ppd_thread_listener.             *)

ListenerLoops(s) == ListenerMoves(s, ListenerAt("receive", NoMessage, 0))
ListenerEnds(s) == ListenerMoves(s, ListenerAt("done", NoMessage, 0))

Receives(s, op) ==
    /\ listener[s].pc = "receive"
    /\ fromPpd[s] # <<>>
    /\ Head(fromPpd[s]).op = op
    /\ fromPpd' = [fromPpd EXCEPT ![s] = Tail(@)]

\* An answer to a read arrives; the decrement begins by loading the counter.
ListenerResponse(s) ==
    /\ Receives(s, "get")
    /\ ListenerMoves(s, ListenerAt("reply", Head(fromPpd[s]), responses[s]))
    /\ UNCHANGED <<up, clusterVars, storageVars, syncVars, acceptor, worker, sender,
                   lostReads, toPpd, requests, replies, ppdStatus>>

\* A faulty ListenerReply: the answer goes to whoever sent the oldest job.
ListenerReplyOldest(s) ==
    /\ listener[s].pc = "reply"
    /\ responses' = [responses EXCEPT ![s] = Decremented(listener[s].loaded)]
    /\ LET message == listener[s].message
           socket == IF sended[s] = <<>> THEN message.socket ELSE Head(sended[s]).socket
       IN replies' = [replies EXCEPT ![socket] = Append(@, message)]
    /\ ListenerMoves(s, ListenerAt("forget", listener[s].message, 0))
    /\ UNCHANGED <<up, clusterVars, connected, pending, sended, mutex, syncVars,
                   acceptor, worker, sender, lostReads, toPpd, fromPpd, requests,
                   ppdStatus>>

\* The counter is stored and the answer goes to the PFS socket it names.
ListenerReply(s) ==
    /\ listener[s].pc = "reply"
    /\ responses' = [responses EXCEPT ![s] = Decremented(listener[s].loaded)]
    /\ LET message == listener[s].message IN
       replies' = [replies EXCEPT ![message.socket] = Append(@, message)]
    /\ ListenerMoves(s, ListenerAt("forget", listener[s].message, 0))
    /\ UNCHANGED <<up, clusterVars, connected, pending, sended, mutex, syncVars,
                   acceptor, worker, sender, lostReads, toPpd, fromPpd, requests,
                   ppdStatus>>

\* The first sent job of that sector is forgotten, if there is one by now.
ListenerForget(s) ==
    /\ listener[s].pc = "forget"
    /\ sended' = [sended EXCEPT ![s] = RemoveFirstOf(@, listener[s].message.sector)]
    /\ ListenerLoops(s)
    /\ UNCHANGED <<up, clusterVars, connected, pending, responses, mutex, syncVars,
                   acceptor, worker, sender, lostReads, networkVars, ppdStatus>>

\* A sector of the replication, forwarded to whoever is the destiny now.
ListenerSyncPut(s) ==
    /\ Receives(s, "syncPut")
    /\ SendPpd(syncState.destiny, Head(fromPpd[s]))
    /\ UNCHANGED <<praidVars, requests, replies, ppdStatus>>

\* A faulty ListenerSyncEnd: the destiny is not told.
ListenerSyncEndSilent(s) ==
    /\ Receives(s, "syncEnd")
    /\ replicationActive' = FALSE
    /\ UNCHANGED <<up, clusterVars, storageVars, syncState, threadVars, toPpd, requests,
                   replies, ppdStatus>>

\* The source has finished: the destiny may process jobs, and so may all.
ListenerSyncEnd(s) ==
    /\ Receives(s, "syncEnd")
    /\ SendPpd(syncState.destiny, Sync("syncEnd", 0))
    /\ replicationActive' = FALSE
    /\ UNCHANGED <<up, clusterVars, storageVars, syncState, threadVars, requests,
                   replies, ppdStatus>>

\* End of file on the connection.
ListenerDisconnected(s) ==
    /\ listener[s].pc = "receive"
    /\ fromPpd[s] = <<>>
    /\ ppdStatus[s] = "dead"
    /\ connected' = [connected EXCEPT ![s] = FALSE]
    /\ ListenerMoves(s, ListenerAt("disconnected", NoMessage, 0))
    /\ UNCHANGED <<up, clusterVars, pending, sended, responses, mutex, syncVars,
                   acceptor, worker, sender, lostReads, networkVars, ppdStatus>>

\* A faulty InReplication: only the destiny is looked at.
IsDestiny(s) == syncState.destiny # Nil /\ PpdId[syncState.destiny] = PpdId[s]

\* praid_ppd_checkIfContinueDenegatingRequests compares identifiers.
InReplication(s) ==
    \/ syncState.source # Nil /\ PpdId[syncState.source] = PpdId[s]
    \/ syncState.destiny # Nil /\ PpdId[syncState.destiny] = PpdId[s]

\* praid_ppd_processDisconnection, up to the collection of the reads.
ProcessDisconnection(s) ==
    /\ listener[s].pc = "disconnected"
    /\ mutex[s] = "free"
    /\ mutex' = [mutex EXCEPT ![s] = "listener"]
    /\ replicationActive' = (replicationActive /\ ~ InReplication(s))
    /\ ListenerMoves(s, HandoverAt("collectPending", 0, <<>>, Nil))
    /\ UNCHANGED <<up, clusterVars, connected, pending, sended, responses, syncState,
                   acceptor, worker, sender, lostReads, networkVars, ppdStatus>>

\* praid_utils_getReadingJobs scans pendingJobs, to which the PFS threads may
\* still add, and then sendedJobs.  Faulty forms: a queue is left out.
AfterQueueNone(pc) == "remove"
AfterQueue(pc) == IF pc = "collectPending" THEN "collectSended" ELSE "remove"

SendedQueue(s) == sended[s]
ScannedQueue(s) == IF listener[s].pc = "collectPending" THEN pending[s] ELSE sended[s]

CollectRead(s) ==
    /\ listener[s].pc \in {"collectPending", "collectSended"}
    /\ LET i == listener[s].scanned + 1
           queue == ScannedQueue(s)
           reads == listener[s].orphans
       IN ListenerMoves(s, IF i <= Len(queue)
                           THEN HandoverAt(listener[s].pc, i, AddRead(reads, queue[i]), Nil)
                           ELSE HandoverAt(AfterQueue(listener[s].pc), 0, reads, Nil))
    /\ UNCHANGED <<up, clusterVars, storageVars, syncVars, acceptor, worker, sender,
                   lostReads, networkVars, ppdStatus>>

\* The storage leaves the list; with no read to hand over that is all.
RemoveDisconnected(s) ==
    /\ listener[s].pc = "remove"
    /\ RemoveStorage(s)
    /\ IF listener[s].orphans = <<>>
       THEN /\ ListenerEnds(s)
            /\ mutex' = [mutex EXCEPT ![s] = "free"]
       ELSE /\ ListenerMoves(s, HandoverAt("redistribute", 0, listener[s].orphans, Nil))
            /\ UNCHANGED mutex
    /\ UNCHANGED <<up, connected, pending, sended, responses, syncVars, acceptor,
                   worker, sender, lostReads, networkVars, ppdStatus>>

\* praid_balancer_redistributeJobs chooses a storage for the next read, one
\* listener at a time (redistributionMutex).  With none left it stops.
Redistributing(s) == listener[s].pc \in {"choose", "assign"}

ChooseCandidate(s) ==
    /\ \/ listener[s].pc = "choose"
       \/ /\ listener[s].pc = "redistribute"
          /\ \A t \in Storage : ~ Redistributing(t)
    /\ \E candidate \in Storage \cup {Nil} :
          /\ Selects(candidate)
          /\ IF candidate = Nil
             THEN /\ LoseReads({ job.socket : job \in ToSet(listener[s].orphans) })
                  /\ ListenerEnds(s)
                  /\ mutex' = [mutex EXCEPT ![s] = "free"]
             ELSE /\ ListenerMoves(s, HandoverAt("assign", 0, listener[s].orphans, candidate))
                  /\ UNCHANGED <<lostReads, mutex>>
    /\ UNCHANGED <<up, clusterVars, connected, pending, sended, responses, syncVars,
                   acceptor, worker, sender, networkVars, ppdStatus>>

\* praid_balancer_assignJob
AssignJob(s) ==
    /\ listener[s].pc = "assign"
    /\ LET jobs == listener[s].orphans IN
       /\ QueueRead(listener[s].target, Head(jobs))
       /\ IF Len(jobs) = 1
          THEN /\ ListenerEnds(s)
               /\ mutex' = [mutex EXCEPT ![s] = "free"]
          ELSE /\ ListenerMoves(s, HandoverAt("choose", 0, Tail(jobs), Nil))
               /\ UNCHANGED mutex
    /\ UNCHANGED <<up, clusterVars, connected, sended, responses, syncVars, acceptor,
                   worker, sender, networkVars, ppdStatus>>

-----------------------------------------------------------------------------
Acceptor(Drained) ==
    \/ \E s \in Storage : DenyPpd(s) \/ AcceptPpd(s)
    \/ AddPpd
    \/ ValidateReplication
    \/ StartReplication(Drained)
    \/ FireSynchronization
    \/ \E c \in Socket : AcceptPfs(c)

Worker(c) ==
    \/ PfsReceive(c) \/ IterateStorages(c) \/ ExecutePut(c)
    \/ SelectForGet(c) \/ EnqueueGet(c)

Sender(s) ==
    \/ SenderCheck(s) \/ SenderSend(s) \/ SenderExit(s)
    \/ SenderRecord(s) \/ SenderCount(s)

Listener(s) ==
    \/ ListenerResponse(s) \/ ListenerReply(s) \/ ListenerForget(s)
    \/ ListenerSyncPut(s) \/ ListenerSyncEnd(s)
    \/ ListenerDisconnected(s) \/ ProcessDisconnection(s) \/ CollectRead(s)
    \/ RemoveDisconnected(s)
    \/ ChooseCandidate(s) \/ AssignJob(s)

=============================================================================
