----------------------------- MODULE PraidState -----------------------------
(***************************************************************************)
(* State of the RAID process (grage-praid) and of the sockets that tie it  *)
(* to the disk processes (PPD) and to the pooled connections of the file   *)
(* system client (PFS), with the helpers of praid-balancer.c and           *)
(* praid-queue.c that only read that state.                                *)
(*                                                                         *)
(* A member of Storage is one PPDConnectionStorage: one connection of one  *)
(* PPD, never reused.  A PPD that comes back is another member of Storage, *)
(* and PpdId says which of them carry the same identifier.                 *)
(***************************************************************************)
EXTENDS Integers, Sequences, FiniteSets, SequencesExt

CONSTANTS
    Storage,             \* connections of PPDs, past and future
    Socket,              \* pooled PFS connections
    Nil,                 \* the NULL pointer
    PpdId,               \* the identifier a PPD sends in its handshake
    VolumeSectors,       \* sectors in the replicated volume
    InitialStorages,     \* the list of storages already in the cluster
    InitialSockets,      \* PFS connections already accepted
    ReplicationEnabled,  \* praid.enable.replication
    SleepDrainsMaster,   \* is sleep(3) long enough (see StartReplication)?
    MaxGets, MaxPuts,    \* bounds on the requests PFS issues
    MaxDeaths            \* bound on the PPD crashes

ASSUME PraidAssumption ==
    /\ Nil \notin Storage \cup Socket
    /\ PpdId \in [Storage -> Nat]
    /\ VolumeSectors \in Nat \ {0}
    /\ InitialStorages \in Seq(Storage)
    /\ \A i, j \in DOMAIN InitialStorages :
          InitialStorages[i] = InitialStorages[j] => i = j
    /\ InitialSockets \subseteq Socket
    /\ InitialSockets # {} => InitialStorages # <<>>
    /\ ReplicationEnabled \in BOOLEAN
    /\ SleepDrainsMaster \in BOOLEAN
    /\ MaxGets \in Nat /\ MaxPuts \in Nat /\ MaxDeaths \in Nat

Sector == 1 .. VolumeSectors

\* Sector contents: 0 is what the cluster's volume holds at the start, 1 to
\* MaxPuts are the writes in the order PFS issues them, MaxPuts + 1 is what
\* an old volume file of a joining PPD may hold.
Stale == MaxPuts + 1
Value == 0 .. Stale

\* A Job: the operation, the PFS socket it comes from, the disk sector and its
\* contents.  The NipcMessage that carries it holds the same fields; the
\* messages of a replication name no socket, and their sector number is not
\* looked at.
Job == [op : {"get", "put"}, socket : Socket, sector : Sector, value : Value]
SyncMessage == [op : {"syncGet", "syncPut", "syncEnd"}, socket : {Nil},
                sector : {0}, value : Value]
Message == Job \cup SyncMessage

Sync(op, value) == [op |-> op, socket |-> Nil, sector |-> 0, value |-> value]

\* pendingResponses is a uint16_t, which wraps.
CounterMod == 65536
Incremented(n) == (n + 1) % CounterMod
\* A faulty Decremented: the counter goes below zero.
DecrementedSigned(n) == n - 1
Decremented(n) == (n + CounterMod - 1) % CounterMod

WeightPendingRequest == 2
WeightPendingResponse == 1

VARIABLES
    up,                  \* the RAID process has not faulted
    storages,            \* ppdStorages, in list order
    link,                \* the next pointer of each list node
    connected,           \* storage->connected
    pending,             \* storage->pendingJobs
    sended,              \* storage->sendedJobs
    responses,           \* storage->pendingResponses
    mutex,               \* who holds storage->disconnectionMutex
    replicationActive,   \* replicationStatusActive
    syncState            \* syncState.source and syncState.destiny

VARIABLES
    acceptor,            \* the thread that accepts connections
    worker,              \* the thread of each PFS connection
    sender,              \* the sender thread of each storage
    listener,            \* the listener thread of each storage
    lostReads            \* history: sockets whose reads were lost (see LoseReads)

VARIABLES
    toPpd, fromPpd,      \* messages in transit between PRAID and a PPD
    requests, replies    \* messages in transit between PFS and PRAID

clusterVars == <<storages, link>>
storageVars == <<connected, pending, sended, responses, mutex>>
syncVars == <<replicationActive, syncState>>
threadVars == <<acceptor, worker, sender, listener, lostReads>>
networkVars == <<toPpd, fromPpd, requests, replies>>
praidVars == <<up, clusterVars, storageVars, syncVars, threadVars>>

-----------------------------------------------------------------------------
Member(s) == s \in ToSet(storages)

\* praid_balancer_storageRanking
Ranking(s) == Len(pending[s]) * WeightPendingRequest
                + responses[s] * WeightPendingResponse

\* praid_balancer_selectStorage: the scan keeps the first storage of least
\* ranking and stops at a ranking of zero, which nothing can improve on.
Selects(s) ==
    IF storages = <<>>
    THEN s = Nil
    ELSE \E i \in DOMAIN storages :
            /\ s = storages[i]
            /\ \A j \in DOMAIN storages :
                  /\ Ranking(s) <= Ranking(storages[j])
                  /\ j < i => Ranking(s) < Ranking(storages[j])

\* praid_utils_fillReadingQueue keeps the reads; the writes are dropped.
AddRead(reads, job) == IF job.op = "get" THEN Append(reads, job) ELSE reads

\* Is i the position of the first job of the sector, for jobs_eq?
IsFirst(queue, sector, i) ==
    /\ i \in DOMAIN queue
    /\ queue[i].sector = sector
    /\ \A j \in 1 .. i - 1 : queue[j].sector # sector

\* commons_list_removeNode with jobs_eq: drops the first job of the sector.
RemoveFirstOf(queue, sector) ==
    IF \E i \in DOMAIN queue : IsFirst(queue, sector, i)
    THEN RemoveAt(queue, CHOOSE i \in DOMAIN queue : IsFirst(queue, sector, i))
    ELSE queue

\* commons_list_addNode on ppdStorages, whose order is ALWAYS_LAST.
AddStorage(s) ==
    /\ storages' = Append(storages, s)
    /\ link' = IF storages = <<>>
               THEN [link EXCEPT ![s] = Nil]
               ELSE [link EXCEPT ![s] = Nil,
                                 ![storages[Len(storages)]] = s]

Unlink(s) ==
    storages' = IF Member(s)
                THEN RemoveAt(storages, CHOOSE i \in DOMAIN storages : storages[i] = s)
                ELSE storages

\* A faulty RemoveStorage: the removed node loses its next pointer, and an
\* iterator that stands on it stops there.
RemoveStorageClearing(s) ==
    /\ Unlink(s)
    /\ link' = [t \in Storage |->
                   IF t = s THEN Nil
                   ELSE IF Member(t) /\ link[t] = s THEN link[s] ELSE link[t]]

\* praid_state_removePddStorage: unlinks the node, which keeps its own next
\* pointer for an iterator that stands on it.
RemoveStorage(s) ==
    /\ Unlink(s)
    /\ link' = [t \in Storage |->
                   IF Member(t) /\ t # s /\ link[t] = s THEN link[s] ELSE link[t]]

-----------------------------------------------------------------------------
NoMessage == Sync("syncEnd", 0)

\* The state of a thread: where it stands, and the locals it will use again.
WorkerAt(pc, job, cursor) == [pc |-> pc, job |-> job, cursor |-> cursor, next |-> Nil]
WorkerPuts(job, cursor, next) ==
    [pc |-> "put", job |-> job, cursor |-> cursor, next |-> next]
SenderAt(pc, job, loaded) == [pc |-> pc, job |-> job, loaded |-> loaded]
ListenerAt(pc, message, loaded) ==
    [pc |-> pc, message |-> message, loaded |-> loaded,
     scanned |-> 0, orphans |-> <<>>, target |-> Nil]
HandoverAt(pc, scanned, orphans, target) ==
    [pc |-> pc, message |-> NoMessage, loaded |-> 0,
     scanned |-> scanned, orphans |-> orphans, target |-> target]
AcceptorAt(pc, destiny, master) == [pc |-> pc, destiny |-> destiny, master |-> master]

WorkerState == [pc : {"off", "receive", "walk", "put", "select", "enqueue"},
                job : Message, cursor : Storage \cup {Nil}, next : Storage \cup {Nil}]
SenderState == [pc : {"off", "idle", "cleared", "sent", "count", "done"},
                job : Message, loaded : 0 .. CounterMod - 1]
ListenerState == [pc : {"off", "receive", "reply", "forget", "disconnected",
                        "collectPending", "collectSended", "remove",
                        "redistribute", "choose", "assign", "done"},
                  message : Message, loaded : 0 .. CounterMod - 1,
                  scanned : Nat, orphans : Seq(Job), target : Storage \cup {Nil}]
AcceptorState == [pc : {"accept", "add", "validate", "sleep", "fire"},
                  destiny : Storage \cup {Nil}, master : Storage \cup {Nil}]

InitPraid ==
    /\ up = TRUE
    /\ storages = InitialStorages
    /\ link = [s \in Storage |->
                  IF \E i \in 1 .. Len(InitialStorages) - 1 : InitialStorages[i] = s
                  THEN InitialStorages[1 + CHOOSE i \in 1 .. Len(InitialStorages) - 1 :
                                              InitialStorages[i] = s]
                  ELSE Nil]
    /\ connected = [s \in Storage |-> s \in ToSet(InitialStorages)]
    /\ pending = [s \in Storage |-> <<>>]
    /\ sended = [s \in Storage |-> <<>>]
    /\ responses = [s \in Storage |-> 0]
    /\ mutex = [s \in Storage |-> "free"]
    /\ replicationActive = FALSE
    /\ syncState = [source |-> Nil, destiny |-> Nil]
    /\ acceptor = AcceptorAt("accept", Nil, Nil)
    /\ worker = [c \in Socket |->
                    WorkerAt(IF c \in InitialSockets THEN "receive" ELSE "off",
                             NoMessage, Nil)]
    /\ sender = [s \in Storage |->
                    SenderAt(IF s \in ToSet(InitialStorages) THEN "idle" ELSE "off",
                             NoMessage, 0)]
    /\ listener = [s \in Storage |->
                      ListenerAt(IF s \in ToSet(InitialStorages)
                                 THEN "receive" ELSE "off", NoMessage, 0)]
    /\ lostReads = {}
    /\ toPpd = [s \in Storage |-> <<>>]
    /\ fromPpd = [s \in Storage |-> <<>>]
    /\ requests = [c \in Socket |-> <<>>]
    /\ replies = [c \in Socket |-> <<>>]

=============================================================================
