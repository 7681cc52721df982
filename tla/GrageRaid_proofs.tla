--------------------------- MODULE GrageRaid_proofs ---------------------------
(***************************************************************************)
(* Proofs about GrageRaid, for any number of PPDs, PFS connections and      *)
(* sectors, any bound on requests and crashes.                             *)
(***************************************************************************)
EXTENDS GrageRaid, SequenceTheorems, TLAPS

\* disconnectionMutex is held exactly by the thread that stands in its section.
MutexHeld ==
    \A s \in Storage :
        /\ mutex[s] = "sender" <=> sender[s].pc \in {"sent", "count"}
        /\ mutex[s] = "listener" <=> HandingOver(s)

\* A listener that has seen the end of its connection has cleared connected,
\* and nothing sets it again: the storage of a PPD is built once, before its
\* threads.  So no sender takes the lock after the listener has let it go.
StaysDisconnected ==
    /\ \A s \in Storage :
          /\ listener[s].pc \in {"disconnected", "done"} \/ HandingOver(s) => ~ connected[s]
          /\ listener[s].pc = "done" => mutex[s] = "free"
          /\ ppdStatus[s] = "offline" => listener[s].pc = "off" /\ sender[s].pc = "off"
    /\ acceptor.pc # "accept" =>
          /\ acceptor.destiny \in Storage
          /\ listener[acceptor.destiny].pc = "off"
          /\ sender[acceptor.destiny].pc = "off"
          /\ ppdStatus[acceptor.destiny] # "offline"

\* What a thread has in its hands at each point.
ThreadsHoldJobs ==
    /\ \A s \in Storage :
          /\ sender[s].pc = "cleared" => pending[s] # <<>>
          /\ sender[s].pc \in {"sent", "count"} => sender[s].job \in Job
          /\ listener[s].pc \in {"redistribute", "choose", "assign"} =>
                listener[s].orphans # <<>>
    /\ \A c \in Socket :
          /\ worker[c].pc \in {"walk", "put", "select", "enqueue"} => worker[c].job \in Job
          /\ worker[c].pc \in {"walk", "put"} => worker[c].cursor \in Storage

IInv == TypeOK /\ MutexHeld /\ StaysDisconnected /\ ThreadsHoldJobs

-----------------------------------------------------------------------------
\* pendingResponses is a uint16_t.
LEMMA CounterWidth == CounterMod \in Nat \ {0}
  BY DEF CounterMod

USE DEF praidVars, clusterVars, storageVars, syncVars, threadVars, networkVars,
        nodeVars, clientVars

\* The values a thread starts from have the right types.
LEMMA InitialValues ==
  /\ NoMessage \in Message
  /\ \A op \in {"syncGet", "syncPut", "syncEnd"}, v \in Value : Sync(op, v) \in Message
  /\ 0 \in 0 .. CounterMod - 1
  /\ 0 \in Value
  /\ <<>> \in Seq(Job)
  BY PraidAssumption DEF NoMessage, Sync, Message, SyncMessage, Value, Stale, CounterMod

\* pendingResponses wraps within its width.
LEMMA Modulo == ASSUME NEW n \in Nat, NEW m \in Nat \ {0} PROVE n % m \in 0 .. m - 1
  OBVIOUS

\* Both ways of changing pendingResponses keep it a uint16_t.
LEMMA CounterType ==
  ASSUME NEW n \in 0 .. CounterMod - 1
  PROVE  /\ Incremented(n) \in 0 .. CounterMod - 1
         /\ Decremented(n) \in 0 .. CounterMod - 1
  <1>1. CounterMod \in Nat \ {0}
    BY CounterWidth
  <1>2. QED
    BY <1>1, Modulo DEF Incremented, Decremented

\* When a thread moves it takes its new state and the others keep theirs.
LEMMA WorkerMoved ==
  ASSUME ThreadTypeOK, NEW c \in Socket,
         NEW p \in {"off", "receive", "walk", "select", "enqueue"},
         NEW job \in Message, NEW cursor \in Storage \cup {Nil},
         WorkerMoves(c, WorkerAt(p, job, cursor))
  PROVE  /\ worker' \in [Socket -> WorkerState]
         /\ worker'[c].pc = p /\ worker'[c].job = job /\ worker'[c].cursor = cursor
         /\ \A d \in Socket \ {c} : worker'[d] = worker[d]
  <1>1. WorkerAt(p, job, cursor) \in WorkerState
    BY DEF WorkerAt, WorkerState
  <1>2. worker' = [worker EXCEPT ![c] = WorkerAt(p, job, cursor)]
    BY DEF WorkerMoves
  <1>3. worker'[c] = WorkerAt(p, job, cursor)
    BY <1>2 DEF ThreadTypeOK
  <1>4. QED
    BY <1>1, <1>2, <1>3 DEF ThreadTypeOK, WorkerAt

\* The same when it has a write to queue.
LEMMA WorkerHasPut ==
  ASSUME ThreadTypeOK, NEW c \in Socket,
         NEW job \in Message, NEW cursor \in Storage \cup {Nil}, NEW next \in Storage \cup {Nil},
         WorkerMoves(c, WorkerPuts(job, cursor, next))
  PROVE  /\ worker' \in [Socket -> WorkerState]
         /\ worker'[c].pc = "put" /\ worker'[c].job = job /\ worker'[c].cursor = cursor
         /\ worker'[c].next = next
         /\ \A d \in Socket \ {c} : worker'[d] = worker[d]
  <1>1. WorkerPuts(job, cursor, next) \in WorkerState
    BY DEF WorkerPuts, WorkerState
  <1>2. worker' = [worker EXCEPT ![c] = WorkerPuts(job, cursor, next)]
    BY DEF WorkerMoves
  <1>3. worker'[c] = WorkerPuts(job, cursor, next)
    BY <1>2 DEF ThreadTypeOK
  <1>4. QED
    BY <1>1, <1>2, <1>3 DEF ThreadTypeOK, WorkerPuts

\* The same for a sender.
LEMMA SenderMoved ==
  ASSUME ThreadTypeOK, NEW s \in Storage,
         NEW p \in {"off", "idle", "cleared", "sent", "count", "done"},
         NEW job \in Message, NEW loaded \in 0 .. CounterMod - 1,
         SenderMoves(s, SenderAt(p, job, loaded))
  PROVE  /\ sender' \in [Storage -> SenderState]
         /\ sender'[s].pc = p /\ sender'[s].job = job
         /\ \A t \in Storage \ {s} : sender'[t] = sender[t]
  <1>1. SenderAt(p, job, loaded) \in SenderState
    BY DEF SenderAt, SenderState
  <1>2. sender' = [sender EXCEPT ![s] = SenderAt(p, job, loaded)]
    BY DEF SenderMoves
  <1>3. sender'[s] = SenderAt(p, job, loaded)
    BY <1>2 DEF ThreadTypeOK
  <1>4. QED
    BY <1>1, <1>2, <1>3 DEF ThreadTypeOK, SenderAt

\* The same for a listener that serves its connection.
LEMMA ListenerMoved ==
  ASSUME ThreadTypeOK, NEW s \in Storage,
         NEW p \in {"off", "receive", "reply", "forget", "disconnected", "done"},
         NEW message \in Message, NEW loaded \in 0 .. CounterMod - 1,
         ListenerMoves(s, ListenerAt(p, message, loaded))
  PROVE  /\ listener' \in [Storage -> ListenerState]
         /\ listener'[s].pc = p
         /\ \A t \in Storage \ {s} : listener'[t] = listener[t]
  <1>1. ListenerAt(p, message, loaded) \in ListenerState
    BY InitialValues DEF ListenerAt, ListenerState
  <1>2. listener' = [listener EXCEPT ![s] = ListenerAt(p, message, loaded)]
    BY DEF ListenerMoves
  <1>3. listener'[s] = ListenerAt(p, message, loaded)
    BY <1>2 DEF ThreadTypeOK
  <1>4. QED
    BY <1>1, <1>2, <1>3 DEF ThreadTypeOK, ListenerAt

\* The same for a listener that hands the reads of its storage over.
LEMMA HandoverMoved ==
  ASSUME ThreadTypeOK, NEW s \in Storage,
         NEW p \in {"collectPending", "collectSended", "remove", "redistribute",
                    "choose", "assign"},
         NEW scanned \in Nat, NEW orphans \in Seq(Job),
         NEW target \in Storage \cup {Nil},
         ListenerMoves(s, HandoverAt(p, scanned, orphans, target))
  PROVE  /\ listener' \in [Storage -> ListenerState]
         /\ listener'[s].pc = p /\ listener'[s].orphans = orphans
         /\ \A t \in Storage \ {s} : listener'[t] = listener[t]
  <1>1. HandoverAt(p, scanned, orphans, target) \in ListenerState
    BY InitialValues DEF HandoverAt, ListenerState
  <1>2. listener' = [listener EXCEPT ![s] = HandoverAt(p, scanned, orphans, target)]
    BY DEF ListenerMoves
  <1>3. listener'[s] = HandoverAt(p, scanned, orphans, target)
    BY <1>2 DEF ThreadTypeOK
  <1>4. QED
    BY <1>1, <1>2, <1>3 DEF ThreadTypeOK, HandoverAt

\* What the fields of a thread's state are.
LEMMA ThreadFields ==
  ASSUME ThreadTypeOK
  PROVE  /\ \A c \in Socket : /\ worker[c].job \in Message
                              /\ worker[c].cursor \in Storage \cup {Nil}
                              /\ worker[c].next \in Storage \cup {Nil}
         /\ \A s \in Storage : /\ sender[s].job \in Message
                               /\ sender[s].loaded \in 0 .. CounterMod - 1
                               /\ listener[s].message \in Message
                               /\ listener[s].loaded \in 0 .. CounterMod - 1
                               /\ listener[s].scanned \in Nat
                               /\ listener[s].orphans \in Seq(Job)
                               /\ listener[s].target \in Storage \cup {Nil}
         /\ acceptor.destiny \in Storage \cup {Nil}
         /\ acceptor.master \in Storage \cup {Nil}
  BY DEF ThreadTypeOK, WorkerState, SenderState, ListenerState, AcceptorState

\* A nonempty queue splits into its head and its tail.
LEMMA HeadAndTail ==
  ASSUME NEW T, NEW q \in Seq(T), q # <<>>
  PROVE  Head(q) \in T /\ Tail(q) \in Seq(T)
  BY HeadTailProperties

\* Only a queue of one element has an empty tail.
LEMMA LongTail ==
  ASSUME NEW T, NEW q \in Seq(T), q # <<>>, Len(q) # 1
  PROVE  Tail(q) # <<>>
  <1>1. Len(q) \in Nat /\ Len(q) # 0
    BY EmptySeq, LenProperties
  <1>2. Len(Tail(q)) = Len(q) - 1
    BY HeadTailProperties
  <1>3. Len(Tail(q)) # 0
    BY <1>1, <1>2
  <1>4. QED
    BY <1>3, EmptySeq

\* Removing an element leaves a sequence of the same elements.
LEMMA RemoveAtType ==
  ASSUME NEW T, NEW q \in Seq(T), NEW i \in DOMAIN q
  PROVE  RemoveAt(q, i) \in Seq(T)
  <1>1. i \in 1 .. Len(q) /\ Len(q) \in Nat
    BY LenProperties
  <1>2. SubSeq(q, 1, i - 1) \in Seq(T) /\ SubSeq(q, i + 1, Len(q)) \in Seq(T)
    BY <1>1
  <1>3. QED
    BY <1>2 DEF RemoveAt

\* So does putting one in.
LEMMA InsertAtType ==
  ASSUME NEW T, NEW q \in Seq(T), NEW i \in DOMAIN q, NEW e \in T
  PROVE  InsertAt(q, i, e) \in Seq(T)
  <1>1. i \in 1 .. Len(q) /\ Len(q) \in Nat
    BY LenProperties
  <1>2. SubSeq(q, 1, i - 1) \in Seq(T) /\ SubSeq(q, i, Len(q)) \in Seq(T)
    BY <1>1
  <1>3. QED
    BY <1>2 DEF InsertAt

\* Forgetting a sent job leaves a queue of jobs.
LEMMA RemoveFirstOfType ==
  ASSUME NEW T, NEW q \in Seq(T), NEW sector
  PROVE  RemoveFirstOf(q, sector) \in Seq(T)
  BY RemoveAtType DEF RemoveFirstOf

\* Unlinking a storage leaves a list of storages.
LEMMA RemoveStorageType ==
  ASSUME StorageTypeOK, NEW s \in Storage, RemoveStorage(s)
  PROVE  storages' \in Seq(Storage) /\ link' \in [Storage -> Storage \cup {Nil}]
  <1>1. storages' \in Seq(Storage)
    <2>1. CASE Member(s)
      <3>1. \E i \in DOMAIN storages : storages[i] = s
        BY <2>1 DEF Member, ToSet
      <3>2. QED
        BY <2>1, <3>1, RemoveAtType DEF StorageTypeOK, RemoveStorage, Unlink
    <2>2. CASE ~ Member(s)
      BY <2>2 DEF StorageTypeOK, RemoveStorage, Unlink
    <2>3. QED
      BY <2>1, <2>2
  <1>2. link' \in [Storage -> Storage \cup {Nil}]
    BY DEF StorageTypeOK, RemoveStorage
  <1>3. QED
    BY <1>1, <1>2

\* Every job comes from a PFS connection.
LEMMA ToSetOfJobs ==
  ASSUME NEW q \in Seq(Job)
  PROVE  \A job \in ToSet(q) : job.socket \in Socket
  <1>1. \A i \in DOMAIN q : q[i] \in Job
    BY ElementOfSeq, LenProperties
  <1>2. ToSet(q) \subseteq Job
    BY <1>1 DEF ToSet
  <1>3. QED
    BY <1>2 DEF Job

\* A step of a listener keeps the types of the threads when it keeps its own.
LEMMA ListenerTyped ==
  ASSUME ThreadTypeOK, UNCHANGED <<up, acceptor, worker, sender>>,
         listener' \in [Storage -> ListenerState], lostReads' \subseteq Socket
  PROVE  ThreadTypeOK'
  BY DEF ThreadTypeOK

\* A storage that joins the list leaves a list of storages.
LEMMA AddStorageType ==
  ASSUME StorageTypeOK, NEW s \in Storage, AddStorage(s)
  PROVE  storages' \in Seq(Storage) /\ link' \in [Storage -> Storage \cup {Nil}]
  <1>1. storages' \in Seq(Storage)
    BY DEF StorageTypeOK, AddStorage
  <1>2. link' \in [Storage -> Storage \cup {Nil}]
    <2>1. CASE storages = <<>>
      BY <2>1 DEF StorageTypeOK, AddStorage
    <2>2. CASE storages # <<>>
      BY <2>2 DEF StorageTypeOK, AddStorage
    <2>3. QED
      BY <2>1, <2>2
  <1>3. QED
    BY <1>1, <1>2

\* A write may be queued for any storage the iterator reaches.
LEMMA QueuedType ==
  ASSUME NEW q \in [Storage -> Seq(Job)], NEW s \in Storage, NEW job \in Job,
         NEW r, r = [q EXCEPT ![s] = Append(@, job)]
  PROVE  /\ r \in [Storage -> Seq(Job)]
         /\ \A t \in Storage : q[t] # <<>> => r[t] # <<>>
  <1>1. \A t \in Storage : q[t] \in Seq(Job)
    OBVIOUS
  <1>2. Append(q[s], job) \in Seq(Job) /\ Append(q[s], job) # <<>>
    BY <1>1, AppendProperties
  <1>3. QED
    BY <1>2

\* The threads of a new storage start.
LEMMA LaunchedThreads ==
  ASSUME ThreadTypeOK, NEW s \in Storage, LaunchSlaveThreads(s)
  PROVE  /\ listener' \in [Storage -> ListenerState]
         /\ sender' \in [Storage -> SenderState]
         /\ listener'[s].pc = "receive" /\ sender'[s].pc = "idle"
         /\ \A t \in Storage \ {s} : listener'[t] = listener[t] /\ sender'[t] = sender[t]
  BY ListenerMoved, SenderMoved, InitialValues DEF LaunchSlaveThreads

\* A process that ends leaves nothing behind but what it had sent.
LEMMA EmptySequences ==
  /\ <<>> \in Seq(Job) /\ <<>> \in Seq(Message) /\ <<>> \in Seq(Value)
  BY EmptySeq

\* The first sector of a replication is a volume of one sector.
LEMMA SingleSequence == \A v \in Value : <<v>> \in Seq(Value)
  OBVIOUS

\* What remains of a PPD that ended is well typed, and no other PPD changes.
LEMMA EndedType ==
  ASSUME NetworkTypeOK, NodeTypeOK, NEW s \in Storage, Ends(s),
         UNCHANGED <<misplaced, dropped>>
  PROVE  /\ NodeTypeOK' /\ toPpd' \in [Storage -> Seq(Message)]
         /\ ppdStatus'[s] = "dead"
         /\ \A t \in Storage \ {s} : ppdStatus'[t] = ppdStatus[t]
  BY EmptySequences DEF Ends, NodeTypeOK, NetworkTypeOK

\* A read may be queued for a storage that is NULL or gone.
LEMMA QueueReadType ==
  ASSUME StorageTypeOK, ThreadTypeOK, NEW s, NEW job \in Job, QueueRead(s, job)
  PROVE  /\ pending' \in [Storage -> Seq(Job)]
         /\ \A t \in Storage : pending[t] # <<>> => pending'[t] # <<>>
         /\ lostReads' \subseteq Socket
  <1>1. \A t \in Storage : pending'[t] = pending[t] \/ pending'[t] = Append(pending[t], job)
    BY DEF StorageTypeOK, QueueRead
  <1>2. \A t \in Storage : pending[t] \in Seq(Job)
    BY DEF StorageTypeOK
  <1>3. \A t \in Storage : Append(pending[t], job) \in Seq(Job) /\ Append(pending[t], job) # <<>>
    BY <1>2, AppendProperties
  <1>4. pending' \in [Storage -> Seq(Job)]
    BY <1>1, <1>2, <1>3 DEF StorageTypeOK, QueueRead
  <1>5. lostReads' \subseteq Socket
    BY DEF ThreadTypeOK, QueueRead, LoseReads, Job
  <1>6. QED
    BY <1>1, <1>3, <1>4, <1>5

\* A message sent to a PPD keeps the type of the connections, whoever it is
\* sent to.
LEMMA SendPpdType ==
  ASSUME NetworkTypeOK, NEW s, NEW message \in Message, SendPpd(s, message)
  PROVE  toPpd' \in [Storage -> Seq(Message)]
  <1>1. CASE toPpd' = toPpd
    BY <1>1 DEF NetworkTypeOK
  <1>2. CASE toPpd' = [toPpd EXCEPT ![s] = Append(@, message)] /\ s \in Storage
    BY <1>2 DEF NetworkTypeOK
  <1>3. CASE toPpd' = [toPpd EXCEPT ![s] = Append(@, message)] /\ s \notin Storage
    BY <1>3 DEF NetworkTypeOK
  <1>4. QED
    BY <1>1, <1>2, <1>3 DEF SendPpd

\* The sender found work and no replication.
LEMMA SenderCheckInvariant ==
  ASSUME IInv, NEW s \in Storage, SenderCheck(s),
         UNCHANGED <<nodeVars, deaths, clientVars>>
  PROVE  IInv'
  <1> USE DEF IInv, TypeOK, SenderCheck
  <1>1. /\ sender' \in [Storage -> SenderState]
        /\ sender'[s].pc = "cleared" /\ sender'[s].job = NoMessage
        /\ \A t \in Storage \ {s} : sender'[t] = sender[t]
    BY SenderMoved, InitialValues
  <1>2. ThreadTypeOK'
    BY <1>1 DEF ThreadTypeOK
  <1>3. MutexHeld'
    BY <1>1 DEF MutexHeld, HandingOver
  <1>4. StaysDisconnected'
    BY <1>1 DEF StaysDisconnected, HandingOver
  <1>5. ThreadsHoldJobs'
    BY <1>1 DEF ThreadsHoldJobs
  <1>6. StorageTypeOK' /\ NetworkTypeOK' /\ NodeTypeOK' /\ ClientTypeOK'
    BY DEF StorageTypeOK, NetworkTypeOK, NodeTypeOK, ClientTypeOK
  <1>7. QED
    BY <1>2, <1>3, <1>4, <1>5, <1>6

\* The sender takes the lock and sends: a storage it finds connected is not being
\* handed over.
LEMMA SenderSendInvariant ==
  ASSUME IInv, NEW s \in Storage, SenderSend(s),
         UNCHANGED <<nodeVars, deaths, clientVars>>
  PROVE  IInv'
  <1> USE DEF IInv, TypeOK, SenderSend
  <1>1. Head(pending[s]) \in Job /\ Tail(pending[s]) \in Seq(Job)
    BY HeadAndTail DEF StorageTypeOK, ThreadsHoldJobs
  <1>2. /\ sender' \in [Storage -> SenderState]
        /\ sender'[s].pc = "sent" /\ sender'[s].job = Head(pending[s])
        /\ \A t \in Storage \ {s} : sender'[t] = sender[t]
    BY <1>1, SenderMoved, InitialValues DEF Message
  <1>3. StorageTypeOK'
    BY <1>1, <1>2 DEF StorageTypeOK
  <1>4. ThreadTypeOK'
    BY <1>1, <1>2 DEF ThreadTypeOK
  <1>5. NetworkTypeOK'
    BY <1>1, <1>2, SendPpdType DEF NetworkTypeOK, Message
  <1>6. MutexHeld'
    BY <1>1, <1>2 DEF MutexHeld, HandingOver, StorageTypeOK
  <1>7. StaysDisconnected'
    BY <1>1, <1>2, ZenonT(60) DEF StaysDisconnected, HandingOver, StorageTypeOK
  <1>8. ThreadsHoldJobs'
    BY <1>1, <1>2 DEF ThreadsHoldJobs
  <1>9. NodeTypeOK' /\ ClientTypeOK'
    BY DEF NodeTypeOK, ClientTypeOK
  <1>10. QED
    BY <1>3, <1>4, <1>5, <1>6, <1>7, <1>8, <1>9

\* The sender ends.
LEMMA SenderExitInvariant ==
  ASSUME IInv, NEW s \in Storage, SenderExit(s),
         UNCHANGED <<nodeVars, deaths, clientVars>>
  PROVE  IInv'
  <1> USE DEF IInv, TypeOK, SenderExit
  <1>1. /\ sender' \in [Storage -> SenderState]
        /\ sender'[s].pc = "done" /\ sender'[s].job = NoMessage
        /\ \A t \in Storage \ {s} : sender'[t] = sender[t]
    BY SenderMoved, InitialValues
  <1>2. ThreadTypeOK'
    BY <1>1 DEF ThreadTypeOK
  <1>3. MutexHeld'
    BY <1>1 DEF MutexHeld, HandingOver
  <1>4. StaysDisconnected'
    BY <1>1 DEF StaysDisconnected, HandingOver
  <1>5. ThreadsHoldJobs'
    BY <1>1 DEF ThreadsHoldJobs
  <1>6. StorageTypeOK' /\ NetworkTypeOK' /\ NodeTypeOK' /\ ClientTypeOK'
    BY DEF StorageTypeOK, NetworkTypeOK, NodeTypeOK, ClientTypeOK
  <1>7. QED
    BY <1>2, <1>3, <1>4, <1>5, <1>6

\* The sender notes the job as sent, and keeps the lock for a read.
LEMMA SenderRecordInvariant ==
  ASSUME IInv, NEW s \in Storage, SenderRecord(s),
         UNCHANGED <<nodeVars, deaths, clientVars>>
  PROVE  IInv'
  <1> USE DEF IInv, TypeOK, SenderRecord
  <1>1. sender[s].job \in Job /\ responses[s] \in 0 .. CounterMod - 1
    BY DEF StorageTypeOK, ThreadsHoldJobs
  <1>2. /\ sender' \in [Storage -> SenderState]
        /\ \/ /\ sender'[s].pc = "count" /\ sender'[s].job = sender[s].job
              /\ mutex' = mutex
           \/ sender'[s].pc = "idle" /\ mutex' = [mutex EXCEPT ![s] = "free"]
        /\ \A t \in Storage \ {s} : sender'[t] = sender[t]
    BY <1>1, SenderMoved, InitialValues DEF Message, SenderLoops
  <1>3. StorageTypeOK'
    <2>1. sended' \in [Storage -> Seq(Job)]
      BY <1>1 DEF StorageTypeOK
    <2>2. mutex' \in [Storage -> {"free", "sender", "listener"}]
      BY <1>2 DEF StorageTypeOK
    <2>3. QED
      BY <2>1, <2>2 DEF StorageTypeOK
  <1>4. ThreadTypeOK'
    BY <1>1, <1>2 DEF ThreadTypeOK
  <1>5. MutexHeld'
    BY <1>1, <1>2, ZenonT(60) DEF MutexHeld, HandingOver, StorageTypeOK
  <1>6. StaysDisconnected'
    BY <1>1, <1>2, ZenonT(60) DEF StaysDisconnected, HandingOver, StorageTypeOK
  <1>7. ThreadsHoldJobs'
    BY <1>1, <1>2 DEF ThreadsHoldJobs
  <1>8. NetworkTypeOK' /\ NodeTypeOK' /\ ClientTypeOK'
    BY DEF NetworkTypeOK, NodeTypeOK, ClientTypeOK
  <1>9. QED
    BY <1>3, <1>4, <1>5, <1>6, <1>7, <1>8

\* The sender counts the read and lets the lock go.
LEMMA SenderCountInvariant ==
  ASSUME IInv, NEW s \in Storage, SenderCount(s),
         UNCHANGED <<nodeVars, deaths, clientVars>>
  PROVE  IInv'
  <1> USE DEF IInv, TypeOK, SenderCount
  <1>1. /\ sender' \in [Storage -> SenderState]
        /\ sender'[s].pc = "idle" /\ sender'[s].job = NoMessage
        /\ \A t \in Storage \ {s} : sender'[t] = sender[t]
    BY SenderMoved, InitialValues DEF SenderLoops
  <1>2. Incremented(sender[s].loaded) \in 0 .. CounterMod - 1
    BY ThreadFields, CounterType
  <1>3. StorageTypeOK'
    BY <1>1, <1>2 DEF StorageTypeOK
  <1>4. ThreadTypeOK'
    BY <1>1, <1>2 DEF ThreadTypeOK
  <1>5. MutexHeld'
    BY <1>1, <1>2 DEF MutexHeld, HandingOver, StorageTypeOK
  <1>6. StaysDisconnected'
    BY <1>1, <1>2 DEF StaysDisconnected, HandingOver, StorageTypeOK
  <1>7. ThreadsHoldJobs'
    BY <1>1, <1>2 DEF ThreadsHoldJobs
  <1>8. NetworkTypeOK' /\ NodeTypeOK' /\ ClientTypeOK'
    BY DEF NetworkTypeOK, NodeTypeOK, ClientTypeOK
  <1>9. QED
    BY <1>3, <1>4, <1>5, <1>6, <1>7, <1>8

\* The listener takes an answer.
LEMMA ListenerResponseInvariant ==
  ASSUME IInv, NEW s \in Storage, ListenerResponse(s),
         UNCHANGED <<nodeVars, deaths, clientVars>>
  PROVE  IInv'
  <1> USE DEF IInv, TypeOK, ListenerResponse
  <1>1. /\ fromPpd[s] \in Seq(Message) /\ fromPpd[s] # <<>>
        /\ Head(fromPpd[s]) \in Message /\ Tail(fromPpd[s]) \in Seq(Message)
        /\ responses[s] \in 0 .. CounterMod - 1
    BY HeadAndTail DEF NetworkTypeOK, StorageTypeOK, Receives
  <1>2. /\ listener' \in [Storage -> ListenerState]
        /\ listener'[s].pc = "reply"
        /\ \A t \in Storage \ {s} : listener'[t] = listener[t]
    BY <1>1, ListenerMoved
  <1>3. ThreadTypeOK'
    BY <1>1, <1>2 DEF ThreadTypeOK
  <1>4. NetworkTypeOK'
    BY <1>1, <1>2 DEF NetworkTypeOK, Receives
  <1>5. MutexHeld'
    BY <1>1, <1>2 DEF MutexHeld, HandingOver, Receives
  <1>6. StaysDisconnected'
    BY <1>1, <1>2 DEF StaysDisconnected, HandingOver, Receives
  <1>7. ThreadsHoldJobs'
    BY <1>1, <1>2 DEF ThreadsHoldJobs
  <1>8. StorageTypeOK' /\ NodeTypeOK' /\ ClientTypeOK'
    BY DEF StorageTypeOK, NodeTypeOK, ClientTypeOK
  <1>9. QED
    BY <1>3, <1>4, <1>5, <1>6, <1>7, <1>8

\* The listener answers the PFS connection.
LEMMA ListenerReplyInvariant ==
  ASSUME IInv, NEW s \in Storage, ListenerReply(s),
         UNCHANGED <<nodeVars, deaths, clientVars>>
  PROVE  IInv'
  <1> USE DEF IInv, TypeOK, ListenerReply
  <1>1. /\ listener[s].message \in Message
        /\ Decremented(listener[s].loaded) \in 0 .. CounterMod - 1
    BY ThreadFields, CounterType
  <1>2. /\ listener' \in [Storage -> ListenerState]
        /\ listener'[s].pc = "forget"
        /\ \A t \in Storage \ {s} : listener'[t] = listener[t]
    BY <1>1, ListenerMoved, InitialValues
  <1>3. StorageTypeOK'
    BY <1>1, <1>2 DEF StorageTypeOK
  <1>4. ThreadTypeOK'
    BY <1>1, <1>2 DEF ThreadTypeOK
  <1>5. NetworkTypeOK'
    <2>1. replies' \in [Socket -> Seq(Message)]
      <3>1. CASE listener[s].message.socket \in Socket
        BY <1>1, <3>1 DEF NetworkTypeOK
      <3>2. CASE listener[s].message.socket \notin Socket
        BY <3>2 DEF NetworkTypeOK
      <3>3. QED
        BY <3>1, <3>2
    <2>2. QED
      BY <2>1 DEF NetworkTypeOK
  <1>6. MutexHeld'
    BY <1>1, <1>2 DEF MutexHeld, HandingOver
  <1>7. StaysDisconnected'
    BY <1>1, <1>2 DEF StaysDisconnected, HandingOver
  <1>8. ThreadsHoldJobs'
    BY <1>1, <1>2 DEF ThreadsHoldJobs
  <1>9. NodeTypeOK' /\ ClientTypeOK'
    BY DEF NodeTypeOK, ClientTypeOK
  <1>10. QED
    BY <1>3, <1>4, <1>5, <1>6, <1>7, <1>8, <1>9

\* The listener forgets the job it has answered.
LEMMA ListenerForgetInvariant ==
  ASSUME IInv, NEW s \in Storage, ListenerForget(s),
         UNCHANGED <<nodeVars, deaths, clientVars>>
  PROVE  IInv'
  <1> USE DEF IInv, TypeOK, ListenerForget
  <1>1. /\ listener' \in [Storage -> ListenerState]
        /\ listener'[s].pc = "receive"
        /\ \A t \in Storage \ {s} : listener'[t] = listener[t]
    BY ListenerMoved, InitialValues DEF ListenerLoops
  <1>2. RemoveFirstOf(sended[s], listener[s].message.sector) \in Seq(Job)
    BY RemoveFirstOfType DEF StorageTypeOK
  <1>3. StorageTypeOK'
    BY <1>1, <1>2 DEF StorageTypeOK
  <1>4. ThreadTypeOK'
    BY <1>1, <1>2 DEF ThreadTypeOK
  <1>5. MutexHeld'
    BY <1>1, <1>2 DEF MutexHeld, HandingOver
  <1>6. StaysDisconnected'
    BY <1>1, <1>2 DEF StaysDisconnected, HandingOver
  <1>7. ThreadsHoldJobs'
    BY <1>1, <1>2 DEF ThreadsHoldJobs
  <1>8. NetworkTypeOK' /\ NodeTypeOK' /\ ClientTypeOK'
    BY DEF NetworkTypeOK, NodeTypeOK, ClientTypeOK
  <1>9. QED
    BY <1>3, <1>4, <1>5, <1>6, <1>7, <1>8

\* The listener forwards a sector.
LEMMA ListenerSyncPutInvariant ==
  ASSUME IInv, NEW s \in Storage, ListenerSyncPut(s),
         UNCHANGED <<nodeVars, deaths, clientVars>>
  PROVE  IInv'
  <1> USE DEF IInv, TypeOK, ListenerSyncPut
  <1>1. /\ fromPpd[s] \in Seq(Message) /\ fromPpd[s] # <<>>
        /\ Head(fromPpd[s]) \in Message /\ Tail(fromPpd[s]) \in Seq(Message)
    BY HeadAndTail DEF NetworkTypeOK, Receives
  <1>2. NetworkTypeOK'
    BY <1>1, SendPpdType DEF NetworkTypeOK, Receives
  <1>3. StorageTypeOK' /\ ThreadTypeOK' /\ NodeTypeOK' /\ ClientTypeOK' /\ MutexHeld'
     /\ StaysDisconnected' /\ ThreadsHoldJobs'
    BY DEF StorageTypeOK, ThreadTypeOK, NodeTypeOK, ClientTypeOK, MutexHeld,
       StaysDisconnected, ThreadsHoldJobs, HandingOver
  <1>4. QED
    BY <1>2, <1>3

\* The listener ends the replication.
LEMMA ListenerSyncEndInvariant ==
  ASSUME IInv, NEW s \in Storage, ListenerSyncEnd(s),
         UNCHANGED <<nodeVars, deaths, clientVars>>
  PROVE  IInv'
  <1> USE DEF IInv, TypeOK, ListenerSyncEnd
  <1>1. /\ fromPpd[s] \in Seq(Message) /\ fromPpd[s] # <<>>
        /\ Tail(fromPpd[s]) \in Seq(Message)
        /\ Sync("syncEnd", 0) \in Message
    BY HeadAndTail, InitialValues DEF NetworkTypeOK, Receives
  <1>2. StorageTypeOK'
    BY <1>1 DEF StorageTypeOK
  <1>3. NetworkTypeOK'
    BY <1>1, SendPpdType DEF NetworkTypeOK, Receives
  <1>4. ThreadTypeOK' /\ NodeTypeOK' /\ ClientTypeOK' /\ MutexHeld' /\
     StaysDisconnected' /\ ThreadsHoldJobs'
    BY DEF ThreadTypeOK, NodeTypeOK, ClientTypeOK, MutexHeld, StaysDisconnected,
       ThreadsHoldJobs, HandingOver
  <1>5. QED
    BY <1>2, <1>3, <1>4

\* The listener sees the end of the connection.
LEMMA ListenerDisconnectedInvariant ==
  ASSUME IInv, NEW s \in Storage, ListenerDisconnected(s),
         UNCHANGED <<nodeVars, deaths, clientVars>>
  PROVE  IInv'
  <1> USE DEF IInv, TypeOK, ListenerDisconnected
  <1>1. /\ listener' \in [Storage -> ListenerState]
        /\ listener'[s].pc = "disconnected"
        /\ \A t \in Storage \ {s} : listener'[t] = listener[t]
    BY ListenerMoved, InitialValues
  <1>2. StorageTypeOK'
    BY <1>1 DEF StorageTypeOK
  <1>3. ThreadTypeOK'
    BY <1>1 DEF ThreadTypeOK
  <1>4. MutexHeld'
    BY <1>1 DEF MutexHeld, HandingOver
  <1>5. StaysDisconnected'
    BY <1>1 DEF StaysDisconnected, HandingOver, StorageTypeOK
  <1>6. ThreadsHoldJobs'
    BY <1>1 DEF ThreadsHoldJobs
  <1>7. NetworkTypeOK' /\ NodeTypeOK' /\ ClientTypeOK'
    BY DEF NetworkTypeOK, NodeTypeOK, ClientTypeOK
  <1>8. QED
    BY <1>2, <1>3, <1>4, <1>5, <1>6, <1>7

\* The listener takes the lock: no sender is in its section.
LEMMA ProcessDisconnectionInvariant ==
  ASSUME IInv, NEW s \in Storage, ProcessDisconnection(s),
         UNCHANGED <<nodeVars, deaths, clientVars>>
  PROVE  IInv'
  <1> USE DEF IInv, TypeOK, ProcessDisconnection
  <1>1. /\ listener' \in [Storage -> ListenerState]
        /\ listener'[s].pc = "collectPending" /\ listener'[s].orphans = <<>>
        /\ \A t \in Storage \ {s} : listener'[t] = listener[t]
    BY HandoverMoved, InitialValues
  <1>2. StorageTypeOK'
    BY <1>1 DEF StorageTypeOK
  <1>3. ThreadTypeOK'
    BY <1>1 DEF ThreadTypeOK
  <1>4. MutexHeld'
    BY <1>1 DEF MutexHeld, HandingOver, StorageTypeOK
  <1>5. StaysDisconnected'
    BY <1>1 DEF StaysDisconnected, HandingOver, StorageTypeOK
  <1>6. ThreadsHoldJobs'
    BY <1>1 DEF ThreadsHoldJobs
  <1>7. NetworkTypeOK' /\ NodeTypeOK' /\ ClientTypeOK'
    BY DEF NetworkTypeOK, NodeTypeOK, ClientTypeOK
  <1>8. QED
    BY <1>2, <1>3, <1>4, <1>5, <1>6, <1>7

\* The listener scans the queues of the storage.
LEMMA CollectReadInvariant ==
  ASSUME IInv, NEW s \in Storage, CollectRead(s),
         UNCHANGED <<nodeVars, deaths, clientVars>>
  PROVE  IInv'
  <1> USE DEF IInv, TypeOK, CollectRead
  <1>1. ScannedQueue(s) \in Seq(Job) /\ listener[s].orphans \in Seq(Job) /\ listener[s].scanned \in Nat
    BY ThreadFields DEF StorageTypeOK, ScannedQueue
  <1>2. ASSUME listener[s].scanned + 1 <= Len(ScannedQueue(s))
        PROVE  AddRead(listener[s].orphans, ScannedQueue(s)[listener[s].scanned + 1])
                 \in Seq(Job)
    <2>1. ScannedQueue(s)[listener[s].scanned + 1] \in Job
      BY <1>1, <1>2
    <2>2. QED
      BY <1>1, <2>1 DEF AddRead
  <1>3. /\ listener' \in [Storage -> ListenerState]
        /\ listener'[s].pc \in {"collectPending", "collectSended", "remove"}
        /\ \A t \in Storage \ {s} : listener'[t] = listener[t]
    <2>1. CASE listener[s].scanned + 1 <= Len(ScannedQueue(s))
      BY <1>1, <1>2, <2>1, HandoverMoved
    <2>2. CASE ~ (listener[s].scanned + 1 <= Len(ScannedQueue(s)))
      BY <1>1, <2>2, HandoverMoved DEF AfterQueue
    <2>3. QED
      BY <2>1, <2>2
  <1>4. ThreadTypeOK'
    BY <1>1, <1>2, <1>3 DEF ThreadTypeOK
  <1>5. MutexHeld'
    BY <1>1, <1>2, <1>3 DEF MutexHeld, HandingOver
  <1>6. StaysDisconnected'
    BY <1>1, <1>2, <1>3 DEF StaysDisconnected, HandingOver
  <1>7. ThreadsHoldJobs'
    BY <1>1, <1>2, <1>3 DEF ThreadsHoldJobs
  <1>8. StorageTypeOK' /\ NetworkTypeOK' /\ NodeTypeOK' /\ ClientTypeOK'
    BY DEF StorageTypeOK, NetworkTypeOK, NodeTypeOK, ClientTypeOK
  <1>9. QED
    BY <1>4, <1>5, <1>6, <1>7, <1>8

\* The storage leaves the list.
LEMMA RemoveDisconnectedInvariant ==
  ASSUME IInv, NEW s \in Storage, RemoveDisconnected(s),
         UNCHANGED <<nodeVars, deaths, clientVars>>
  PROVE  IInv'
  <1> USE DEF IInv, TypeOK, RemoveDisconnected
  <1>1. listener[s].orphans \in Seq(Job)
    BY ThreadFields
  <1>2. /\ listener' \in [Storage -> ListenerState]
        /\ \/ listener'[s].pc = "done" /\ mutex' = [mutex EXCEPT ![s] = "free"]
           \/ /\ listener'[s].pc = "redistribute" /\ mutex' = mutex
              /\ listener'[s].orphans # <<>>
        /\ \A t \in Storage \ {s} : listener'[t] = listener[t]
    <2>1. CASE listener[s].orphans = <<>>
      BY <2>1, ListenerMoved, InitialValues DEF ListenerEnds
    <2>2. CASE listener[s].orphans # <<>>
      BY <1>1, <2>2, HandoverMoved
    <2>3. QED
      BY <2>1, <2>2
  <1>3. StorageTypeOK'
    <2>1. storages' \in Seq(Storage) /\ link' \in [Storage -> Storage \cup {Nil}]
      BY RemoveStorageType
    <2>2. mutex' \in [Storage -> {"free", "sender", "listener"}]
      BY <1>2 DEF StorageTypeOK
    <2>3. QED
      BY <2>1, <2>2 DEF StorageTypeOK
  <1>4. ThreadTypeOK'
    BY <1>1, <1>2 DEF ThreadTypeOK
  <1>5. MutexHeld'
    BY <1>1, <1>2, ZenonT(60) DEF MutexHeld, HandingOver, StorageTypeOK
  <1>6. StaysDisconnected'
    BY <1>1, <1>2, ZenonT(60) DEF StaysDisconnected, HandingOver, StorageTypeOK
  <1>7. ThreadsHoldJobs'
    BY <1>1, <1>2 DEF ThreadsHoldJobs
  <1>8. NetworkTypeOK' /\ NodeTypeOK' /\ ClientTypeOK'
    BY DEF NetworkTypeOK, NodeTypeOK, ClientTypeOK
  <1>9. QED
    BY <1>3, <1>4, <1>5, <1>6, <1>7, <1>8

\* The listener asks the balancer for a storage.
LEMMA ChooseCandidateInvariant ==
  ASSUME IInv, NEW s \in Storage, ChooseCandidate(s),
         UNCHANGED <<nodeVars, deaths, clientVars>>
  PROVE  IInv'
  <1> USE DEF IInv, TypeOK, ChooseCandidate
  <1>1. listener[s].orphans \in Seq(Job)
    BY ThreadFields
  <1>2. /\ listener' \in [Storage -> ListenerState]
        /\ \/ listener'[s].pc = "done" /\ mutex' = [mutex EXCEPT ![s] = "free"]
           \/ /\ listener'[s].pc = "assign" /\ mutex' = mutex
              /\ listener'[s].orphans = listener[s].orphans
        /\ \A t \in Storage \ {s} : listener'[t] = listener[t]
    <2>1. CASE ListenerEnds(s) /\ mutex' = [mutex EXCEPT ![s] = "free"]
      BY <2>1, ListenerMoved, InitialValues DEF ListenerEnds
    <2>2. CASE /\ mutex' = mutex
               /\ \E candidate \in Storage \cup {Nil} :
                     ListenerMoves(s, HandoverAt("assign", 0, listener[s].orphans, candidate))
      BY <1>1, <2>2, HandoverMoved
    <2>3. QED
      BY <2>1, <2>2
  <1>3. lostReads' \subseteq Socket
    <2>1. \A job \in ToSet(listener[s].orphans) : job.socket \in Socket
      BY <1>1, ToSetOfJobs
    <2>2. { job.socket : job \in ToSet(listener[s].orphans) } \subseteq Socket
      BY <2>1
    <2>3. CASE UNCHANGED lostReads
      BY <2>3 DEF ThreadTypeOK
    <2>4. CASE LoseReads({ job.socket : job \in ToSet(listener[s].orphans) })
      BY <2>2, <2>4 DEF ThreadTypeOK, LoseReads
    <2>5. QED
      BY <2>3, <2>4
  <1>4. mutex[s] = "listener" /\ sender[s].pc \notin {"sent", "count"}
    BY DEF MutexHeld, HandingOver, Redistributing
  <1>5. StorageTypeOK'
    BY <1>1, <1>2, <1>3, <1>4 DEF StorageTypeOK
  <1>6. ThreadTypeOK'
    BY <1>1, <1>2, <1>3, <1>4 DEF ThreadTypeOK
  <1>7. MutexHeld'
    BY <1>1, <1>2, <1>3, <1>4, ZenonT(60) DEF MutexHeld, HandingOver, StorageTypeOK
  <1>8. StaysDisconnected'
    BY <1>1, <1>2, <1>3, <1>4, ZenonT(60) DEF StaysDisconnected, HandingOver, Redistributing,
       StorageTypeOK
  <1>9. ThreadsHoldJobs'
    BY <1>1, <1>2, <1>3, <1>4 DEF ThreadsHoldJobs, Redistributing
  <1>10. NetworkTypeOK' /\ NodeTypeOK' /\ ClientTypeOK'
    BY DEF NetworkTypeOK, NodeTypeOK, ClientTypeOK
  <1>11. QED
    BY <1>5, <1>6, <1>7, <1>8, <1>9, <1>10

\* The listener hands a read over.
LEMMA AssignJobInvariant ==
  ASSUME IInv, NEW s \in Storage, AssignJob(s),
         UNCHANGED <<nodeVars, deaths, clientVars>>
  PROVE  IInv'
  <1> USE DEF IInv, TypeOK, AssignJob
  <1>1. /\ listener[s].orphans \in Seq(Job) /\ listener[s].orphans # <<>>
        /\ Head(listener[s].orphans) \in Job /\ Tail(listener[s].orphans) \in Seq(Job)
    BY ThreadFields, HeadAndTail DEF ThreadsHoldJobs
  <1>2. /\ listener' \in [Storage -> ListenerState]
        /\ \/ listener'[s].pc = "done" /\ mutex' = [mutex EXCEPT ![s] = "free"]
           \/ /\ listener'[s].pc = "choose" /\ mutex' = mutex
              /\ listener'[s].orphans # <<>>
        /\ \A t \in Storage \ {s} : listener'[t] = listener[t]
    <2>1. CASE Len(listener[s].orphans) = 1
      BY <2>1, ListenerMoved, InitialValues DEF ListenerEnds
    <2>2. CASE Len(listener[s].orphans) # 1
      <3>1. Tail(listener[s].orphans) # <<>>
        BY <1>1, <2>2, LongTail
      <3>2. QED
        BY <1>1, <2>2, <3>1, HandoverMoved
    <2>3. QED
      BY <2>1, <2>2
  <1>3. /\ pending' \in [Storage -> Seq(Job)]
        /\ \A t \in Storage : pending[t] # <<>> => pending'[t] # <<>>
        /\ lostReads' \subseteq Socket
    BY <1>1, QueueReadType
  <1>4. StorageTypeOK'
    BY <1>1, <1>2, <1>3 DEF StorageTypeOK
  <1>5. ThreadTypeOK'
    <2>1. UNCHANGED <<up, acceptor, worker, sender>>
      OBVIOUS
    <2>2. QED
      BY <1>2, <1>3, <2>1, ListenerTyped
  <1>6. MutexHeld'
    BY <1>1, <1>2, <1>3, ZenonT(60) DEF MutexHeld, HandingOver, StorageTypeOK
  <1>7. StaysDisconnected'
    BY <1>1, <1>2, <1>3, ZenonT(60) DEF StaysDisconnected, HandingOver, StorageTypeOK
  <1>8. ThreadsHoldJobs'
    BY <1>1, <1>2, <1>3 DEF ThreadsHoldJobs
  <1>9. NetworkTypeOK' /\ NodeTypeOK' /\ ClientTypeOK'
    BY DEF NetworkTypeOK, NodeTypeOK, ClientTypeOK
  <1>10. QED
    BY <1>4, <1>5, <1>6, <1>7, <1>8, <1>9

\* A PPD is turned away.
LEMMA DenyPpdInvariant ==
  ASSUME IInv, NEW s \in Storage, DenyPpd(s),
         UNCHANGED <<nodeVars, deaths, clientVars>>
  PROVE  IInv'
  <1> USE DEF IInv, TypeOK, DenyPpd
  <1>1. NodeTypeOK'
    BY DEF NodeTypeOK
  <1>2. StaysDisconnected'
    BY DEF StaysDisconnected, HandingOver, NodeTypeOK
  <1>3. StorageTypeOK' /\ ThreadTypeOK' /\ NetworkTypeOK' /\ ClientTypeOK' /\
     MutexHeld' /\ ThreadsHoldJobs'
    BY DEF StorageTypeOK, ThreadTypeOK, NetworkTypeOK, ClientTypeOK, MutexHeld,
       ThreadsHoldJobs, HandingOver
  <1>4. QED
    BY <1>1, <1>2, <1>3

\* A PPD comes in: no thread of its storage runs yet.
LEMMA AcceptPpdInvariant ==
  ASSUME IInv, NEW s \in Storage, AcceptPpd(s),
         UNCHANGED <<nodeVars, deaths, clientVars>>
  PROVE  IInv'
  <1> USE DEF IInv, TypeOK, AcceptPpd
  <1>1. /\ acceptor' \in AcceptorState
        /\ acceptor'.destiny = s
    BY DEF AcceptorAt, AcceptorState
  <1>2. StorageTypeOK'
    BY <1>1 DEF StorageTypeOK
  <1>3. ThreadTypeOK'
    BY <1>1 DEF ThreadTypeOK
  <1>4. NodeTypeOK'
    BY <1>1 DEF NodeTypeOK
  <1>5. StaysDisconnected'
    BY <1>1 DEF StaysDisconnected, HandingOver, StorageTypeOK, NodeTypeOK
  <1>6. NetworkTypeOK' /\ ClientTypeOK' /\ MutexHeld' /\ ThreadsHoldJobs'
    BY DEF NetworkTypeOK, ClientTypeOK, MutexHeld, ThreadsHoldJobs, HandingOver
  <1>7. QED
    BY <1>2, <1>3, <1>4, <1>5, <1>6

\* Its storage joins the list.
LEMMA AddPpdInvariant ==
  ASSUME IInv, AddPpd, UNCHANGED <<nodeVars, deaths, clientVars>>
  PROVE  IInv'
  <1> USE DEF IInv, TypeOK, AddPpd
  <1>1. /\ acceptor' \in AcceptorState
        /\ acceptor'.destiny = acceptor.destiny
    BY ThreadFields DEF AcceptorAt, AcceptorState
  <1>2. acceptor.destiny \in Storage
    BY DEF StaysDisconnected
  <1>3. storages' \in Seq(Storage) /\ link' \in [Storage -> Storage \cup {Nil}]
    BY <1>2, AddStorageType
  <1>4. StorageTypeOK'
    BY <1>1, <1>2, <1>3 DEF StorageTypeOK
  <1>5. ThreadTypeOK'
    BY <1>1, <1>2, <1>3 DEF ThreadTypeOK
  <1>6. StaysDisconnected'
    BY <1>1, <1>2, <1>3 DEF StaysDisconnected, HandingOver
  <1>7. NetworkTypeOK' /\ NodeTypeOK' /\ ClientTypeOK' /\ MutexHeld' /\
     ThreadsHoldJobs'
    BY DEF NetworkTypeOK, NodeTypeOK, ClientTypeOK, MutexHeld, ThreadsHoldJobs,
       HandingOver
  <1>8. QED
    BY <1>4, <1>5, <1>6, <1>7

\* The accepting thread decides whether the new PPD is to be replicated.
LEMMA ValidateReplicationInvariant ==
  ASSUME IInv, ValidateReplication, UNCHANGED <<nodeVars, deaths, clientVars>>
  PROVE  IInv'
  <1> USE DEF IInv, TypeOK, ValidateReplication
  <1>1. /\ acceptor.destiny \in Storage
        /\ listener[acceptor.destiny].pc = "off" /\ sender[acceptor.destiny].pc = "off"
        /\ ppdStatus[acceptor.destiny] # "offline"
    BY DEF StaysDisconnected
  <1>2. CASE Len(storages) >= 2 /\ ReplicationEnabled
    <2>1. /\ acceptor' = AcceptorAt("sleep", acceptor.destiny, acceptor.master)
          /\ UNCHANGED <<listener, sender, toPpd>>
      BY <1>2
    <2>2. /\ acceptor' \in AcceptorState
          /\ acceptor'.destiny = acceptor.destiny
      BY <2>1, ThreadFields DEF AcceptorAt, AcceptorState
    <2>3. ThreadTypeOK' /\ ThreadsHoldJobs'
      BY <2>1, <2>2 DEF ThreadTypeOK, ThreadsHoldJobs
    <2>4. MutexHeld'
      BY <2>1 DEF MutexHeld, HandingOver
    <2>5. StaysDisconnected'
      BY <1>1, <2>1, <2>2 DEF StaysDisconnected, HandingOver
    <2>6. NetworkTypeOK'
      BY <2>1 DEF NetworkTypeOK
    <2>7. StorageTypeOK' /\ NodeTypeOK' /\ ClientTypeOK'
      BY DEF StorageTypeOK, NodeTypeOK, ClientTypeOK
    <2>8. QED
      BY <2>3, <2>4, <2>5, <2>6, <2>7
  <1>3. CASE ~ (Len(storages) >= 2 /\ ReplicationEnabled)
    <2>1. /\ SendPpd(acceptor.destiny, Sync("syncEnd", 0))
          /\ LaunchSlaveThreads(acceptor.destiny)
          /\ acceptor' = AcceptorAt("accept", Nil, Nil)
      BY <1>3 DEF AcceptAgain
    <2>2. acceptor' \in AcceptorState /\ acceptor'.pc = "accept"
      BY <2>1 DEF AcceptorAt, AcceptorState
    <2>3. /\ listener' \in [Storage -> ListenerState]
          /\ sender' \in [Storage -> SenderState]
          /\ listener'[acceptor.destiny].pc = "receive"
          /\ sender'[acceptor.destiny].pc = "idle"
          /\ \A t \in Storage \ {acceptor.destiny} :
                listener'[t] = listener[t] /\ sender'[t] = sender[t]
      BY <1>1, <2>1, LaunchedThreads
    <2>4. toPpd' \in [Storage -> Seq(Message)]
      BY <2>1, SendPpdType, InitialValues
    <2>5. ThreadTypeOK' /\ NetworkTypeOK'
      BY <2>2, <2>3, <2>4 DEF ThreadTypeOK, NetworkTypeOK
    <2>6. MutexHeld'
      BY <1>1, <2>3 DEF MutexHeld, HandingOver
    <2>7. StaysDisconnected'
      BY <1>1, <2>2, <2>3 DEF StaysDisconnected, HandingOver
    <2>8. ThreadsHoldJobs'
      BY <1>1, <2>3 DEF ThreadsHoldJobs
    <2>9. StorageTypeOK' /\ NodeTypeOK' /\ ClientTypeOK'
      BY DEF StorageTypeOK, NodeTypeOK, ClientTypeOK
    <2>10. QED
      BY <2>5, <2>6, <2>7, <2>8, <2>9
  <1>4. QED
    BY <1>2, <1>3

\* The accepting thread wakes up.
LEMMA StartReplicationInvariant ==
  ASSUME IInv, NEW Quiet, StartReplication(Quiet),
         UNCHANGED <<nodeVars, deaths, clientVars>>
  PROVE  IInv'
  <1> USE DEF IInv, TypeOK, StartReplication
  <1>1. /\ acceptor' \in AcceptorState
        /\ acceptor'.destiny = acceptor.destiny
    BY ThreadFields DEF AcceptorAt, AcceptorState
  <1>2. StorageTypeOK'
    BY <1>1 DEF StorageTypeOK
  <1>3. ThreadTypeOK'
    BY <1>1 DEF ThreadTypeOK
  <1>4. StaysDisconnected'
    BY <1>1 DEF StaysDisconnected, HandingOver
  <1>5. NetworkTypeOK' /\ NodeTypeOK' /\ ClientTypeOK' /\ MutexHeld' /\
     ThreadsHoldJobs'
    BY DEF NetworkTypeOK, NodeTypeOK, ClientTypeOK, MutexHeld, ThreadsHoldJobs,
       HandingOver
  <1>6. QED
    BY <1>2, <1>3, <1>4, <1>5

\* The replication is fired and the threads of the new PPD start.
LEMMA FireSynchronizationInvariant ==
  ASSUME IInv, FireSynchronization, UNCHANGED <<nodeVars, deaths, clientVars>>
  PROVE  IInv'
  <1> USE DEF IInv, TypeOK, FireSynchronization
  <1>1. /\ acceptor.destiny \in Storage
        /\ listener[acceptor.destiny].pc = "off" /\ sender[acceptor.destiny].pc = "off"
        /\ ppdStatus[acceptor.destiny] # "offline"
        /\ acceptor.master \in Storage \cup {Nil}
    BY ThreadFields DEF StaysDisconnected
  <1>2. acceptor' \in AcceptorState /\ acceptor'.pc = "accept"
    BY DEF AcceptAgain, AcceptorAt, AcceptorState
  <1>3. /\ listener' \in [Storage -> ListenerState] /\ sender' \in [Storage -> SenderState]
        /\ listener'[acceptor.destiny].pc = "receive"
        /\ sender'[acceptor.destiny].pc = "idle"
        /\ \A t \in Storage \ {acceptor.destiny} :
              listener'[t] = listener[t] /\ sender'[t] = sender[t]
    BY <1>1, LaunchedThreads
  <1>4. toPpd' \in [Storage -> Seq(Message)]
    BY SendPpdType, InitialValues
  <1>5. StorageTypeOK'
    BY <1>1, <1>2, <1>3, <1>4 DEF StorageTypeOK
  <1>6. ThreadTypeOK'
    BY <1>1, <1>2, <1>3, <1>4 DEF ThreadTypeOK
  <1>7. NetworkTypeOK'
    BY <1>1, <1>2, <1>3, <1>4 DEF NetworkTypeOK
  <1>8. MutexHeld'
    BY <1>1, <1>2, <1>3, <1>4 DEF MutexHeld, HandingOver
  <1>9. StaysDisconnected'
    BY <1>1, <1>2, <1>3, <1>4, SMTT(60) DEF StaysDisconnected, HandingOver
  <1>10. ThreadsHoldJobs'
    BY <1>1, <1>2, <1>3, <1>4 DEF ThreadsHoldJobs
  <1>11. NodeTypeOK' /\ ClientTypeOK'
    BY DEF NodeTypeOK, ClientTypeOK
  <1>12. QED
    BY <1>5, <1>6, <1>7, <1>8, <1>9, <1>10, <1>11

\* A PFS connection comes in.
LEMMA AcceptPfsInvariant ==
  ASSUME IInv, NEW c \in Socket, AcceptPfs(c),
         UNCHANGED <<nodeVars, deaths, clientVars>>
  PROVE  IInv'
  <1> USE DEF IInv, TypeOK, AcceptPfs
  <1>1. /\ worker' \in [Socket -> WorkerState]
        /\ worker'[c].pc = "receive" /\ worker'[c].job = NoMessage
        /\ \A d \in Socket \ {c} : worker'[d] = worker[d]
    BY WorkerMoved, InitialValues DEF WorkerLoops
  <1>2. ThreadTypeOK'
    BY <1>1 DEF ThreadTypeOK
  <1>3. ThreadsHoldJobs'
    BY <1>1 DEF ThreadsHoldJobs
  <1>4. StorageTypeOK' /\ NetworkTypeOK' /\ NodeTypeOK' /\ ClientTypeOK' /\
     MutexHeld' /\ StaysDisconnected'
    BY DEF StorageTypeOK, NetworkTypeOK, NodeTypeOK, ClientTypeOK, MutexHeld,
       StaysDisconnected, HandingOver
  <1>5. QED
    BY <1>2, <1>3, <1>4

\* The thread of a PFS connection takes a request.
LEMMA PfsReceiveInvariant ==
  ASSUME IInv, NEW c \in Socket, PfsReceive(c),
         UNCHANGED <<nodeVars, deaths, clientVars>>
  PROVE  IInv'
  <1> USE DEF IInv, TypeOK, PfsReceive
  <1>1. /\ Head(requests[c]) \in Job /\ Tail(requests[c]) \in Seq(Job)
        /\ storages # <<>> => Head(storages) \in Storage
    BY HeadAndTail DEF NetworkTypeOK, StorageTypeOK
  <1>2. /\ worker' \in [Socket -> WorkerState]
        /\ worker'[c].pc \in {"walk", "put", "select", "enqueue"} => worker'[c].job \in Job
        /\ worker'[c].pc \in {"walk", "put"} => worker'[c].cursor \in Storage
        /\ \A d \in Socket \ {c} : worker'[d] = worker[d]
    <2>1. CASE WorkerMoves(c, WorkerAt("select", Head(requests[c]), Nil))
      BY <1>1, <2>1, WorkerMoved DEF Message
    <2>2. CASE /\ storages # <<>>
               /\ WorkerMoves(c, WorkerAt("walk", Head(requests[c]), Head(storages)))
      BY <1>1, <2>2, WorkerMoved DEF Message
    <2>3. CASE UNCHANGED worker
      BY <2>3 DEF ThreadTypeOK, ThreadsHoldJobs
    <2>4. QED
      BY <2>1, <2>2, <2>3
  <1>3. ThreadTypeOK'
    BY <1>1, <1>2 DEF ThreadTypeOK
  <1>4. NetworkTypeOK'
    BY <1>1, <1>2 DEF NetworkTypeOK
  <1>5. ThreadsHoldJobs'
    BY <1>1, <1>2 DEF ThreadsHoldJobs
  <1>6. StorageTypeOK' /\ NodeTypeOK' /\ ClientTypeOK' /\ MutexHeld' /\
     StaysDisconnected'
    BY DEF StorageTypeOK, NodeTypeOK, ClientTypeOK, MutexHeld, StaysDisconnected,
       HandingOver
  <1>7. QED
    BY <1>3, <1>4, <1>5, <1>6

\* The iteration of a write takes a node and reads its link.
LEMMA IterateStoragesInvariant ==
  ASSUME IInv, NEW c \in Socket, IterateStorages(c),
         UNCHANGED <<nodeVars, deaths, clientVars>>
  PROVE  IInv'
  <1> USE DEF IInv, TypeOK, IterateStorages
  <1>1. /\ worker[c].job \in Job /\ worker[c].cursor \in Storage
        /\ link[worker[c].cursor] \in Storage \cup {Nil}
    BY DEF ThreadsHoldJobs, StorageTypeOK
  <1>2. /\ worker' \in [Socket -> WorkerState]
        /\ worker'[c].job = worker[c].job /\ worker'[c].cursor = worker[c].cursor
        /\ \A d \in Socket \ {c} : worker'[d] = worker[d]
    BY <1>1, WorkerHasPut DEF Message
  <1>3. ThreadTypeOK'
    BY <1>1, <1>2 DEF ThreadTypeOK
  <1>4. ThreadsHoldJobs'
    BY <1>1, <1>2 DEF ThreadsHoldJobs
  <1>5. StorageTypeOK' /\ NetworkTypeOK' /\ NodeTypeOK' /\ ClientTypeOK' /\
     MutexHeld' /\ StaysDisconnected'
    BY DEF StorageTypeOK, NetworkTypeOK, NodeTypeOK, ClientTypeOK, MutexHeld,
       StaysDisconnected, HandingOver
  <1>6. QED
    BY <1>3, <1>4, <1>5

\* The write is queued there.
LEMMA ExecutePutInvariant ==
  ASSUME IInv, NEW c \in Socket, ExecutePut(c),
         UNCHANGED <<nodeVars, deaths, clientVars>>
  PROVE  IInv'
  <1> USE DEF IInv, TypeOK, ExecutePut
  <1>1. /\ worker[c].job \in Job /\ worker[c].cursor \in Storage
        /\ worker[c].next \in Storage \cup {Nil}
    BY ThreadFields DEF ThreadsHoldJobs
  <1>2. /\ worker' \in [Socket -> WorkerState]
        /\ worker'[c].pc \in {"walk", "put", "select", "enqueue"} => worker'[c].job \in Job
        /\ worker'[c].pc \in {"walk", "put"} => worker'[c].cursor \in Storage
        /\ \A d \in Socket \ {c} : worker'[d] = worker[d]
    <2>1. CASE worker[c].next = Nil
      BY <2>1, WorkerMoved, InitialValues DEF WorkerLoops
    <2>2. CASE worker[c].next # Nil
      BY <1>1, <2>2, WorkerMoved DEF Message
    <2>3. QED
      BY <2>1, <2>2
  <1>3. /\ pending' \in [Storage -> Seq(Job)]
        /\ \A t \in Storage : pending[t] # <<>> => pending'[t] # <<>>
    <2>1. pending \in [Storage -> Seq(Job)]
      BY DEF StorageTypeOK
    <2>2. pending' = [pending EXCEPT ![worker[c].cursor] = Append(@, worker[c].job)]
      OBVIOUS
    <2>3. QED
      BY <1>1, <2>1, <2>2, QueuedType
  <1>4. StorageTypeOK'
    BY <1>1, <1>2, <1>3 DEF StorageTypeOK
  <1>5. ThreadTypeOK'
    BY <1>1, <1>2, <1>3 DEF ThreadTypeOK
  <1>6. ThreadsHoldJobs'
    BY <1>1, <1>2, <1>3 DEF ThreadsHoldJobs
  <1>7. NetworkTypeOK' /\ NodeTypeOK' /\ ClientTypeOK' /\ MutexHeld' /\
     StaysDisconnected'
    BY DEF NetworkTypeOK, NodeTypeOK, ClientTypeOK, MutexHeld, StaysDisconnected,
       HandingOver
  <1>8. QED
    BY <1>4, <1>5, <1>6, <1>7

\* The balancer chooses a storage for a read.
LEMMA SelectForGetInvariant ==
  ASSUME IInv, NEW c \in Socket, SelectForGet(c),
         UNCHANGED <<nodeVars, deaths, clientVars>>
  PROVE  IInv'
  <1> USE DEF IInv, TypeOK, SelectForGet
  <1>1. worker[c].job \in Job
    BY DEF ThreadsHoldJobs
  <1>2. /\ worker' \in [Socket -> WorkerState]
        /\ worker'[c].pc = "enqueue" /\ worker'[c].job = worker[c].job
        /\ \A d \in Socket \ {c} : worker'[d] = worker[d]
    BY <1>1, WorkerMoved DEF Message
  <1>3. up' \in BOOLEAN
    OBVIOUS
  <1>4. ThreadTypeOK'
    BY <1>1, <1>2, <1>3 DEF ThreadTypeOK
  <1>5. ThreadsHoldJobs'
    BY <1>1, <1>2, <1>3 DEF ThreadsHoldJobs
  <1>6. StorageTypeOK' /\ NetworkTypeOK' /\ NodeTypeOK' /\ ClientTypeOK' /\
     MutexHeld' /\ StaysDisconnected'
    BY DEF StorageTypeOK, NetworkTypeOK, NodeTypeOK, ClientTypeOK, MutexHeld,
       StaysDisconnected, HandingOver
  <1>7. QED
    BY <1>4, <1>5, <1>6

\* The read is queued for the storage chosen before.
LEMMA EnqueueGetInvariant ==
  ASSUME IInv, NEW c \in Socket, EnqueueGet(c),
         UNCHANGED <<nodeVars, deaths, clientVars>>
  PROVE  IInv'
  <1> USE DEF IInv, TypeOK, EnqueueGet
  <1>1. worker[c].job \in Job
    BY DEF ThreadsHoldJobs
  <1>2. /\ worker' \in [Socket -> WorkerState]
        /\ worker'[c].pc = "receive" /\ worker'[c].job = NoMessage
        /\ \A d \in Socket \ {c} : worker'[d] = worker[d]
    BY WorkerMoved, InitialValues DEF WorkerLoops
  <1>3. /\ pending' \in [Storage -> Seq(Job)]
        /\ \A t \in Storage : pending[t] # <<>> => pending'[t] # <<>>
        /\ lostReads' \subseteq Socket
    BY <1>1, QueueReadType
  <1>4. StorageTypeOK'
    BY <1>1, <1>2, <1>3 DEF StorageTypeOK
  <1>5. ThreadTypeOK'
    BY <1>1, <1>2, <1>3 DEF ThreadTypeOK
  <1>6. ThreadsHoldJobs'
    BY <1>1, <1>2, <1>3 DEF ThreadsHoldJobs
  <1>7. NetworkTypeOK' /\ NodeTypeOK' /\ ClientTypeOK' /\ MutexHeld' /\
     StaysDisconnected'
    BY DEF NetworkTypeOK, NodeTypeOK, ClientTypeOK, MutexHeld, StaysDisconnected,
       HandingOver
  <1>8. QED
    BY <1>4, <1>5, <1>6, <1>7

\* The PPD queues a job.
LEMMA NodeQueueJobInvariant ==
  ASSUME IInv, NEW s \in Storage, NodeQueueJob(s), UNCHANGED clientVars
  PROVE  IInv'
  <1> USE DEF IInv, TypeOK, NodeQueueJob
  <1>1. /\ Head(toPpd[s]) \in Message /\ Tail(toPpd[s]) \in Seq(Message)
    BY HeadAndTail DEF NetworkTypeOK, Takes
  <1>2. Head(toPpd[s]) \in Job
    BY <1>1 DEF Takes, Message, SyncMessage
  <1>3. NetworkTypeOK'
    BY <1>1, <1>2 DEF NetworkTypeOK, Takes
  <1>4. jobs' \in [Storage -> Seq(Job)] /\ misplaced' \subseteq Sector
    <2>1. jobs[s] \in Seq(Job) /\ Head(toPpd[s]).sector \in Sector
      BY <1>2 DEF NodeTypeOK, Job
    <2>2. CASE QueueInOrder(s, Head(toPpd[s]))
      BY <1>2, <2>2 DEF QueueInOrder, NodeTypeOK
    <2>3. ASSUME NEW i \in DOMAIN jobs[s], Misplace(s, Head(toPpd[s]), i)
          PROVE  jobs' \in [Storage -> Seq(Job)] /\ misplaced' \subseteq Sector
      <3>1. InsertAt(jobs[s], i, Head(toPpd[s])) \in Seq(Job)
        BY <1>2, <2>1, InsertAtType
      <3>2. QED
        BY <2>1, <2>3, <3>1 DEF Misplace, NodeTypeOK
    <2>4. QED
      BY <2>2, <2>3
  <1>5. NodeTypeOK'
    BY <1>4 DEF NodeTypeOK, Takes
  <1>6. StorageTypeOK' /\ ThreadTypeOK' /\ ClientTypeOK' /\ MutexHeld' /\
     StaysDisconnected' /\ ThreadsHoldJobs'
    BY DEF StorageTypeOK, ThreadTypeOK, ClientTypeOK, MutexHeld, StaysDisconnected,
       ThreadsHoldJobs, HandingOver
  <1>7. QED
    BY <1>3, <1>5, <1>6

\* Its list of jobs loses one.
LEMMA NodeLosesJobInvariant ==
  ASSUME IInv, NEW s \in Storage, NodeLosesJob(s), UNCHANGED clientVars
  PROVE  IInv'
  <1> USE DEF IInv, TypeOK, NodeLosesJob
  <1>1. PICK i \in DOMAIN jobs[s] :
          /\ jobs' = [jobs EXCEPT ![s] = RemoveAt(@, i)]
          /\ dropped' = dropped \cup {jobs[s][i].sector}
    OBVIOUS
  <1>2. jobs[s] \in Seq(Job) /\ jobs[s][i] \in Job
    BY ElementOfSeq DEF NodeTypeOK
  <1>3. RemoveAt(jobs[s], i) \in Seq(Job) /\ jobs[s][i].sector \in Sector
    BY <1>2, RemoveAtType DEF Job
  <1>4. NodeTypeOK'
    BY <1>1, <1>3 DEF NodeTypeOK
  <1>5. StorageTypeOK' /\ ThreadTypeOK' /\ ClientTypeOK' /\ NetworkTypeOK' /\ MutexHeld' /\
     StaysDisconnected' /\ ThreadsHoldJobs'
    BY DEF StorageTypeOK, ThreadTypeOK, ClientTypeOK, NetworkTypeOK, networkVars, MutexHeld,
       StaysDisconnected, ThreadsHoldJobs, HandingOver, praidVars, threadVars, storageVars,
       clusterVars, syncVars
  <1>6. QED
    BY <1>4, <1>5

\* The PPD opens its volume file to be replicated, or ends.
LEMMA NodeSyncGetInvariant ==
  ASSUME IInv, NEW s \in Storage, NodeSyncGet(s), UNCHANGED clientVars
  PROVE  IInv'
  <1> USE DEF IInv, TypeOK, NodeSyncGet
  <1>1. NetworkTypeOK' /\ NodeTypeOK' /\ StaysDisconnected'
    <2>1. CASE /\ Takes(s, {"syncGet"})
               /\ stream' = [stream EXCEPT ![s] = 1]
               /\ UNCHANGED <<ppdStatus, disk, mapped, jobs, rebuilding, ready, deaths>>
      <3>1. Tail(toPpd[s]) \in Seq(Message)
        BY <2>1, HeadAndTail DEF NetworkTypeOK, Takes
      <3>2. NetworkTypeOK'
        BY <2>1, <3>1 DEF NetworkTypeOK, Takes
      <3>3. NodeTypeOK'
        BY <2>1 DEF NodeTypeOK
      <3>4. StaysDisconnected'
        BY <2>1 DEF StaysDisconnected, HandingOver
      <3>5. QED
        BY <3>2, <3>3, <3>4
    <2>2. CASE Ends(s)
      BY <2>2, EndedType DEF NetworkTypeOK, StaysDisconnected, HandingOver
    <2>3. QED
      BY <2>1, <2>2
  <1>2. StorageTypeOK' /\ ThreadTypeOK' /\ ClientTypeOK' /\ MutexHeld' /\
     ThreadsHoldJobs'
    BY DEF StorageTypeOK, ThreadTypeOK, ClientTypeOK, MutexHeld, ThreadsHoldJobs,
       HandingOver
  <1>3. QED
    BY <1>1, <1>2

\* The PPD sends a sector.
LEMMA NodeStreamInvariant ==
  ASSUME IInv, NEW s \in Storage, NodeStream(s), UNCHANGED clientVars
  PROVE  IInv'
  <1> USE DEF IInv, TypeOK, NodeStream
  <1>1. Sync("syncPut", disk[s][stream[s]]) \in Message
    <2>1. disk[s] \in Seq(Value) /\ stream[s] \in DOMAIN disk[s]
      BY DEF NodeTypeOK
    <2>2. disk[s][stream[s]] \in Value
      BY <2>1, ElementOfSeq, LenProperties
    <2>3. QED
      BY <2>2, InitialValues
  <1>2. fromPpd' \in [Storage -> Seq(Message)]
    BY <1>1 DEF NetworkTypeOK
  <1>3. NetworkTypeOK'
    BY <1>1, <1>2 DEF NetworkTypeOK
  <1>4. NodeTypeOK'
    BY <1>1, <1>2 DEF NodeTypeOK
  <1>5. StorageTypeOK' /\ ThreadTypeOK' /\ ClientTypeOK' /\ MutexHeld' /\
     StaysDisconnected' /\ ThreadsHoldJobs'
    BY DEF StorageTypeOK, ThreadTypeOK, ClientTypeOK, MutexHeld, StaysDisconnected,
       ThreadsHoldJobs, HandingOver
  <1>6. QED
    BY <1>3, <1>4, <1>5

\* The PPD takes its mapping away.
LEMMA NodeUnmapInvariant ==
  ASSUME IInv, NEW s \in Storage, NodeUnmap(s), UNCHANGED clientVars
  PROVE  IInv'
  <1> USE DEF IInv, TypeOK, NodeUnmap, networkVars
  <1>1. NetworkTypeOK' /\ NodeTypeOK'
    BY DEF NetworkTypeOK, NodeTypeOK
  <1>2. StorageTypeOK' /\ ThreadTypeOK' /\ ClientTypeOK' /\ MutexHeld' /\
     StaysDisconnected' /\ ThreadsHoldJobs'
    BY DEF StorageTypeOK, ThreadTypeOK, ClientTypeOK, MutexHeld, StaysDisconnected,
       ThreadsHoldJobs, HandingOver
  <1>3. QED
    BY <1>1, <1>2

\* The PPD has sent its volume.
LEMMA NodeStreamEndInvariant ==
  ASSUME IInv, NEW s \in Storage, NodeStreamEnd(s), UNCHANGED clientVars
  PROVE  IInv'
  <1> USE DEF IInv, TypeOK, NodeStreamEnd
  <1>1. Sync("syncEnd", 0) \in Message
    BY InitialValues
  <1>2. fromPpd' \in [Storage -> Seq(Message)]
    BY <1>1 DEF NetworkTypeOK
  <1>3. NetworkTypeOK'
    BY <1>1, <1>2 DEF NetworkTypeOK
  <1>4. NodeTypeOK'
    BY <1>1, <1>2 DEF NodeTypeOK
  <1>5. StorageTypeOK' /\ ThreadTypeOK' /\ ClientTypeOK' /\ MutexHeld' /\
     StaysDisconnected' /\ ThreadsHoldJobs'
    BY DEF StorageTypeOK, ThreadTypeOK, ClientTypeOK, MutexHeld, StaysDisconnected,
       ThreadsHoldJobs, HandingOver
  <1>6. QED
    BY <1>3, <1>4, <1>5

\* The PPD appends a sector to its volume.
LEMMA NodeSyncPutInvariant ==
  ASSUME IInv, NEW s \in Storage, NodeSyncPut(s), UNCHANGED clientVars
  PROVE  IInv'
  <1> USE DEF IInv, TypeOK, NodeSyncPut
  <1>1. /\ Head(toPpd[s]) \in Message /\ Tail(toPpd[s]) \in Seq(Message)
    BY HeadAndTail DEF NetworkTypeOK, Takes
  <1>2. Head(toPpd[s]).value \in Value
    BY <1>1 DEF Message, Job, SyncMessage
  <1>3. disk' \in [Storage -> Seq(Value)]
    BY <1>2, SingleSequence DEF NodeTypeOK
  <1>4. NetworkTypeOK'
    BY <1>1, <1>2, <1>3 DEF NetworkTypeOK, Takes
  <1>5. NodeTypeOK'
    BY <1>1, <1>2, <1>3 DEF NodeTypeOK, Takes
  <1>6. StorageTypeOK' /\ ThreadTypeOK' /\ ClientTypeOK' /\ MutexHeld' /\
     StaysDisconnected' /\ ThreadsHoldJobs'
    BY DEF StorageTypeOK, ThreadTypeOK, ClientTypeOK, MutexHeld, StaysDisconnected,
       ThreadsHoldJobs, HandingOver
  <1>7. QED
    BY <1>4, <1>5, <1>6

\* The PPD is told to process jobs.
LEMMA NodeSyncEndInvariant ==
  ASSUME IInv, NEW s \in Storage, NodeSyncEnd(s), UNCHANGED clientVars
  PROVE  IInv'
  <1> USE DEF IInv, TypeOK, NodeSyncEnd
  <1>1. /\ Head(toPpd[s]) \in Message /\ Tail(toPpd[s]) \in Seq(Message)
    BY HeadAndTail DEF NetworkTypeOK, Takes
  <1>2. NetworkTypeOK'
    BY <1>1 DEF NetworkTypeOK, Takes
  <1>3. NodeTypeOK'
    BY <1>1 DEF NodeTypeOK, Takes
  <1>4. StorageTypeOK' /\ ThreadTypeOK' /\ ClientTypeOK' /\ MutexHeld' /\
     StaysDisconnected' /\ ThreadsHoldJobs'
    BY DEF StorageTypeOK, ThreadTypeOK, ClientTypeOK, MutexHeld, StaysDisconnected,
       ThreadsHoldJobs, HandingOver
  <1>5. QED
    BY <1>2, <1>3, <1>4

\* The PPD executes a job, or faults on a sector it does not hold or has not mapped.
LEMMA NodeExecuteInvariant ==
  ASSUME IInv, NEW s \in Storage, NodeExecute(s), UNCHANGED clientVars
  PROVE  IInv'
  <1> USE DEF IInv, TypeOK, NodeExecute
  <1>1. PICK i \in DOMAIN jobs[s] : Executes(s, i)
    OBVIOUS
  <1>2. NetworkTypeOK' /\ NodeTypeOK' /\ StaysDisconnected'
    <2>1. CASE mapped[s] /\ jobs[s][i].sector \in DOMAIN disk[s]
      <3>1. jobs[s] \in Seq(Job) /\ disk[s] \in Seq(Value)
        BY DEF NodeTypeOK
      <3>2. jobs[s][i] \in Job
        BY <3>1, ElementOfSeq, LenProperties
      <3>3. jobs' \in [Storage -> Seq(Job)]
        <4>1. jobs' = [jobs EXCEPT ![s] = RemoveAt(jobs[s], i)]
          BY <1>1, <2>1 DEF Executes, NodeTypeOK
        <4>2. RemoveAt(jobs[s], i) \in Seq(Job)
          BY <3>1, RemoveAtType
        <4>3. QED
          BY <4>1, <4>2 DEF NodeTypeOK
      <3>4. disk' \in [Storage -> Seq(Value)]
        <4>1. CASE jobs[s][i].op = "put"
          <5>1. jobs[s][i].value \in Value
            BY <3>2 DEF Job
          <5>2. [disk[s] EXCEPT ![jobs[s][i].sector] = jobs[s][i].value] \in Seq(Value)
            BY <2>1, <3>1, <5>1, ExceptSeq
          <5>3. disk' = [disk EXCEPT ![s] =
                            [disk[s] EXCEPT ![jobs[s][i].sector] = jobs[s][i].value]]
            BY <1>1, <2>1, <4>1 DEF Executes
          <5>4. QED
            BY <5>2, <5>3 DEF NodeTypeOK
        <4>2. CASE jobs[s][i].op # "put"
          BY <1>1, <2>1, <4>2 DEF Executes, NodeTypeOK
        <4>3. QED
          BY <4>1, <4>2
      <3>5. fromPpd' \in [Storage -> Seq(Message)]
        <4>1. CASE jobs[s][i].op = "put"
          BY <1>1, <2>1, <4>1 DEF Executes, NetworkTypeOK
        <4>2. CASE jobs[s][i].op # "put"
          <5>1. disk[s][jobs[s][i].sector] \in Value
            BY <2>1, <3>1, ElementOfSeq, LenProperties
          <5>2. [jobs[s][i] EXCEPT !.value = disk[s][jobs[s][i].sector]] \in Message
            BY <3>2, <5>1 DEF Job, Message
          <5>3. fromPpd' = [fromPpd EXCEPT ![s] = Append(fromPpd[s],
                               [jobs[s][i] EXCEPT !.value = disk[s][jobs[s][i].sector]])]
            BY <1>1, <2>1, <4>2 DEF Executes
          <5>4. QED
            BY <5>2, <5>3 DEF NetworkTypeOK
        <4>3. QED
          BY <4>1, <4>2
      <3>6. UNCHANGED <<toPpd, ppdStatus, mapped, stream, rebuilding, ready, deaths>>
        BY <1>1, <2>1 DEF Executes
      <3>7. NetworkTypeOK' /\ NodeTypeOK'
        BY <3>3, <3>4, <3>5, <3>6 DEF NetworkTypeOK, NodeTypeOK
      <3>8. StaysDisconnected'
        BY <3>6 DEF StaysDisconnected, HandingOver
      <3>9. QED
        BY <3>7, <3>8
    <2>2. CASE ~ (mapped[s] /\ jobs[s][i].sector \in DOMAIN disk[s])
      <3>1. Ends(s) /\ UNCHANGED fromPpd
        BY <1>1, <2>2 DEF Executes
      <3>2. NetworkTypeOK' /\ NodeTypeOK'
        BY <3>1, EndedType DEF NetworkTypeOK
      <3>3. StaysDisconnected'
        BY <3>1, EndedType DEF StaysDisconnected, HandingOver
      <3>4. QED
        BY <3>2, <3>3
    <2>3. QED
      BY <2>1, <2>2
  <1>3. StorageTypeOK' /\ ThreadTypeOK' /\ ClientTypeOK' /\ MutexHeld' /\
     ThreadsHoldJobs'
    BY DEF StorageTypeOK, ThreadTypeOK, ClientTypeOK, MutexHeld, ThreadsHoldJobs,
       HandingOver
  <1>4. QED
    BY <1>2, <1>3

\* The PPD dies.
LEMMA NodeDiesInvariant ==
  ASSUME IInv, NEW s \in Storage, NodeDies(s), UNCHANGED clientVars
  PROVE  IInv'
  <1> USE DEF IInv, TypeOK, NodeDies
  <1>1. NetworkTypeOK' /\ NodeTypeOK'
    BY EndedType DEF NetworkTypeOK
  <1>2. StaysDisconnected'
    BY EndedType DEF StaysDisconnected, HandingOver
  <1>3. StorageTypeOK' /\ ThreadTypeOK' /\ ClientTypeOK' /\ MutexHeld' /\
     ThreadsHoldJobs'
    BY DEF StorageTypeOK, ThreadTypeOK, ClientTypeOK, MutexHeld, ThreadsHoldJobs,
       HandingOver
  <1>4. QED
    BY <1>1, <1>2, <1>3

\* A PFS thread asks for a sector.
LEMMA ClientGetInvariant ==
  ASSUME IInv, NEW c \in Socket, NEW x \in Sector, ClientGet(c, x)
  PROVE  IInv'
  <1> USE DEF IInv, TypeOK, ClientGet
  <1>1. [op |-> "get", socket |-> c, sector |-> x, value |-> 0] \in Job
    BY InitialValues DEF Job
  <1>2. x \in 0 .. VolumeSectors
    BY PraidAssumption DEF Sector
  <1>3. gets' \in 0 .. MaxGets
    BY PraidAssumption DEF ClientTypeOK
  <1>4. NetworkTypeOK'
    BY <1>1, <1>2, <1>3 DEF NetworkTypeOK
  <1>5. ClientTypeOK'
    BY <1>1, <1>2, <1>3 DEF ClientTypeOK
  <1>6. StorageTypeOK' /\ ThreadTypeOK' /\ NodeTypeOK' /\ MutexHeld' /\
     StaysDisconnected' /\ ThreadsHoldJobs'
    BY DEF StorageTypeOK, ThreadTypeOK, NodeTypeOK, MutexHeld, StaysDisconnected,
       ThreadsHoldJobs, HandingOver
  <1>7. QED
    BY <1>4, <1>5, <1>6

\* A PFS thread writes a sector.
LEMMA ClientPutInvariant ==
  ASSUME IInv, NEW c \in Socket, NEW x \in Sector, ClientPut(c, x)
  PROVE  IInv'
  <1> USE DEF IInv, TypeOK, ClientPut
  <1>1. puts' \in 0 .. MaxPuts /\ puts + 1 \in Value
    BY PraidAssumption DEF ClientTypeOK, Value, Stale
  <1>2. [op |-> "put", socket |-> c, sector |-> x, value |-> puts + 1] \in Job
    BY <1>1 DEF Job
  <1>3. NetworkTypeOK'
    BY <1>1, <1>2 DEF NetworkTypeOK
  <1>4. ClientTypeOK'
    BY <1>1, <1>2 DEF ClientTypeOK
  <1>5. StorageTypeOK' /\ ThreadTypeOK' /\ NodeTypeOK' /\ MutexHeld' /\
     StaysDisconnected' /\ ThreadsHoldJobs'
    BY DEF StorageTypeOK, ThreadTypeOK, NodeTypeOK, MutexHeld, StaysDisconnected,
       ThreadsHoldJobs, HandingOver
  <1>6. QED
    BY <1>3, <1>4, <1>5

\* A PFS thread takes its answer.
LEMMA ClientReceiveInvariant ==
  ASSUME IInv, NEW c \in Socket, ClientReceive(c)
  PROVE  IInv'
  <1> USE DEF IInv, TypeOK, ClientReceive
  <1>1. /\ Tail(replies[c]) \in Seq(Message)
        /\ 0 \in 0 .. VolumeSectors
    BY PraidAssumption, HeadAndTail DEF NetworkTypeOK
  <1>2. NetworkTypeOK'
    BY <1>1 DEF NetworkTypeOK
  <1>3. ClientTypeOK'
    BY <1>1 DEF ClientTypeOK
  <1>4. StorageTypeOK' /\ ThreadTypeOK' /\ NodeTypeOK' /\ MutexHeld' /\
     StaysDisconnected' /\ ThreadsHoldJobs'
    BY DEF StorageTypeOK, ThreadTypeOK, NodeTypeOK, MutexHeld, StaysDisconnected,
       ThreadsHoldJobs, HandingOver
  <1>5. QED
    BY <1>2, <1>3, <1>4

\* The invariant holds when the cluster starts.
LEMMA InitInvariant == Init => IInv
  <1> SUFFICES ASSUME Init PROVE IInv
    OBVIOUS
  <1> USE DEF Init, InitPraid, InitNode, InitClient
  <1>1. \A s \in Storage : link[s] \in Storage \cup {Nil}
    <2> TAKE s \in Storage
    <2>1. CASE \E i \in 1 .. Len(InitialStorages) - 1 : InitialStorages[i] = s
      <3>1. DEFINE i == CHOOSE i \in 1 .. Len(InitialStorages) - 1 : InitialStorages[i] = s
      <3>2. i \in 1 .. Len(InitialStorages) - 1
        BY <2>1
      <3>3. InitialStorages[1 + i] \in Storage
        BY <3>2, PraidAssumption, ElementOfSeq, LenProperties
      <3>4. QED
        BY <2>1, <3>3
    <2>2. CASE ~ \E i \in 1 .. Len(InitialStorages) - 1 : InitialStorages[i] = s
      BY <2>2
    <2>3. QED
      BY <2>1, <2>2
  <1>2. StorageTypeOK
    <2>1. storages \in Seq(Storage) /\ link \in [Storage -> Storage \cup {Nil}]
      BY <1>1, PraidAssumption
    <2>2. QED
      BY <2>1, InitialValues DEF StorageTypeOK
  <1>3. ThreadTypeOK
    <2>1. acceptor \in AcceptorState
      BY DEF AcceptorAt, AcceptorState
    <2>2. worker \in [Socket -> WorkerState]
      BY InitialValues DEF WorkerAt, WorkerState
    <2>3. sender \in [Storage -> SenderState]
      BY InitialValues DEF SenderAt, SenderState
    <2>4. listener \in [Storage -> ListenerState]
      BY InitialValues DEF ListenerAt, ListenerState
    <2>5. QED
      BY <2>1, <2>2, <2>3, <2>4 DEF ThreadTypeOK
  <1>4. NetworkTypeOK
    BY EmptySequences DEF NetworkTypeOK
  <1>5. NodeTypeOK
    <2>1. \A v \in Value : Volume(v) \in Seq(Value)
      BY PraidAssumption DEF Volume, Sector
    <2>2. 0 \in Value /\ Stale \in Value
      BY PraidAssumption DEF Value, Stale
    <2>3. {<<>>, Volume(0), Volume(Stale)} \subseteq Seq(Value)
      BY <2>1, <2>2, EmptySequences
    <2>4. disk \in [Storage -> {<<>>, Volume(0), Volume(Stale)}]
      OBVIOUS
    <2>5. disk \in [Storage -> Seq(Value)]
      <3> HIDE DEF Init, InitPraid, InitNode, InitClient
      <3>1. QED
        BY <2>3, <2>4
    <2>6. QED
      BY <2>5, PraidAssumption, EmptySequences DEF NodeTypeOK
  <1>6. ClientTypeOK
    BY PraidAssumption, InitialValues DEF ClientTypeOK
  <1>7. MutexHeld
    BY DEF MutexHeld, HandingOver, SenderAt, ListenerAt
  <1>8. StaysDisconnected
    BY DEF StaysDisconnected, HandingOver, SenderAt, ListenerAt, AcceptorAt
  <1>9. ThreadsHoldJobs
    BY DEF ThreadsHoldJobs, WorkerAt, SenderAt, ListenerAt
  <1>10. QED
    BY <1>2, <1>3, <1>4, <1>5, <1>6, <1>7, <1>8, <1>9 DEF IInv, TypeOK

\* A step that changes nothing keeps the invariant.
LEMMA StutterInvariant ==
  ASSUME IInv, UNCHANGED vars
  PROVE  IInv'
  BY DEF IInv, vars, TypeOK, StorageTypeOK, ThreadTypeOK, NetworkTypeOK, NodeTypeOK,
     ClientTypeOK, MutexHeld, HandingOver, StaysDisconnected, ThreadsHoldJobs

\* Every step of the RAID process keeps the invariant.
LEMMA PraidStepInvariant ==
  ASSUME IInv, PraidStep
  PROVE  IInv'
  <1>1. UNCHANGED <<nodeVars, deaths, clientVars>>
    BY DEF PraidStep
  <1>2. CASE Acceptor(Drained)
    BY <1>1, <1>2, DenyPpdInvariant, AcceptPpdInvariant, AddPpdInvariant,
       ValidateReplicationInvariant, StartReplicationInvariant,
       FireSynchronizationInvariant, AcceptPfsInvariant
       DEF Acceptor
  <1>3. CASE \E c \in Socket : Worker(c)
    BY <1>1, <1>3, PfsReceiveInvariant, IterateStoragesInvariant, ExecutePutInvariant, SelectForGetInvariant,
       EnqueueGetInvariant DEF Worker
  <1>4. CASE \E s \in Storage : Sender(s)
    BY <1>1, <1>4, SenderCheckInvariant, SenderSendInvariant, SenderExitInvariant,
       SenderRecordInvariant, SenderCountInvariant DEF Sender
  <1>5. CASE \E s \in Storage : Listener(s)
    BY <1>1, <1>5, ListenerResponseInvariant, ListenerReplyInvariant,
       ListenerForgetInvariant, ListenerSyncPutInvariant, ListenerSyncEndInvariant,
       ListenerDisconnectedInvariant, ProcessDisconnectionInvariant,
       CollectReadInvariant, RemoveDisconnectedInvariant, ChooseCandidateInvariant,
       AssignJobInvariant DEF Listener
  <1>6. QED
    BY <1>2, <1>3, <1>4, <1>5 DEF PraidStep

\* So does every other step.
LEMMA NextInvariant ==
  ASSUME IInv, [Next]_vars
  PROVE  IInv'
  <1>1. CASE UNCHANGED vars
    BY <1>1, StutterInvariant
  <1>2. CASE PraidStep
    BY <1>2, PraidStepInvariant
  <1>3. CASE NodeStep
    BY <1>3, NodeQueueJobInvariant, NodeSyncGetInvariant, NodeStreamInvariant,
       NodeUnmapInvariant, NodeStreamEndInvariant, NodeSyncPutInvariant, NodeSyncEndInvariant,
       NodeExecuteInvariant, NodeLosesJobInvariant, NodeDiesInvariant DEF NodeStep, Node
  <1>4. CASE ClientStep
    BY <1>4, ClientGetInvariant, ClientPutInvariant, ClientReceiveInvariant
       DEF ClientStep
  <1>5. QED
    BY <1>1, <1>2, <1>3, <1>4 DEF Next

-----------------------------------------------------------------------------
\* The inductive invariant holds in every reachable state: the data the threads
\* share keeps its types, disconnectionMutex excludes, and no thread works on
\* a storage after its time.
THEOREM RaidInvariant == Spec => []IInv
  BY InitInvariant, NextInvariant, PTL DEF Spec

\* Type correctness, for any number of PPDs, PFS connections and sectors.
THEOREM RaidTypeOK == Spec => []TypeOK
  <1>1. IInv => TypeOK
    BY DEF IInv
  <1>2. QED
    BY <1>1, RaidInvariant, PTL

\* The sender cannot be in its critical section while the listener of the same
\* storage is in its own, nor afterwards.
LEMMA NoSenderInside ==
  ASSUME IInv, NEW s \in Storage, HandingOver(s) \/ listener[s].pc = "done"
  PROVE  /\ ~ connected[s]
         /\ sender[s].pc \notin {"sent", "count"}
         /\ listener[s].pc # "forget"
  <1>1. ~ connected[s]
    BY DEF IInv, StaysDisconnected
  <1>2. mutex[s] # "sender"
    BY DEF IInv, StaysDisconnected, MutexHeld
  <1>3. QED
    BY <1>1, <1>2 DEF IInv, MutexHeld, HandingOver

\* The accepting thread only ever starts a sender.
LEMMA AcceptorStep ==
  ASSUME IInv, NEW Quiet, Acceptor(Quiet), NEW s \in Storage
  PROVE  sended'[s] = sended[s] /\ ~ Sending(s)
  <1>1. CASE sended' = sended /\ sender' = sender
    BY <1>1 DEF Sending
  <1>2. CASE /\ sended' = sended
             /\ acceptor.destiny \in Storage
             /\ LaunchSlaveThreads(acceptor.destiny)
    BY <1>2, LaunchedThreads DEF IInv, TypeOK, Sending
  <1>3. CASE ValidateReplication
    <2>1. acceptor.destiny \in Storage
      BY <1>3 DEF IInv, StaysDisconnected, ValidateReplication
    <2>2. QED
      BY <1>1, <1>2, <1>3, <2>1 DEF ValidateReplication
  <1>4. CASE FireSynchronization
    <2>1. acceptor.destiny \in Storage
      BY <1>4 DEF IInv, StaysDisconnected, FireSynchronization
    <2>2. QED
      BY <1>2, <1>4, <2>1 DEF FireSynchronization
  <1>5. CASE StartReplication(Quiet)
    BY <1>1, <1>5 DEF StartReplication
  <1>6. CASE \/ \E t \in Storage : DenyPpd(t) \/ AcceptPpd(t)
             \/ AddPpd
             \/ \E c \in Socket : AcceptPfs(c)
    BY <1>1, <1>6 DEF DenyPpd, AcceptPpd, AddPpd, AcceptPfs
  <1>7. QED
    BY <1>3, <1>4, <1>5, <1>6 DEF Acceptor

\* A sender that finds its storage disconnected sends nothing.
LEMMA SenderStep ==
  ASSUME IInv, NEW s \in Storage, NEW t \in Storage, Sender(t),
         ~ connected[s], sender[s].pc \notin {"sent", "count"}
  PROVE  sended'[s] = sended[s] /\ ~ Sending(s)
  <1>1. CASE t # s
    <2>1. sender'[s] = sender[s]
      BY <1>1 DEF IInv, TypeOK, ThreadTypeOK, Sender, SenderCheck, SenderSend, SenderExit,
         SenderRecord, SenderCount, SenderLoops, SenderMoves
    <2>2. sended'[s] = sended[s]
      BY <1>1 DEF IInv, TypeOK, StorageTypeOK, Sender, SenderCheck, SenderSend, SenderExit,
         SenderRecord, SenderCount
    <2>3. QED
      BY <2>1, <2>2 DEF Sending
  <1>2. CASE t = s
    <2>1. CASE SenderCheck(s)
      BY <2>1 DEF SenderCheck, Sending
    <2>2. CASE SenderExit(s)
      <3>1. sender'[s].pc = "done"
        BY <2>2, SenderMoved, InitialValues DEF SenderExit, IInv, TypeOK
      <3>2. QED
        BY <2>2, <3>1 DEF SenderExit, Sending
    <2>3. ~ SenderSend(s) /\ ~ SenderRecord(s) /\ ~ SenderCount(s)
      BY DEF SenderSend, SenderRecord, SenderCount
    <2>4. QED
      BY <1>2, <2>1, <2>2, <2>3 DEF Sender
  <1>3. QED
    BY <1>1, <1>2

\* A listener that is not about to forget a job leaves sendedJobs alone.
LEMMA ListenerStep ==
  ASSUME IInv, NEW s \in Storage, NEW t \in Storage, Listener(t), listener[s].pc # "forget"
  PROVE  sended'[s] = sended[s] /\ ~ Sending(s)
  <1>1. sender' = sender
    BY DEF Listener, ListenerResponse, ListenerReply, ListenerForget, ListenerSyncPut,
       ListenerSyncEnd, ListenerDisconnected, ProcessDisconnection, CollectRead,
       RemoveDisconnected, ChooseCandidate, AssignJob
  <1>2. CASE ListenerForget(t)
    <2>1. t # s
      BY <1>2 DEF ListenerForget
    <2>2. QED
      BY <1>1, <1>2, <2>1 DEF ListenerForget, Sending, IInv, TypeOK, StorageTypeOK
  <1>3. CASE sended' = sended
    BY <1>1, <1>3 DEF Sending
  <1>4. sended' = sended \/ ListenerForget(t)
    BY DEF Listener, ListenerResponse, ListenerReply, ListenerSyncPut,
       ListenerSyncEnd, ListenerDisconnected, ProcessDisconnection, CollectRead,
       RemoveDisconnected, ChooseCandidate, AssignJob
  <1>5. QED
    BY <1>2, <1>3, <1>4

\* A step of a thread of another storage, or of no storage, leaves sendedJobs
\* and the sender of s alone; so does every step of the threads of s that can
\* be taken once its listener collects.
LEMMA CollectedStep ==
  ASSUME IInv, [Next]_vars, NEW s \in Storage, HandingOver(s) \/ listener[s].pc = "done"
  PROVE  sended'[s] = sended[s] /\ ~ Sending(s)
  <1>1. /\ ~ connected[s]
        /\ sender[s].pc \notin {"sent", "count"}
        /\ listener[s].pc # "forget"
    BY NoSenderInside
  <1>2. ASSUME sended' = sended, sender' = sender
        PROVE  sended'[s] = sended[s] /\ ~ Sending(s)
    BY <1>1, <1>2 DEF Sending
  <1>3. CASE UNCHANGED vars
    BY <1>2, <1>3 DEF vars
  <1>4. CASE PraidStep
    <2>1. CASE Acceptor(Drained)
      BY <2>1, AcceptorStep
    <2>2. CASE \E c \in Socket : Worker(c)
      <3>1. sended' = sended /\ sender' = sender
        BY <2>2 DEF Worker, PfsReceive, IterateStorages, ExecutePut, SelectForGet, EnqueueGet
      <3>2. QED
        BY <1>2, <3>1
    <2>3. CASE \E t \in Storage : Sender(t)
      BY <1>1, <2>3, SenderStep
    <2>4. CASE \E t \in Storage : Listener(t)
      BY <1>1, <2>4, ListenerStep
    <2>5. QED
      BY <1>4, <2>1, <2>2, <2>3, <2>4 DEF PraidStep
  <1>5. CASE NodeStep
    <2>1. sended' = sended /\ sender' = sender
      BY <1>5 DEF NodeStep, Node, NodeQueueJob, NodeSyncGet, NodeStream, NodeUnmap,
         NodeStreamEnd, NodeSyncPut, NodeSyncEnd, NodeExecute, NodeLosesJob, NodeDies
    <2>2. QED
      BY <1>2, <2>1
  <1>6. CASE ClientStep
    <2>1. sended' = sended /\ sender' = sender
      BY <1>6 DEF ClientStep, ClientGet, ClientPut, ClientReceive
    <2>2. QED
      BY <1>2, <2>1
  <1>7. QED
    BY <1>3, <1>4, <1>5, <1>6 DEF Next

\* Once the listener of a storage has begun to collect its reads, nothing is
\* sent and nothing more is recorded as sent: disconnectionMutex and the second
\* look at connected do what they are there for, whatever the PPDs, the PFS
\* connections and their interleaving.
THEOREM RaidCollectedIsFinal == Spec => CollectedIsFinal
  <1>1. IInv /\ [Next]_vars =>
          [\A s \in Storage : HandingOver(s) \/ listener[s].pc = "done"
                                 => sended'[s] = sended[s] /\ ~ Sending(s)]_vars
    BY CollectedStep
  <1>2. QED
    BY <1>1, RaidInvariant, PTL DEF Spec, CollectedIsFinal

-----------------------------------------------------------------------------
\* The sender of the PPD that is being replicated has not got past the test of
\* the flag: its thread was started with the flag up.
DestinyWaits == \A s \in Storage : Replicating(s) => sender[s].pc # "cleared"

\* Which PPD is being replicated is decided by the acceptor alone, and what the
\* flag says of it by the listeners, which only lower it.
LEMMA AcceptorKeepsDestiny ==
  ASSUME IInv, DestinyWaits, NEW Quiet, Acceptor(Quiet), NEW s \in Storage, Replicating(s)'
  PROVE  sender'[s].pc # "cleared"
  <1>1. CASE Replicating(s) /\ sender' = sender
    BY <1>1 DEF DestinyWaits
  <1>2. CASE \/ \E t \in Storage : DenyPpd(t)
             \/ \E c \in Socket : AcceptPfs(c)
    BY <1>1, <1>2 DEF DenyPpd, AcceptPfs, praidVars, threadVars, syncVars, Replicating
  <1>3. CASE \E t \in Storage : AcceptPpd(t)
    BY <1>3 DEF AcceptPpd, syncVars, Replicating
  <1>4. CASE AddPpd
    BY <1>1, <1>4 DEF AddPpd, syncVars, Replicating
  <1>5. CASE ValidateReplication
    <2>1. acceptor.destiny \in Storage
      BY <1>5 DEF IInv, StaysDisconnected, ValidateReplication
    <2>2. Replicating(s)
      BY <1>5 DEF ValidateReplication, syncVars, Replicating
    <2>3. CASE LaunchSlaveThreads(acceptor.destiny)
      BY <2>1, <2>2, <2>3, LaunchedThreads DEF IInv, TypeOK, DestinyWaits
    <2>4. CASE UNCHANGED sender
      BY <2>2, <2>4 DEF DestinyWaits
    <2>5. QED
      BY <1>5, <2>3, <2>4 DEF ValidateReplication
  <1>6. CASE StartReplication(Quiet)
    BY <1>6 DEF StartReplication, AcceptorAt, Replicating
  <1>7. CASE FireSynchronization
    <2>1. acceptor.destiny \in Storage
      BY <1>7 DEF IInv, StaysDisconnected, FireSynchronization
    <2>2. s = acceptor.destiny
      BY <1>7 DEF FireSynchronization, Replicating
    <2>3. QED
      BY <1>7, <2>1, <2>2, LaunchedThreads DEF FireSynchronization, IInv, TypeOK
  <1>8. QED
    BY <1>2, <1>3, <1>4, <1>5, <1>6, <1>7 DEF Acceptor

LEMMA SenderKeepsDestiny ==
  ASSUME IInv, DestinyWaits, NEW t \in Storage, Sender(t), NEW s \in Storage, Replicating(s)'
  PROVE  sender'[s].pc # "cleared"
  <1>1. Replicating(s)
    <2>1. UNCHANGED <<syncVars, acceptor>>
      BY DEF Sender, SenderCheck, SenderSend, SenderExit, SenderRecord, SenderCount
    <2>2. QED
      BY <2>1 DEF syncVars, Replicating
  <1>2. CASE t # s
    <2>1. sender'[s] = sender[s]
      BY <1>2 DEF IInv, TypeOK, ThreadTypeOK, Sender, SenderCheck, SenderSend, SenderExit,
         SenderRecord, SenderCount, SenderLoops, SenderMoves
    <2>2. QED
      BY <1>1, <2>1 DEF DestinyWaits
  <1>3. CASE t = s
    <2>1. ~ SenderCheck(s)
      BY <1>1 DEF SenderCheck, Replicating
    <2>2. sender[s].pc # "cleared"
      BY <1>1 DEF DestinyWaits
    <2>3. CASE SenderExit(s) \/ SenderRecord(s) \/ SenderCount(s)
      BY <2>3 DEF SenderExit, SenderRecord, SenderCount, SenderLoops, SenderMoves, SenderAt,
         IInv, TypeOK, ThreadTypeOK
    <2>4. ~ SenderSend(s)
      BY <2>2 DEF SenderSend
    <2>5. QED
      BY <1>3, <2>1, <2>3, <2>4 DEF Sender
  <1>4. QED
    BY <1>2, <1>3

LEMMA ListenerKeepsDestiny ==
  ASSUME DestinyWaits, NEW t \in Storage, Listener(t), NEW s \in Storage, Replicating(s)'
  PROVE  sender'[s].pc # "cleared"
  <1>1. sender' = sender /\ acceptor' = acceptor /\ syncState' = syncState
    BY DEF Listener, ListenerResponse, ListenerReply, ListenerForget, ListenerSyncPut,
       ListenerSyncEnd, ListenerDisconnected, ProcessDisconnection, CollectRead,
       RemoveDisconnected, ChooseCandidate, AssignJob, praidVars, threadVars, syncVars
  <1>2. replicationActive' => replicationActive
    BY DEF Listener, ListenerResponse, ListenerReply, ListenerForget, ListenerSyncPut,
       ListenerSyncEnd, ListenerDisconnected, ProcessDisconnection, CollectRead,
       RemoveDisconnected, ChooseCandidate, AssignJob, praidVars, threadVars, syncVars
  <1>3. QED
    BY <1>1, <1>2 DEF DestinyWaits, Replicating

\* PFS, the PPDs and the PFS threads have no say in it.
LEMMA OthersKeepDestiny ==
  ASSUME DestinyWaits, UNCHANGED <<syncState, replicationActive, acceptor, sender>>
  PROVE  DestinyWaits'
  BY DEF DestinyWaits, Replicating

LEMMA DestinyWaitsStep ==
  ASSUME IInv, DestinyWaits, [Next]_vars
  PROVE  DestinyWaits'
  <1> USE DEF praidVars, syncVars, threadVars
  <1>1. CASE UNCHANGED vars
    BY <1>1, OthersKeepDestiny DEF vars
  <1>2. CASE PraidStep
    <2>1. CASE Acceptor(Drained)
      BY <2>1, AcceptorKeepsDestiny DEF DestinyWaits
    <2>2. CASE \E c \in Socket : Worker(c)
      BY <2>2, OthersKeepDestiny DEF Worker, PfsReceive, IterateStorages, ExecutePut, SelectForGet, EnqueueGet
    <2>3. CASE \E t \in Storage : Sender(t)
      BY <2>3, SenderKeepsDestiny DEF DestinyWaits
    <2>4. CASE \E t \in Storage : Listener(t)
      BY <2>4, ListenerKeepsDestiny DEF DestinyWaits
    <2>5. QED
      BY <1>2, <2>1, <2>2, <2>3, <2>4 DEF PraidStep
  <1>3. CASE NodeStep
    BY <1>3, OthersKeepDestiny DEF NodeStep, Node, NodeQueueJob, NodeSyncGet, NodeStream,
       NodeUnmap, NodeStreamEnd, NodeSyncPut, NodeSyncEnd, NodeExecute, NodeLosesJob, NodeDies
  <1>4. CASE ClientStep
    BY <1>4, OthersKeepDestiny DEF ClientStep, ClientGet, ClientPut, ClientReceive
  <1>5. QED
    BY <1>1, <1>2, <1>3, <1>4 DEF Next

\* No job is sent to the PPD that is being replicated, although its sender reads
\* the flag with no lock and sends later: the flag is up before that thread
\* starts, and only the acceptor raises it, for the next destiny.
THEOREM RaidDestinyHearsNoJob == Spec => DestinyHearsNoJob
  <1>1. Init => DestinyWaits
    BY DEF Init, InitPraid, DestinyWaits, Replicating
  <1>2. IInv /\ DestinyWaits /\ [Next]_vars => DestinyWaits'
    BY DestinyWaitsStep
  <1>3. DestinyWaits /\ [Next]_vars => [\A s \in Storage : Sending(s) => ~ Replicating(s)]_vars
    BY DEF DestinyWaits, Sending
  <1>4. QED
    BY <1>1, <1>2, <1>3, RaidInvariant, PTL DEF Spec, DestinyHearsNoJob

=============================================================================
