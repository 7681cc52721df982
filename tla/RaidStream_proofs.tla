-------------------------- MODULE RaidStream_proofs --------------------------
(***************************************************************************)
(* While no PPD has ended. The replication of a volume: at most one is on   *)
(* its way through PRAID, from the source that syncState names and with the *)
(* flag up, and with the replication enabled every PPD that runs has a      *)
(* volume or is given one, whole and once.  The reads: each is answered     *)
(* once, with the sector that was asked for.  The last part is what holds   *)
(* after PPDs have ended: no read gets out of reach of the hand-over.       *)
(***************************************************************************)
EXTENDS GrageRaid_proofs, FiniteSetTheorems

USE DEF praidVars, clusterVars, storageVars, syncVars, threadVars, networkVars,
        nodeVars, clientVars

Has(queue, ops) == \E i \in DOMAIN queue : queue[i].op \in ops

\* While no PPD has ended no listener has seen the end of a connection, and a
\* thread serves a PPD that runs; so does the acceptor.
NobodyEnded ==
    /\ \A s \in Storage :
          /\ listener[s].pc \in {"off", "receive", "reply", "forget"}
          /\ listener[s].pc # "off" \/ sender[s].pc # "off" => ppdStatus[s] = "running"
    /\ acceptor.pc # "accept" => ppdStatus[acceptor.destiny] = "running"

\* A PPD is asked for its volume once, and nothing of a volume follows its end.
OneAsk(queue) ==
    \A i, j \in DOMAIN queue : queue[i].op = "syncGet" /\ queue[j].op = "syncGet" => i = j
NothingAfterEnd(queue) ==
    \A i, j \in DOMAIN queue :
        queue[i].op = "syncEnd" /\ queue[j].op \in {"syncPut", "syncEnd"} => j <= i

\* A volume is asked for, then read and sent, then ended: one thing at a time.
OneStream(s) ==
    /\ OneAsk(toPpd[s])
    /\ NothingAfterEnd(fromPpd[s])
    /\ Has(toPpd[s], {"syncGet"}) =>
          stream[s] = 0 /\ ~ Has(fromPpd[s], {"syncPut", "syncEnd"})
    /\ stream[s] # 0 => ~ Has(fromPpd[s], {"syncEnd"})

\* The acceptor lets a PPD in with the flag down and raises it before it asks
\* for the volume: meanwhile no volume is on its way.
FlagRaised ==
    /\ acceptor.pc \in {"add", "validate", "sleep"} => ~ replicationActive
    /\ acceptor.pc = "fire" => replicationActive
    /\ acceptor.pc # "accept" => \A s \in Storage : ~ Streaming(s)

OneSource ==
    \A s \in Storage :
        OneStream(s) /\ (Streaming(s) => replicationActive /\ syncState.source = s)

StreamInv == deaths = 0 => NobodyEnded /\ FlagRaised /\ OneSource

-----------------------------------------------------------------------------
(* Queues.                                                                  *)

\* What Append adds, and where.
LEMMA AppendAt ==
  ASSUME NEW T, NEW q \in Seq(T), NEW m \in T
  PROVE  /\ DOMAIN Append(q, m) = DOMAIN q \cup {Len(q) + 1}
         /\ \A i \in DOMAIN q : i # Len(q) + 1 /\ i <= Len(q) /\ i \in Nat
         /\ \A i \in DOMAIN q : Append(q, m)[i] = q[i]
         /\ Append(q, m)[Len(q) + 1] = m
         /\ Len(q) \in Nat
  BY AppendProperties, LenProperties

\* What Tail leaves, and where.
LEMMA TailAt ==
  ASSUME NEW T, NEW q \in Seq(T), q # <<>>
  PROVE  /\ DOMAIN q = 1 .. Len(q) /\ Len(q) \in Nat /\ Len(q) >= 1
         /\ DOMAIN Tail(q) = 1 .. Len(q) - 1
         /\ \A i \in DOMAIN Tail(q) : Tail(q)[i] = q[i + 1] /\ i + 1 \in DOMAIN q
         /\ \A i \in DOMAIN q : i # 1 => i - 1 \in DOMAIN Tail(q)
         /\ Head(q) = q[1]
  <1>1. Len(q) \in Nat /\ DOMAIN q = 1 .. Len(q) /\ Len(q) # 0
    BY LenProperties, EmptySeq
  <1>2. Len(Tail(q)) = Len(q) - 1 /\ Tail(q) \in Seq(T)
    BY HeadTailProperties
  <1>3. DOMAIN Tail(q) = 1 .. Len(q) - 1
    BY <1>2, LenProperties
  <1>4. \A i \in 1 .. Len(q) - 1 : Tail(q)[i] = q[i + 1]
    BY HeadTailProperties, <1>2
  <1>5. QED
    BY <1>1, <1>3, <1>4

\* Which messages a queue has after a message came or went.
LEMMA HasAppend ==
  ASSUME NEW q \in Seq(Message), NEW m \in Message, NEW ops
  PROVE  Has(Append(q, m), ops) <=> Has(q, ops) \/ m.op \in ops
  BY AppendAt DEF Has

LEMMA HasTail ==
  ASSUME NEW q \in Seq(Message), q # <<>>, NEW ops
  PROVE  Has(q, ops) <=> Has(Tail(q), ops) \/ Head(q).op \in ops
  <1>1. ASSUME Has(q, ops), Head(q).op \notin ops
        PROVE  Has(Tail(q), ops)
    <2>1. PICK i \in DOMAIN q : q[i].op \in ops
      BY <1>1 DEF Has
    <2>2. i # 1 /\ i \in Nat
      BY <1>1, <2>1, TailAt
    <2>3. i - 1 \in DOMAIN Tail(q) /\ Tail(q)[i - 1] = q[(i - 1) + 1]
      BY <2>2, TailAt
    <2>4. QED
      BY <2>1, <2>2, <2>3 DEF Has
  <1>2. ASSUME Has(Tail(q), ops)
        PROVE  Has(q, ops)
    BY <1>2, TailAt DEF Has
  <1>3. ASSUME Head(q).op \in ops
        PROVE  Has(q, ops)
    BY <1>3, TailAt DEF Has
  <1>4. QED
    BY <1>1, <1>2, <1>3

LEMMA HasNothing == \A ops : ~ Has(<<>>, ops)
  BY DEF Has

LEMMA HasAfterAppend ==
  ASSUME NEW q \in Seq(Message), NEW m \in Message, NEW ops, ~ Has(q, ops), m.op \notin ops
  PROVE  ~ Has(Append(q, m), ops)
  BY HasAppend

\* A PPD is asked once more only if it was not asked.
LEMMA OneAskAppend ==
  ASSUME NEW q \in Seq(Message), NEW m \in Message, OneAsk(q),
         m.op = "syncGet" => ~ Has(q, {"syncGet"})
  PROVE  OneAsk(Append(q, m))
  BY AppendAt DEF OneAsk, Has

LEMMA OneAskTail ==
  ASSUME NEW q \in Seq(Message), q # <<>>, OneAsk(q)
  PROVE  /\ OneAsk(Tail(q))
         /\ Head(q).op = "syncGet" => ~ Has(Tail(q), {"syncGet"})
  <1>1. \A i \in DOMAIN Tail(q) : i \in Nat /\ i + 1 # 1
    BY TailAt
  <1>2. QED
    BY <1>1, TailAt DEF OneAsk, Has

\* Nothing of a volume is sent after its end, nor is anything after it left.
LEMMA NothingAfterEndAppend ==
  ASSUME NEW q \in Seq(Message), NEW m \in Message, NothingAfterEnd(q),
         m.op \in {"syncPut", "syncEnd"} => ~ Has(q, {"syncEnd"})
  PROVE  NothingAfterEnd(Append(q, m))
  BY AppendAt DEF NothingAfterEnd, Has

LEMMA NothingAfterEndTail ==
  ASSUME NEW q \in Seq(Message), q # <<>>, NothingAfterEnd(q)
  PROVE  /\ NothingAfterEnd(Tail(q))
         /\ Head(q).op = "syncEnd" => ~ Has(Tail(q), {"syncPut", "syncEnd"})
  <1>1. \A i \in DOMAIN Tail(q) : i \in Nat /\ i >= 1
    BY TailAt
  <1>2. NothingAfterEnd(Tail(q))
    BY <1>1, TailAt DEF NothingAfterEnd
  <1>3. ASSUME Head(q).op = "syncEnd", NEW i \in DOMAIN Tail(q),
               Tail(q)[i].op \in {"syncPut", "syncEnd"}
        PROVE  FALSE
    <2>1. 1 \in DOMAIN q /\ q[1].op = "syncEnd"
      BY <1>3, TailAt
    <2>2. i + 1 \in DOMAIN q /\ q[i + 1].op \in {"syncPut", "syncEnd"}
      BY <1>3, TailAt
    <2>3. i + 1 <= 1
      BY <2>1, <2>2 DEF NothingAfterEnd
    <2>4. QED
      BY <1>1, <2>3
  <1>4. QED
    BY <1>2, <1>3 DEF Has

-----------------------------------------------------------------------------
(* What a step may do to the connections of the PPDs.                       *)

LEMMA StreamingHas ==
  ASSUME NEW s \in Storage
  PROVE  Streaming(s) <=> \/ stream[s] # 0
                          \/ Has(toPpd[s], {"syncGet"})
                          \/ Has(fromPpd[s], {"syncPut", "syncEnd"})
  BY DEF Streaming, Has

LEMMA StreamingHasNext ==
  ASSUME NEW s \in Storage
  PROVE  Streaming(s)' <=> \/ stream'[s] # 0
                           \/ Has(toPpd'[s], {"syncGet"})
                           \/ Has(fromPpd'[s], {"syncPut", "syncEnd"})
  BY DEF Streaming, Has

\* A message to whatever storage reaches one PPD or none.
LEMMA SendPpdReaches ==
  ASSUME NetworkTypeOK, NEW s, NEW message \in Message, SendPpd(s, message)
  PROVE  \A t \in Storage : toPpd'[t] = toPpd[t]
                            \/ (t = s /\ toPpd'[t] = Append(toPpd[t], message))
  BY DEF NetworkTypeOK, SendPpd

\* A queue from which at most the head was taken, or to which at most a message
\* of no volume was added.
Quietly(old, new, ops) ==
    \/ new = old
    \/ old # <<>> /\ new = Tail(old)
    \/ \E m \in Message : m.op \notin ops /\ new = Append(old, m)

LEMMA QuietQueue ==
  ASSUME NEW q \in Seq(Message), NEW r, NEW ops, Quietly(q, r, ops)
  PROVE  Has(r, ops) => Has(q, ops)
  BY HasAppend, HasTail DEF Quietly

\* A step that adds no message of a replication starts no stream.
LEMMA QuietStep ==
  ASSUME NetworkTypeOK, OneSource, stream' = stream,
         \A s \in Storage : Quietly(toPpd[s], toPpd'[s], {"syncGet"}),
         \A s \in Storage : Quietly(fromPpd[s], fromPpd'[s], {"syncPut", "syncEnd"})
  PROVE  \A s \in Storage : OneStream(s)' /\ (Streaming(s)' => Streaming(s))
  <1> SUFFICES ASSUME NEW s \in Storage
               PROVE  OneStream(s)' /\ (Streaming(s)' => Streaming(s))
    OBVIOUS
  <1>1. toPpd[s] \in Seq(Message) /\ fromPpd[s] \in Seq(Message)
    BY DEF NetworkTypeOK
  <1>2. OneStream(s)
    BY DEF OneSource
  <1>3. Has(toPpd'[s], {"syncGet"}) => Has(toPpd[s], {"syncGet"})
    BY <1>1, QuietQueue
  <1>4. Has(fromPpd'[s], {"syncPut", "syncEnd"}) => Has(fromPpd[s], {"syncPut", "syncEnd"})
    BY <1>1, QuietQueue
  <1>5. Quietly(fromPpd[s], fromPpd'[s], {"syncEnd"})
    BY DEF Quietly
  <1>6. Has(fromPpd'[s], {"syncEnd"}) => Has(fromPpd[s], {"syncEnd"})
    BY <1>1, <1>5, QuietQueue
  <1>7. OneAsk(toPpd'[s])
    BY <1>1, <1>2, OneAskAppend, OneAskTail DEF Quietly, OneStream
  <1>8. NothingAfterEnd(fromPpd'[s])
    BY <1>1, <1>2, NothingAfterEndAppend, NothingAfterEndTail DEF Quietly, OneStream
  <1>9. stream'[s] = stream[s]
    OBVIOUS
  <1>10. OneStream(s)'
    BY <1>2, <1>3, <1>4, <1>6, <1>7, <1>8, <1>9 DEF OneStream
  <1>11. Streaming(s)' => Streaming(s)
    BY <1>3, <1>4, <1>9, StreamingHas, StreamingHasNext
  <1>12. QED
    BY <1>10, <1>11

\* If neither the flag, nor the pair, nor the acceptor moves the rest follows.
LEMMA QuietInvariant ==
  ASSUME NetworkTypeOK, OneSource, FlagRaised, stream' = stream, UNCHANGED <<syncVars, acceptor>>,
         \A s \in Storage : Quietly(toPpd[s], toPpd'[s], {"syncGet"}),
         \A s \in Storage : Quietly(fromPpd[s], fromPpd'[s], {"syncPut", "syncEnd"})
  PROVE  OneSource' /\ FlagRaised'
  <1>1. \A s \in Storage : OneStream(s)' /\ (Streaming(s)' => Streaming(s))
    BY QuietStep
  <1>2. OneSource'
    BY <1>1 DEF OneSource
  <1>3. FlagRaised'
    BY <1>1 DEF FlagRaised
  <1>4. QED
    BY <1>2, <1>3

-----------------------------------------------------------------------------
(* The steps of PRAID.                                                      *)

\* With nobody ended the acceptor keeps it so.
LEMMA AcceptorNobodyEnded ==
  ASSUME IInv, NobodyEnded, NEW Quiet, Acceptor(Quiet)
  PROVE  NobodyEnded'
  <1> USE DEF IInv, TypeOK
  <1>1. ASSUME NEW s \in Storage, DenyPpd(s)
        PROVE  NobodyEnded'
    BY <1>1 DEF DenyPpd, NobodyEnded, StaysDisconnected, NodeTypeOK
  <1>2. ASSUME NEW s \in Storage, AcceptPpd(s)
        PROVE  NobodyEnded'
    BY <1>2 DEF AcceptPpd, NobodyEnded, StaysDisconnected, NodeTypeOK, AcceptorAt
  <1>3. CASE AddPpd
    BY <1>3 DEF AddPpd, NobodyEnded, AcceptorAt
  <1>4. CASE ValidateReplication
    <2>1. acceptor.destiny \in Storage
      BY <1>4 DEF StaysDisconnected, ValidateReplication
    <2>2. CASE LaunchSlaveThreads(acceptor.destiny) /\ AcceptAgain
      BY <1>4, <2>1, <2>2, LaunchedThreads
         DEF ValidateReplication, NobodyEnded, AcceptAgain, AcceptorAt
    <2>3. CASE /\ acceptor' = AcceptorAt("sleep", acceptor.destiny, acceptor.master)
               /\ UNCHANGED <<listener, sender>>
      BY <1>4, <2>3 DEF ValidateReplication, NobodyEnded, AcceptorAt
    <2>4. QED
      BY <1>4, <2>2, <2>3 DEF ValidateReplication
  <1>5. CASE StartReplication(Quiet)
    BY <1>5 DEF StartReplication, NobodyEnded, AcceptorAt
  <1>6. CASE FireSynchronization
    <2>1. acceptor.destiny \in Storage
      BY <1>6 DEF StaysDisconnected, FireSynchronization
    <2>2. QED
      BY <1>6, <2>1, LaunchedThreads
         DEF FireSynchronization, NobodyEnded, AcceptAgain, AcceptorAt
  <1>7. ASSUME NEW c \in Socket, AcceptPfs(c)
        PROVE  NobodyEnded'
    BY <1>7 DEF AcceptPfs, NobodyEnded
  <1>8. QED
    BY <1>1, <1>2, <1>3, <1>4, <1>5, <1>6, <1>7 DEF Acceptor

\* A message that is no part of a replication goes to a PPD.
LEMMA SendPpdQuietly ==
  ASSUME NetworkTypeOK, NEW s, NEW message \in Message, SendPpd(s, message), NEW ops,
         message.op \notin ops
  PROVE  \A t \in Storage : Quietly(toPpd[t], toPpd'[t], ops)
  BY SendPpdReaches DEF Quietly

LEMMA SyncOp ==
  \A op \in {"syncGet", "syncPut", "syncEnd"}, v \in Value :
      Sync(op, v).op = op /\ Sync(op, v) \in Message
  BY InitialValues DEF Sync

LEMMA UnchangedQuietly ==
  ASSUME NEW ops
  PROVE  /\ toPpd' = toPpd => \A s \in Storage : Quietly(toPpd[s], toPpd'[s], ops)
         /\ fromPpd' = fromPpd => \A s \in Storage : Quietly(fromPpd[s], fromPpd'[s], ops)
  BY DEF Quietly

\* The acceptor lets a PPD in with the flag down, so nothing streams; it asks
\* the master it chose for its volume once it has raised the flag.
LEMMA AcceptorStreams ==
  ASSUME IInv, FlagRaised, OneSource, NEW Quiet, Acceptor(Quiet), UNCHANGED nodeVars
  PROVE  OneSource' /\ FlagRaised'
  <1> USE DEF IInv, TypeOK
  <1>1. ASSUME UNCHANGED <<toPpd, fromPpd>>
        PROVE  \A s \in Storage : OneStream(s)' /\ (Streaming(s)' <=> Streaming(s))
    BY <1>1 DEF OneSource, OneStream, Streaming
  <1>2. ASSUME NEW s \in Storage, DenyPpd(s)
        PROVE  OneSource' /\ FlagRaised'
    BY <1>1, <1>2 DEF DenyPpd, OneSource, FlagRaised
  <1>3. ASSUME NEW s \in Storage, AcceptPpd(s)
        PROVE  OneSource' /\ FlagRaised'
    BY <1>1, <1>3 DEF AcceptPpd, OneSource, FlagRaised, AcceptorAt
  <1>4. CASE AddPpd
    BY <1>1, <1>4 DEF AddPpd, OneSource, FlagRaised, AcceptorAt
  <1>5. CASE ValidateReplication
    <2>1. CASE SendPpd(acceptor.destiny, Sync("syncEnd", 0)) /\ AcceptAgain
      <3>1. \A s \in Storage : Quietly(toPpd[s], toPpd'[s], {"syncGet"})
        BY <2>1, SendPpdQuietly, SyncOp, InitialValues
      <3>2. \A s \in Storage : Quietly(fromPpd[s], fromPpd'[s], {"syncPut", "syncEnd"})
        BY <1>5, UnchangedQuietly DEF ValidateReplication
      <3>3. \A s \in Storage : OneStream(s)' /\ (Streaming(s)' => Streaming(s))
        BY <3>1, <3>2, QuietStep
      <3>4. QED
        BY <1>5, <2>1, <3>3
           DEF ValidateReplication, OneSource, FlagRaised, AcceptAgain, AcceptorAt
    <2>2. CASE /\ acceptor' = AcceptorAt("sleep", acceptor.destiny, acceptor.master)
               /\ UNCHANGED toPpd
      BY <1>1, <1>5, <2>2 DEF ValidateReplication, OneSource, FlagRaised, AcceptorAt
    <2>3. QED
      BY <1>5, <2>1, <2>2 DEF ValidateReplication
  <1>6. CASE StartReplication(Quiet)
    BY <1>1, <1>6 DEF StartReplication, OneSource, FlagRaised, AcceptorAt
  <1>7. CASE FireSynchronization
    <2>1. replicationActive' /\ syncState'.source = acceptor.master
      BY <1>7 DEF FireSynchronization, FlagRaised
    <2>2. ASSUME NEW s \in Storage
          PROVE  OneStream(s)' /\ (Streaming(s)' => s = acceptor.master)
      <3>1. ~ Streaming(s) /\ OneStream(s)
        BY <1>7 DEF FireSynchronization, FlagRaised, OneSource
      <3>2. ~ Has(toPpd[s], {"syncGet"}) /\ stream[s] = 0
            /\ ~ Has(fromPpd[s], {"syncPut", "syncEnd"})
        BY <3>1, StreamingHas
      <3>3. \/ toPpd'[s] = toPpd[s]
            \/ s = acceptor.master /\ toPpd'[s] = Append(toPpd[s], Sync("syncGet", 0))
        BY <1>7, SendPpdReaches, SyncOp, InitialValues DEF FireSynchronization
      <3>4. toPpd[s] \in Seq(Message) /\ Sync("syncGet", 0) \in Message
        BY SyncOp, InitialValues DEF NetworkTypeOK
      <3>5. OneAsk(toPpd'[s])
        BY <3>1, <3>2, <3>3, <3>4, OneAskAppend DEF OneStream
      <3>6. fromPpd' = fromPpd /\ stream' = stream
        BY <1>7 DEF FireSynchronization
      <3>7. OneStream(s)'
        BY <3>1, <3>2, <3>5, <3>6 DEF OneStream
      <3>8. QED
        BY <3>2, <3>3, <3>6, <3>7, StreamingHasNext
    <2>3. QED
      BY <1>7, <2>1, <2>2 DEF FireSynchronization, OneSource, FlagRaised, AcceptAgain, AcceptorAt
  <1>8. ASSUME NEW c \in Socket, AcceptPfs(c)
        PROVE  OneSource' /\ FlagRaised'
    BY <1>1, <1>8 DEF AcceptPfs, OneSource, FlagRaised
  <1>9. QED
    BY <1>2, <1>3, <1>4, <1>5, <1>6, <1>7, <1>8 DEF Acceptor

\* The threads of the PFS connections have nothing to do with it.
LEMMA WorkerStreams ==
  ASSUME IInv, NobodyEnded, FlagRaised, OneSource, NEW c \in Socket, Worker(c),
         UNCHANGED nodeVars
  PROVE  NobodyEnded' /\ OneSource' /\ FlagRaised'
  <1>1. UNCHANGED <<acceptor, listener, sender, ppdStatus, toPpd, fromPpd, stream, syncVars>>
    BY DEF Worker, PfsReceive, IterateStorages, ExecutePut, SelectForGet, EnqueueGet
  <1>2. NobodyEnded'
    BY <1>1 DEF NobodyEnded
  <1>3. QED
    BY <1>1, <1>2, QuietInvariant, UnchangedQuietly DEF IInv, TypeOK

\* A sender sends jobs only.
LEMMA SenderStreams ==
  ASSUME IInv, NobodyEnded, FlagRaised, OneSource, NEW s \in Storage, Sender(s),
         UNCHANGED nodeVars
  PROVE  NobodyEnded' /\ OneSource' /\ FlagRaised'
  <1> USE DEF IInv, TypeOK
  <1>1. UNCHANGED <<acceptor, listener, ppdStatus, fromPpd, stream, syncVars>>
    BY DEF Sender, SenderCheck, SenderSend, SenderExit, SenderRecord, SenderCount
  <1>2. sender[s].pc # "off" /\ \A t \in Storage : t # s => sender'[t] = sender[t]
    BY DEF Sender, SenderCheck, SenderSend, SenderExit, SenderRecord, SenderCount,
       SenderLoops, SenderMoves, ThreadTypeOK
  <1>3. NobodyEnded'
    BY <1>1, <1>2 DEF NobodyEnded
  <1>4. \A t \in Storage : Quietly(toPpd[t], toPpd'[t], {"syncGet"})
    <2>1. CASE SenderSend(s)
      <3>1. Head(pending[s]) \in Job
        BY <2>1, HeadAndTail DEF SenderSend, ThreadsHoldJobs, StorageTypeOK
      <3>2. Head(pending[s]) \in Message /\ Head(pending[s]).op \notin {"syncGet"}
        BY <3>1 DEF Job, Message
      <3>3. QED
        BY <2>1, <3>2, SendPpdQuietly DEF SenderSend
    <2>2. CASE toPpd' = toPpd
      BY <2>2, UnchangedQuietly
    <2>3. QED
      BY <2>1, <2>2 DEF Sender, SenderCheck, SenderExit, SenderRecord, SenderCount
  <1>5. QED
    BY <1>1, <1>3, <1>4, QuietInvariant, UnchangedQuietly

\* A listener takes the head of its connection.
LEMMA ReceivesTail ==
  ASSUME NetworkTypeOK, NEW s \in Storage, NEW op, Receives(s, op)
  PROVE  /\ fromPpd[s] \in Seq(Message) /\ fromPpd[s] # <<>>
         /\ Head(fromPpd[s]) \in Message /\ Head(fromPpd[s]).op = op
         /\ fromPpd'[s] = Tail(fromPpd[s])
         /\ \A t \in Storage \ {s} : fromPpd'[t] = fromPpd[t]
         /\ \A ops : \A t \in Storage : Quietly(fromPpd[t], fromPpd'[t], ops)
  <1>1. /\ fromPpd[s] \in Seq(Message) /\ fromPpd[s] # <<>>
        /\ Head(fromPpd[s]).op = op
        /\ fromPpd'[s] = Tail(fromPpd[s])
        /\ \A t \in Storage \ {s} : fromPpd'[t] = fromPpd[t]
    BY DEF NetworkTypeOK, Receives
  <1>2. Head(fromPpd[s]) \in Message
    BY <1>1, HeadAndTail
  <1>3. QED
    BY <1>1, <1>2 DEF Quietly

\* The listeners that still serve their PPDs hand nothing over.
LEMMA ListenerStays ==
  ASSUME NobodyEnded, NEW s \in Storage, Listener(s)
  PROVE  \/ ListenerResponse(s) \/ ListenerReply(s) \/ ListenerForget(s)
         \/ ListenerSyncPut(s) \/ ListenerSyncEnd(s)
  <1>1. listener[s].pc \in {"off", "receive", "reply", "forget"}
    BY DEF NobodyEnded
  <1>2. ~ ListenerDisconnected(s)
    BY DEF NobodyEnded, ListenerDisconnected
  <1>3. ~ (ProcessDisconnection(s) \/ CollectRead(s) \/ RemoveDisconnected(s)
             \/ ChooseCandidate(s) \/ AssignJob(s))
    BY <1>1 DEF ProcessDisconnection, CollectRead, RemoveDisconnected, ChooseCandidate,
       AssignJob
  <1>4. QED
    BY <1>2, <1>3 DEF Listener

LEMMA ListenerNobodyEnded ==
  ASSUME IInv, NobodyEnded, NEW s \in Storage, Listener(s)
  PROVE  NobodyEnded'
  <1> USE DEF IInv, TypeOK
  <1>1. UNCHANGED <<acceptor, sender, ppdStatus>> /\ listener[s].pc # "off"
    BY ListenerStays DEF ListenerResponse, ListenerReply, ListenerForget, ListenerSyncPut,
       ListenerSyncEnd, Receives
  <1>2. /\ \A t \in Storage \ {s} : listener'[t] = listener[t]
        /\ listener'[s].pc \in {"receive", "reply", "forget"}
    <2>1. CASE ListenerSyncPut(s) \/ ListenerSyncEnd(s)
      BY <2>1, <1>1 DEF ListenerSyncPut, ListenerSyncEnd, NobodyEnded, Receives
    <2>2. CASE ListenerResponse(s) \/ ListenerReply(s) \/ ListenerForget(s)
      BY <2>2 DEF ListenerResponse, ListenerReply, ListenerForget, ListenerMoves,
         ListenerLoops, ListenerAt, ThreadTypeOK
    <2>3. QED
      BY <2>1, <2>2, ListenerStays
  <1>3. QED
    BY <1>1, <1>2 DEF NobodyEnded

\* A sector of the volume goes on to the destiny; the end of the volume lowers
\* the flag, and nothing of the volume is left on its way.
LEMMA ListenerStreams ==
  ASSUME IInv, NobodyEnded, FlagRaised, OneSource, NEW s \in Storage, Listener(s),
         UNCHANGED nodeVars
  PROVE  OneSource' /\ FlagRaised'
  <1> USE DEF IInv, TypeOK
  <1>1. CASE ListenerResponse(s)
    BY <1>1, ReceivesTail, UnchangedQuietly, QuietInvariant DEF ListenerResponse
  <1>2. CASE ListenerReply(s) \/ ListenerForget(s)
    BY <1>2, UnchangedQuietly, QuietInvariant DEF ListenerReply, ListenerForget
  <1>3. CASE ListenerSyncPut(s)
    <2>1. \A t \in Storage : Quietly(toPpd[t], toPpd'[t], {"syncGet"})
      <3>1. Head(fromPpd[s]) \in Message /\ Head(fromPpd[s]).op = "syncPut"
        BY <1>3, ReceivesTail DEF ListenerSyncPut
      <3>2. Head(fromPpd[s]).op \notin {"syncGet"}
        BY <3>1
      <3>3. SendPpd(syncState.destiny, Head(fromPpd[s]))
        BY <1>3 DEF ListenerSyncPut
      <3>4. QED
        BY <3>1, <3>2, <3>3, SendPpdQuietly
    <2>2. QED
      BY <1>3, <2>1, ReceivesTail, QuietInvariant DEF ListenerSyncPut
  <1>4. CASE ListenerSyncEnd(s)
    <2>1. \A t \in Storage : Quietly(toPpd[t], toPpd'[t], {"syncGet"})
      BY <1>4, SyncOp, InitialValues, SendPpdQuietly DEF ListenerSyncEnd
    <2>2. \A t \in Storage : OneStream(t)' /\ (Streaming(t)' => Streaming(t))
      BY <1>4, <2>1, ReceivesTail, QuietStep DEF ListenerSyncEnd
    <2>3. Has(fromPpd[s], {"syncPut", "syncEnd"}) /\ Has(fromPpd[s], {"syncEnd"})
      BY <1>4, ReceivesTail, HasTail DEF ListenerSyncEnd
    <2>4. Streaming(s) /\ OneStream(s)
      BY <2>3, StreamingHas DEF OneSource
    <2>5. \A t \in Storage : Streaming(t) => t = s
      BY <2>4 DEF OneSource
    <2>6. stream[s] = 0 /\ ~ Has(toPpd[s], {"syncGet"})
      BY <2>3, <2>4 DEF OneStream
    <2>7. ~ Has(fromPpd'[s], {"syncPut", "syncEnd"})
      BY <1>4, <2>4, ReceivesTail, NothingAfterEndTail DEF ListenerSyncEnd, OneStream
    <2>8. ~ Has(toPpd'[s], {"syncGet"})
      BY <2>1, <2>6, QuietQueue DEF NetworkTypeOK
    <2>9. stream'[s] = 0
      BY <2>6
    <2>10. \A t \in Storage : ~ Streaming(t)'
      BY <2>2, <2>5, <2>7, <2>8, <2>9, StreamingHasNext
    <2>11. acceptor.pc = "accept" /\ acceptor' = acceptor
      BY <1>4, <2>4 DEF FlagRaised, ListenerSyncEnd, ThreadTypeOK, AcceptorState
    <2>12. QED
      BY <2>2, <2>10, <2>11 DEF OneSource, FlagRaised
  <1>5. QED
    BY <1>1, <1>2, <1>3, <1>4, ListenerStays

-----------------------------------------------------------------------------
(* The steps of the PPDs and of PFS.                                        *)

\* A PPD takes the head of its connection.
LEMMA TakesTail ==
  ASSUME NetworkTypeOK, NEW s \in Storage, NEW ops, Takes(s, ops)
  PROVE  /\ toPpd[s] \in Seq(Message) /\ toPpd[s] # <<>> /\ stream[s] = 0
         /\ Head(toPpd[s]) \in Message /\ Head(toPpd[s]).op \in ops
         /\ toPpd'[s] = Tail(toPpd[s])
         /\ \A t \in Storage \ {s} : toPpd'[t] = toPpd[t]
         /\ \A other : \A t \in Storage : Quietly(toPpd[t], toPpd'[t], other)
  <1>1. /\ toPpd[s] \in Seq(Message) /\ toPpd[s] # <<>> /\ stream[s] = 0
        /\ Head(toPpd[s]).op \in ops
        /\ toPpd'[s] = Tail(toPpd[s])
        /\ \A t \in Storage \ {s} : toPpd'[t] = toPpd[t]
    BY DEF NetworkTypeOK, Takes
  <1>2. Head(toPpd[s]) \in Message
    BY <1>1, HeadAndTail
  <1>3. QED
    BY <1>1, <1>2 DEF Quietly

\* An end is counted.
LEMMA EndsCounted ==
  ASSUME NodeTypeOK, NEW s, Ends(s)
  PROVE  deaths' # 0
  BY DEF NodeTypeOK, Ends

\* One PPD of which the connections and the stream change; the pair is named.
LEMMA OneStreamMoves ==
  ASSUME OneSource, FlagRaised, UNCHANGED <<syncVars, acceptor>>, NEW s \in Storage,
         Streaming(s), OneStream(s)',
         \A t \in Storage \ {s} : /\ stream'[t] = stream[t] /\ toPpd'[t] = toPpd[t]
                                  /\ fromPpd'[t] = fromPpd[t]
  PROVE  OneSource' /\ FlagRaised'
  <1>1. \A t \in Storage \ {s} : OneStream(t)' /\ (Streaming(t)' => Streaming(t))
    BY DEF OneSource, OneStream, Streaming
  <1>2. \A t \in Storage : OneStream(t)' /\ (Streaming(t)' => Streaming(t))
    BY <1>1
  <1>3. OneSource'
    BY <1>2 DEF OneSource
  <1>4. FlagRaised'
    BY <1>2 DEF FlagRaised
  <1>5. QED
    BY <1>3, <1>4

\* The PPDs keep the invariant, while none of them ends.
LEMMA NodeSyncGetStreams ==
  ASSUME IInv, FlagRaised, OneSource, NEW s \in Storage, NodeSyncGet(s), deaths' = 0
  PROVE  OneSource' /\ FlagRaised'
  <1> USE DEF IInv, TypeOK
  <1>1. /\ Takes(s, {"syncGet"}) /\ stream' = [stream EXCEPT ![s] = 1]
        /\ UNCHANGED <<syncVars, acceptor, fromPpd>>
    BY EndsCounted DEF NodeSyncGet
  <1>2. stream'[s] = 1 /\ \A t \in Storage \ {s} : stream'[t] = stream[t]
    BY <1>1 DEF NodeTypeOK
  <1>3. Has(toPpd[s], {"syncGet"}) /\ ~ Has(toPpd'[s], {"syncGet"}) /\ OneAsk(toPpd'[s])
    <2>1. Head(toPpd[s]).op = "syncGet" /\ OneAsk(toPpd[s])
      BY <1>1, TakesTail DEF OneSource, OneStream
    <2>2. QED
      BY <1>1, <2>1, TakesTail, HasTail, OneAskTail
  <1>4. Streaming(s) /\ OneStream(s)
    BY <1>3, StreamingHas DEF OneSource
  <1>5. ~ Has(fromPpd[s], {"syncPut", "syncEnd"}) /\ NothingAfterEnd(fromPpd[s])
    BY <1>3, <1>4 DEF OneStream
  <1>6. ~ Has(fromPpd[s], {"syncEnd"})
    BY <1>5 DEF Has
  <1>7. OneStream(s)'
    BY <1>1, <1>2, <1>3, <1>5, <1>6 DEF OneStream
  <1>8. QED
    BY <1>1, <1>2, <1>4, <1>7, TakesTail, OneStreamMoves

LEMMA NodeStreamStreams ==
  ASSUME IInv, FlagRaised, OneSource, NEW s \in Storage, NodeStream(s)
  PROVE  OneSource' /\ FlagRaised'
  <1> USE DEF IInv, TypeOK
  <1> DEFINE m == Sync("syncPut", disk[s][stream[s]])
  <1>1. /\ stream[s] # 0 /\ stream'[s] = stream[s] + 1
        /\ \A t \in Storage \ {s} : stream'[t] = stream[t]
        /\ fromPpd'[s] = Append(fromPpd[s], m)
        /\ \A t \in Storage \ {s} : fromPpd'[t] = fromPpd[t]
        /\ UNCHANGED <<syncVars, acceptor, toPpd>>
        /\ m \in Message /\ m.op = "syncPut" /\ fromPpd[s] \in Seq(Message)
    <2>1. disk[s] \in Seq(Value) /\ stream[s] \in DOMAIN disk[s]
      BY DEF NodeStream, NodeTypeOK
    <2>2. stream[s] \in 1 .. Len(disk[s]) /\ Len(disk[s]) \in Nat
      BY <2>1, LenProperties
    <2>3. disk[s][stream[s]] \in Value
      BY <2>1, <2>2, ElementOfSeq
    <2>4. QED
      BY <2>2, <2>3, SyncOp DEF NodeStream, NodeTypeOK, NetworkTypeOK
  <1>2. Streaming(s) /\ OneStream(s)
    BY <1>1, StreamingHas DEF OneSource
  <1>3. ~ Has(fromPpd[s], {"syncEnd"}) /\ ~ Has(toPpd[s], {"syncGet"})
    BY <1>1, <1>2 DEF OneStream
  <1>4. NothingAfterEnd(fromPpd'[s]) /\ ~ Has(fromPpd'[s], {"syncEnd"})
    <2>1. NothingAfterEnd(Append(fromPpd[s], m))
      BY <1>1, <1>2, <1>3, NothingAfterEndAppend DEF OneStream
    <2>2. ~ Has(Append(fromPpd[s], m), {"syncEnd"})
      BY <1>1, <1>3, HasAppend
    <2>3. QED
      BY <1>1, <2>1, <2>2
  <1>5. OneStream(s)'
    BY <1>1, <1>2, <1>3, <1>4 DEF OneStream
  <1>6. QED
    BY <1>1, <1>2, <1>5, OneStreamMoves

LEMMA NodeStreamEndStreams ==
  ASSUME IInv, FlagRaised, OneSource, NEW s \in Storage, NodeStreamEnd(s)
  PROVE  OneSource' /\ FlagRaised'
  <1> USE DEF IInv, TypeOK
  <1> DEFINE m == Sync("syncEnd", 0)
  <1>1. /\ stream[s] # 0 /\ stream'[s] = 0
        /\ \A t \in Storage \ {s} : stream'[t] = stream[t]
        /\ fromPpd'[s] = Append(fromPpd[s], m)
        /\ \A t \in Storage \ {s} : fromPpd'[t] = fromPpd[t]
        /\ UNCHANGED <<syncVars, acceptor, toPpd>>
        /\ m \in Message /\ m.op = "syncEnd" /\ fromPpd[s] \in Seq(Message)
    BY SyncOp, InitialValues DEF NodeStreamEnd, Streamed, NodeTypeOK, NetworkTypeOK
  <1>2. Streaming(s) /\ OneStream(s)
    BY <1>1, StreamingHas DEF OneSource
  <1>3. ~ Has(fromPpd[s], {"syncEnd"}) /\ ~ Has(toPpd[s], {"syncGet"})
    BY <1>1, <1>2 DEF OneStream
  <1>4. NothingAfterEnd(fromPpd'[s])
    BY <1>1, <1>2, <1>3, NothingAfterEndAppend DEF OneStream
  <1>5. OneStream(s)'
    BY <1>1, <1>2, <1>3, <1>4 DEF OneStream
  <1>6. QED
    BY <1>1, <1>2, <1>5, OneStreamMoves

\* An executed read adds an answer, which is no part of a volume.
LEMMA ExecutesQuietly ==
  ASSUME IInv, NEW s \in Storage, NEW i \in DOMAIN jobs[s], Executes(s, i), deaths' = 0
  PROVE  /\ UNCHANGED <<stream, toPpd, ppdStatus>>
         /\ \A t \in Storage : Quietly(fromPpd[t], fromPpd'[t], {"syncPut", "syncEnd"})
  <1> USE DEF IInv, TypeOK
  <1>1. mapped[s] /\ jobs[s][i].sector \in DOMAIN disk[s]
    BY EndsCounted DEF Executes
  <1>2. UNCHANGED <<stream, toPpd, ppdStatus>>
    BY <1>1 DEF Executes
  <1>3. CASE jobs[s][i].op = "put"
    BY <1>1, <1>2, <1>3, UnchangedQuietly DEF Executes
  <1>4. CASE jobs[s][i].op # "put"
    <2> DEFINE m == [jobs[s][i] EXCEPT !.value = disk[s][jobs[s][i].sector]]
    <2>1. jobs[s] \in Seq(Job) /\ disk[s] \in Seq(Value)
      BY DEF NodeTypeOK
    <2>2. jobs[s][i] \in Job /\ disk[s][jobs[s][i].sector] \in Value
      BY <1>1, <2>1, ElementOfSeq, LenProperties
    <2>3. m \in Message /\ m.op \notin {"syncPut", "syncEnd"}
      BY <2>2 DEF Job, Message
    <2>4. fromPpd' = [fromPpd EXCEPT ![s] = Append(fromPpd[s], m)]
      BY <1>1, <1>4 DEF Executes
    <2>5. \A t \in Storage : fromPpd'[t] = fromPpd[t] \/ fromPpd'[t] = Append(fromPpd[t], m)
      BY <2>4 DEF NetworkTypeOK
    <2>6. QED
      BY <1>2, <2>3, <2>5 DEF Quietly
  <1>5. QED
    BY <1>3, <1>4

\* What a PPD does of itself, and what it loses.
NodeWorks(s) == Node(s) \/ NodeLosesJob(s)

LEMMA NodeStreams ==
  ASSUME IInv, NobodyEnded, FlagRaised, OneSource, NEW s \in Storage, NodeWorks(s), deaths' = 0
  PROVE  NobodyEnded' /\ OneSource' /\ FlagRaised'
  <1> USE DEF IInv, TypeOK
  <1>1. CASE NodeQueueJob(s) \/ NodeSyncPut(s) \/ NodeSyncEnd(s)
    <2>1. \E ops : Takes(s, ops)
      BY <1>1 DEF NodeQueueJob, NodeSyncPut, NodeSyncEnd
    <2>2. UNCHANGED <<praidVars, fromPpd, stream, ppdStatus>>
      BY <1>1 DEF NodeQueueJob, NodeSyncPut, NodeSyncEnd
    <2>3. QED
      BY <2>1, <2>2, TakesTail, UnchangedQuietly, QuietInvariant DEF NobodyEnded
  <1>2. CASE NodeSyncGet(s)
    BY <1>2, NodeSyncGetStreams, EndsCounted DEF NodeSyncGet, NobodyEnded
  <1>3. CASE NodeStream(s)
    BY <1>3, NodeStreamStreams DEF NodeStream, NobodyEnded
  <1>4. CASE NodeUnmap(s)
    BY <1>4, UnchangedQuietly, QuietInvariant DEF NodeUnmap, NobodyEnded
  <1>5. CASE NodeStreamEnd(s)
    BY <1>5, NodeStreamEndStreams DEF NodeStreamEnd, NobodyEnded
  <1>6. CASE NodeExecute(s)
    <2>1. /\ UNCHANGED <<praidVars, stream, toPpd, ppdStatus>>
          /\ \A t \in Storage : Quietly(fromPpd[t], fromPpd'[t], {"syncPut", "syncEnd"})
      BY <1>6, ExecutesQuietly DEF NodeExecute
    <2>2. QED
      BY <2>1, UnchangedQuietly, QuietInvariant DEF NobodyEnded
  <1>7. CASE NodeLosesJob(s)
    BY <1>7, UnchangedQuietly, QuietInvariant DEF NodeLosesJob, NobodyEnded
  <1>8. QED
    BY <1>1, <1>2, <1>3, <1>4, <1>5, <1>6, <1>7 DEF NodeWorks, Node

LEMMA ClientStreams ==
  ASSUME IInv, NobodyEnded, FlagRaised, OneSource, ClientStep
  PROVE  NobodyEnded' /\ OneSource' /\ FlagRaised'
  <1>1. UNCHANGED <<praidVars, toPpd, fromPpd, stream, ppdStatus>>
    BY DEF ClientStep, ClientGet, ClientPut, ClientReceive
  <1>2. QED
    BY <1>1, UnchangedQuietly, QuietInvariant DEF NobodyEnded, IInv, TypeOK

\* No step takes an end back.
LEMMA EndsStay ==
  ASSUME NodeTypeOK, [Next]_vars, deaths' = 0
  PROVE  deaths = 0 /\ ~ \E s \in Storage : NodeDies(s)
  <1>1. deaths' = deaths \/ \E s \in Storage : Ends(s)
    BY ZenonT(60) DEF Next, vars, PraidStep, NodeStep, ClientStep, ClientGet, ClientPut, ClientReceive,
       Node, NodeQueueJob, NodeSyncGet, NodeStream, NodeUnmap, NodeStreamEnd, NodeSyncPut,
       NodeSyncEnd, NodeExecute, Executes, NodeLosesJob, NodeDies
  <1>2. QED
    BY <1>1, EndsCounted DEF NodeDies

LEMMA StreamStep ==
  ASSUME IInv, StreamInv, [Next]_vars
  PROVE  StreamInv'
  <1> SUFFICES ASSUME deaths' = 0
               PROVE  NobodyEnded' /\ FlagRaised' /\ OneSource'
    BY DEF StreamInv
  <1> USE DEF IInv, TypeOK
  <1>1. NobodyEnded /\ FlagRaised /\ OneSource /\ ~ \E s \in Storage : NodeDies(s)
    BY EndsStay DEF StreamInv
  <1>2. CASE UNCHANGED vars
    BY <1>1, <1>2, QuietInvariant, UnchangedQuietly DEF vars, NobodyEnded
  <1>3. CASE PraidStep
    BY <1>1, <1>3, AcceptorNobodyEnded, AcceptorStreams, WorkerStreams, SenderStreams,
       ListenerNobodyEnded, ListenerStreams DEF PraidStep
  <1>4. CASE NodeStep
    BY <1>1, <1>4, NodeStreams DEF NodeStep, NodeWorks
  <1>5. CASE ClientStep
    BY <1>1, <1>5, ClientStreams
  <1>6. QED
    BY <1>2, <1>3, <1>4, <1>5 DEF Next

LEMMA StreamInit == Init => StreamInv
  <1> SUFFICES ASSUME Init PROVE NobodyEnded /\ FlagRaised /\ OneSource
    BY DEF StreamInv
  <1> USE DEF Init, InitPraid, InitNode
  <1>1. NobodyEnded
    BY DEF NobodyEnded, ListenerAt, SenderAt, AcceptorAt
  <1>2. \A s \in Storage : ~ Streaming(s) /\ OneStream(s)
    BY DEF Streaming, OneStream, OneAsk, NothingAfterEnd, Has
  <1>3. QED
    BY <1>1, <1>2 DEF FlagRaised, OneSource, AcceptorAt

-----------------------------------------------------------------------------
\* While no PPD has ended no listener hands reads over, at most one volume is on
\* its way through PRAID and it is in one piece.
THEOREM RaidStreams == Spec => []StreamInv
  BY StreamInit, StreamStep, RaidInvariant, PTL DEF Spec

\* While no PPD has ended sectors flow only while the flag is up, and only from
\* the source that syncState names: no second replication mixes with the first,
\* however many PPDs join, whatever the balancer chooses as their masters.
THEOREM RaidStreamsOnlyFromSource == Spec => []StreamsOnlyFromSource
  <1>1. StreamInv => StreamsOnlyFromSource
    BY DEF StreamInv, OneSource, StreamsOnlyFromSource
  <1>2. QED
    BY <1>1, RaidStreams, PTL

-----------------------------------------------------------------------------
(* Counting in queues.                                                      *)

\* The queue new is old without its element at i.
Without(old, new, i) ==
    /\ i \in DOMAIN old
    /\ Len(new) = Len(old) - 1
    /\ \A j \in DOMAIN new : new[j] = IF j < i THEN old[j] ELSE old[j + 1]

LEMMA IntervalSubset ==
  ASSUME NEW n \in Int, NEW S \in SUBSET (1 .. n)
  PROVE  IsFiniteSet(S)
  <1>1. IsFiniteSet(1 .. n)
    BY FS_Interval
  <1>2. QED
    BY <1>1, FS_Subset

\* Taking one position out of a set of positions.
LEMMA PositionsWithout ==
  ASSUME NEW n \in Nat, NEW i \in 1 .. n, NEW S \in SUBSET (1 .. n),
         NEW R \in SUBSET (1 .. n - 1),
         \A j \in 1 .. n - 1 : j \in R <=> (IF j < i THEN j ELSE j + 1) \in S
  PROVE  /\ IsFiniteSet(S) /\ IsFiniteSet(R)
         /\ Cardinality(S) \in Nat /\ Cardinality(R) \in Nat
         /\ Cardinality(S) = Cardinality(R) + (IF i \in S THEN 1 ELSE 0)
  <1>1. IsFiniteSet(S) /\ IsFiniteSet(R)
    <2>1. n \in Int /\ n - 1 \in Int
      OBVIOUS
    <2>2. IsFiniteSet(S)
      BY <2>1, IntervalSubset, Zenon
    <2>3. IsFiniteSet(R)
      BY <2>1, IntervalSubset, Zenon
    <2>4. QED
      BY <2>2, <2>3
  <1>2. Cardinality(S) \in Nat /\ Cardinality(R) \in Nat
    BY <1>1, FS_CardinalityType
  <1> DEFINE lift(j) == IF j < i THEN j ELSE j + 1
             f == [j \in R |-> lift(j)]
  <1>3. \A j \in R : lift(j) \in S \ {i}
    OBVIOUS
  <1>4. \A j, k \in R : lift(j) = lift(k) => j = k
    OBVIOUS
  <1>5. \A k \in S \ {i} : \E j \in R : lift(j) = k
    <2> TAKE k \in S \ {i}
    <2>1. CASE k < i
      <3>1. k \in 1 .. n - 1 /\ lift(k) = k
        BY <2>1
      <3>2. QED
        BY <3>1
    <2>2. CASE k > i
      <3>1. k - 1 \in 1 .. n - 1 /\ lift(k - 1) = k
        BY <2>2
      <3>2. QED
        BY <3>1
    <2>3. QED
      BY <2>1, <2>2
  <1>6. f \in Bijection(R, S \ {i})
    BY <1>3, <1>4, <1>5 DEF Bijection, Injection, Surjection, IsInjective
  <1>7. Cardinality(S \ {i}) = Cardinality(R)
    BY <1>1, <1>6, FS_Bijection DEF ExistsBijection
  <1>8. Cardinality(S \ {i}) = IF i \in S THEN Cardinality(S) - 1 ELSE Cardinality(S)
    BY <1>1, FS_RemoveElement
  <1>9. QED
    BY <1>1, <1>2, <1>7, <1>8

\* Both ways a queue loses an element leave it without one.
LEMMA TailWithout ==
  ASSUME NEW T, NEW q \in Seq(T), q # <<>>
  PROVE  Without(q, Tail(q), 1) /\ Tail(q) \in Seq(T) /\ Head(q) = q[1] /\ Head(q) \in T
  BY TailAt, HeadTailProperties DEF Without

LEMMA RemoveAtWithout ==
  ASSUME NEW T, NEW q \in Seq(T), NEW i \in DOMAIN q
  PROVE  Without(q, RemoveAt(q, i), i) /\ RemoveAt(q, i) \in Seq(T)
  <1>1. i \in 1 .. Len(q) /\ Len(q) \in Nat
    BY LenProperties
  <1> DEFINE a == SubSeq(q, 1, i - 1)
             b == SubSeq(q, i + 1, Len(q))
  <1>2. a \in Seq(T) /\ Len(a) = i - 1 /\ \A j \in 1 .. i - 1 : a[j] = q[j]
    BY <1>1, SubSeqProperties
  <1>3. b \in Seq(T) /\ Len(b) = Len(q) - i /\ \A j \in 1 .. Len(q) - i : b[j] = q[i + j]
    BY <1>1, SubSeqProperties
  <1>4. RemoveAt(q, i) = a \o b
    BY DEF RemoveAt
  <1>5. Len(a \o b) = Len(q) - 1 /\ a \o b \in Seq(T)
    BY <1>1, <1>2, <1>3, ConcatProperties, SMTT(60)
  <1>6. ASSUME NEW j \in 1 .. Len(q) - 1
        PROVE  (a \o b)[j] = IF j < i THEN q[j] ELSE q[j + 1]
    <2> HIDE DEF a, b
    <2>1. (a \o b)[j] = IF j <= Len(a) THEN a[j] ELSE b[j - Len(a)]
      <3>1. j \in 1 .. Len(a) + Len(b)
        BY <1>1, <1>2, <1>3
      <3>2. QED
        BY <1>2, <1>3, <3>1, ConcatProperties
    <2>2. CASE j < i
      BY <1>1, <1>2, <2>1, <2>2
    <2>3. CASE ~ (j < i)
      <3>1. j - Len(a) = j - (i - 1) /\ j - (i - 1) \in 1 .. Len(q) - i
        BY <1>1, <1>2, <2>3
      <3>2. b[j - (i - 1)] = q[i + (j - (i - 1))]
        BY <1>3, <3>1
      <3>3. i + (j - (i - 1)) = j + 1
        BY <1>1
      <3>4. QED
        <4>1. ~ (j <= Len(a)) /\ j - Len(a) = j - (i - 1)
          BY <1>1, <1>2, <2>3
        <4>2. (a \o b)[j] = b[j - (i - 1)]
          BY <2>1, <4>1
        <4>3. b[j - (i - 1)] = q[j + 1]
          BY <3>2, <3>3
        <4>4. QED
          BY <2>3, <4>2, <4>3
    <2>4. QED
      BY <2>2, <2>3
  <1>7. QED
    BY <1>1, <1>4, <1>5, <1>6, LenProperties DEF Without

\* What InsertAt gives is the queue it was given, but for what was put in.
LEMMA InsertAtWithout ==
  ASSUME NEW T, NEW q \in Seq(T), NEW i \in DOMAIN q, NEW e \in T
  PROVE  /\ Without(InsertAt(q, i, e), q, i) /\ InsertAt(q, i, e) \in Seq(T)
         /\ InsertAt(q, i, e)[i] = e
  <1>1. i \in 1 .. Len(q) /\ Len(q) \in Nat
    BY LenProperties
  <1> DEFINE a == SubSeq(q, 1, i - 1)
             b == SubSeq(q, i, Len(q))
             m == a \o <<e>>
  <1>2. a \in Seq(T) /\ Len(a) = i - 1 /\ \A j \in 1 .. i - 1 : a[j] = q[j]
    BY <1>1, SubSeqProperties
  <1>3. b \in Seq(T) /\ Len(b) = Len(q) - i + 1 /\ \A j \in 1 .. Len(q) - i + 1 : b[j] = q[i + j - 1]
    BY <1>1, SubSeqProperties
  <1>4. InsertAt(q, i, e) = m \o b
    BY DEF InsertAt
  <1>5. m \in Seq(T) /\ Len(m) = i /\ m[i] = e /\ \A j \in 1 .. i - 1 : m[j] = q[j]
    <2> HIDE DEF a
    <2>1. m \in Seq(T) /\ Len(m) = Len(a) + 1 /\ m[Len(a) + 1] = e
          /\ \A j \in 1 .. Len(a) : m[j] = a[j]
      <3>1. <<e>> \in Seq(T) /\ Len(<<e>>) = 1 /\ <<e>>[1] = e
        OBVIOUS
      <3> DEFINE u == <<e>>
      <3> HIDE DEF u
      <3>2. /\ a \o u \in Seq(T) /\ Len(a \o u) = Len(a) + Len(u)
            /\ \A j \in 1 .. Len(a) + Len(u) : (a \o u)[j] =
                  IF j <= Len(a) THEN a[j] ELSE u[j - Len(a)]
        BY <1>2, <3>1, ConcatProperties DEF u
      <3>3. Len(a) \in Nat /\ Len(u) = 1 /\ u[1] = e
        BY <1>2, <3>1, LenProperties DEF u
      <3>4. (a \o u)[Len(a) + 1] = e /\ \A j \in 1 .. Len(a) : (a \o u)[j] = a[j]
        BY <3>2, <3>3
      <3>5. QED
        BY <3>2, <3>3, <3>4 DEF u
    <2>2. Len(a) + 1 = i
      BY <1>1, <1>2
    <2>3. QED
      BY <1>2, <2>1, <2>2
  <1>6. Len(m \o b) = Len(q) + 1 /\ m \o b \in Seq(T)
    <2> HIDE DEF m, b
    <2>1. m \o b \in Seq(T) /\ Len(m \o b) = Len(m) + Len(b)
      BY <1>3, <1>5, ConcatProperties
    <2>2. QED
      BY <1>1, <1>3, <1>5, <2>1
  <1>7. \A j \in 1 .. Len(q) + 1 : (m \o b)[j] = IF j <= i THEN m[j] ELSE b[j - i]
    <2> HIDE DEF m, b
    <2>1. \A j \in 1 .. Len(m) + Len(b) : (m \o b)[j] = IF j <= Len(m) THEN m[j] ELSE b[j - Len(m)]
      BY <1>3, <1>5, ConcatProperties
    <2>2. Len(m) + Len(b) = Len(q) + 1
      BY <1>1, <1>3, <1>5
    <2>3. QED
      BY <1>5, <2>1, <2>2
  <1>8. ASSUME NEW j \in 1 .. Len(q)
        PROVE  q[j] = IF j < i THEN (m \o b)[j] ELSE (m \o b)[j + 1]
    <2> HIDE DEF m, b
    <2>1. CASE j < i
      <3>1. j \in 1 .. Len(q) + 1 /\ j <= i /\ j \in 1 .. i - 1
        BY <1>1, <2>1
      <3>2. QED
        BY <1>5, <1>7, <2>1, <3>1
    <2>2. CASE ~ (j < i)
      <3>1. /\ j + 1 \in 1 .. Len(q) + 1 /\ ~ (j + 1 <= i)
            /\ (j + 1) - i \in 1 .. Len(q) - i + 1 /\ i + ((j + 1) - i) - 1 = j
        BY <1>1, <2>2
      <3>2. (m \o b)[j + 1] = b[(j + 1) - i]
        BY <1>7, <3>1
      <3>3. b[(j + 1) - i] = q[i + ((j + 1) - i) - 1]
        BY <1>3, <3>1
      <3>4. QED
        BY <2>2, <3>1, <3>2, <3>3
    <2>3. QED
      BY <2>1, <2>2
  <1>9. (m \o b)[i] = e
    <2> HIDE DEF m, b
    <2>1. i \in 1 .. Len(q) + 1 /\ i <= i
      BY <1>1
    <2>2. QED
      BY <1>5, <1>7, <2>1
  <1>10. QED
    <2> HIDE DEF m, b
    <2> DEFINE r == m \o b
    <2>1. r \in Seq(T) /\ Len(r) = Len(q) + 1 /\ r[i] = e
      BY <1>6, <1>9
    <2>2. i \in 1 .. Len(r) /\ Len(q) = Len(r) - 1
      BY <1>1, <2>1
    <2>3. \A j \in 1 .. Len(q) : q[j] = IF j < i THEN r[j] ELSE r[j + 1]
      BY <1>8
    <2>4. InsertAt(q, i, e) = r
      BY <1>4
    <2> HIDE DEF r
    <2>5. Without(r, q, i)
      BY <1>1, <2>1, <2>2, <2>3, LenProperties DEF Without
    <2>6. QED
      BY <2>1, <2>4, <2>5

\* What a PPD does with a job it takes: the queue it had is the queue it has but
\* for the job, which is last unless its sector is misplaced.
LEMMA QueuedJob ==
  ASSUME IInv, NEW s \in Storage, NodeQueueJob(s)
  PROVE  \E job \in Job, k \in Nat :
            /\ job = Head(toPpd[s])
            /\ jobs[s] \in Seq(Job) /\ jobs'[s] \in Seq(Job)
            /\ Without(jobs'[s], jobs[s], k) /\ jobs'[s][k] = job
            /\ jobs'[s] = Append(jobs[s], job) \/ job.sector \in misplaced'
            /\ misplaced \subseteq misplaced'
            /\ \A t \in Storage \ {s} : jobs'[t] = jobs[t]
  <1> USE DEF IInv, TypeOK
  <1>1. toPpd[s] # <<>> /\ toPpd[s] \in Seq(Message) /\ Head(toPpd[s]).op \in {"get", "put"}
    BY DEF NodeQueueJob, Takes, NetworkTypeOK
  <1>2. PICK job \in Job : job = Head(toPpd[s])
    BY <1>1, HeadTailProperties DEF Message, SyncMessage
  <1>3. jobs[s] \in Seq(Job) /\ Len(jobs[s]) \in Nat
    BY LenProperties DEF NodeTypeOK
  <1>4. CASE QueueInOrder(s, job)
    <2>1. jobs'[s] = Append(jobs[s], job) /\ \A t \in Storage \ {s} : jobs'[t] = jobs[t]
      BY <1>4 DEF QueueInOrder, NodeTypeOK
    <2>2. jobs'[s] \in Seq(Job) /\ Len(jobs'[s]) = Len(jobs[s]) + 1
          /\ jobs'[s][Len(jobs[s]) + 1] = job
          /\ \A i \in 1 .. Len(jobs[s]) : jobs'[s][i] = jobs[s][i]
      BY <1>3, <2>1, AppendProperties
    <2>3. Without(jobs'[s], jobs[s], Len(jobs[s]) + 1)
      BY <1>3, <2>2, LenProperties DEF Without
    <2>4. misplaced' = misplaced /\ Len(jobs[s]) + 1 \in Nat
      BY <1>3, <1>4 DEF QueueInOrder
    <2>5. QED
      BY <1>2, <1>3, <2>1, <2>2, <2>3, <2>4
  <1>5. ASSUME NEW i \in DOMAIN jobs[s], Misplace(s, job, i)
        PROVE  /\ jobs'[s] \in Seq(Job) /\ i \in Nat
               /\ Without(jobs'[s], jobs[s], i) /\ jobs'[s][i] = job
               /\ job.sector \in misplaced' /\ misplaced \subseteq misplaced'
               /\ \A t \in Storage \ {s} : jobs'[t] = jobs[t]
    <2>1. jobs'[s] = InsertAt(jobs[s], i, job) /\ \A t \in Storage \ {s} : jobs'[t] = jobs[t]
      BY <1>5 DEF Misplace, NodeTypeOK
    <2>2. /\ jobs'[s] \in Seq(Job) /\ Without(jobs'[s], jobs[s], i) /\ jobs'[s][i] = job
      BY <1>3, <2>1, InsertAtWithout
    <2>3. i \in Nat
      BY <1>3, LenProperties
    <2>4. QED
      BY <1>5, <2>1, <2>2, <2>3 DEF Misplace
  <1>6. QueueInOrder(s, job) \/ \E i \in DOMAIN jobs[s] : Misplace(s, job, i)
    BY <1>2 DEF NodeQueueJob
  <1>7. QED
    BY <1>2, <1>3, <1>4, <1>5, <1>6

\* What the list of a PPD loses.
LEMMA LostJob ==
  ASSUME IInv, NEW s \in Storage, NodeLosesJob(s)
  PROVE  \E job \in Job, i \in DOMAIN jobs[s] :
            /\ job = jobs[s][i]
            /\ jobs[s] \in Seq(Job) /\ jobs'[s] \in Seq(Job)
            /\ Without(jobs[s], jobs'[s], i)
            /\ dropped' = dropped \cup {job.sector}
            /\ \A t \in Storage \ {s} : jobs'[t] = jobs[t]
  <1>1. PICK i \in DOMAIN jobs[s] : /\ jobs' = [jobs EXCEPT ![s] = RemoveAt(@, i)]
                                   /\ dropped' = dropped \cup {jobs[s][i].sector}
    BY DEF NodeLosesJob
  <1>2. jobs[s] \in Seq(Job) /\ jobs[s][i] \in Job
    BY ElementOfSeq DEF IInv, TypeOK, NodeTypeOK
  <1>3. jobs'[s] = RemoveAt(jobs[s], i) /\ \A t \in Storage \ {s} : jobs'[t] = jobs[t]
    BY <1>1 DEF IInv, TypeOK, NodeTypeOK
  <1>4. QED
    BY <1>1, <1>2, <1>3, RemoveAtWithout

-----------------------------------------------------------------------------
(* Counting the jobs of a sector.                                           *)

\* The messages of a kind for a sector among the first n of a queue, and how many
\* they are.
Matching(q, ops, x, n) == { j \in 1 .. n : q[j].op \in ops /\ q[j].sector = x }
Num(q, ops, x, n) == Cardinality(Matching(q, ops, x, n))
Hit(m, ops, x) == IF m.op \in ops /\ m.sector = x THEN 1 ELSE 0

LEMMA NumType ==
  ASSUME NEW q, NEW ops, NEW x, NEW n \in Int
  PROVE  IsFiniteSet(Matching(q, ops, x, n)) /\ Num(q, ops, x, n) \in Nat
  <1>1. Matching(q, ops, x, n) \in SUBSET (1 .. n)
    BY DEF Matching
  <1>2. IsFiniteSet(Matching(q, ops, x, n))
    BY <1>1, IntervalSubset, Zenon
  <1>3. QED
    BY <1>2, FS_CardinalityType DEF Num

LEMMA NumZero ==
  ASSUME NEW q, NEW ops, NEW x, NEW n \in Int, \A j \in 1 .. n : q[j].sector # x
  PROVE  Num(q, ops, x, n) = 0
  <1>1. Matching(q, ops, x, n) = {}
    BY DEF Matching
  <1>2. QED
    BY <1>1, FS_EmptySet DEF Num

LEMMA NumSame ==
  ASSUME NEW q, NEW r, NEW ops, NEW x, NEW n \in Int, \A j \in 1 .. n : q[j] = r[j]
  PROVE  Num(q, ops, x, n) = Num(r, ops, x, n)
  BY DEF Num, Matching

\* What the removal of one element does to the counts.
LEMMA NumWithout ==
  ASSUME NEW T, NEW q \in Seq(T), NEW r \in Seq(T), NEW i, Without(q, r, i),
         NEW ops, NEW x
  PROVE  /\ \A n \in 0 .. i - 1 : Num(q, ops, x, n) = Num(r, ops, x, n)
         /\ \A n \in i .. Len(q) : Num(q, ops, x, n) = Num(r, ops, x, n - 1) + Hit(q[i], ops, x)
  <1>1. /\ Len(q) \in Nat /\ i \in 1 .. Len(q) /\ DOMAIN q = 1 .. Len(q)
        /\ Len(r) = Len(q) - 1 /\ DOMAIN r = 1 .. Len(q) - 1
    BY LenProperties DEF Without
  <1>2. ASSUME NEW n \in 0 .. i - 1
        PROVE  Num(q, ops, x, n) = Num(r, ops, x, n)
    <2>1. \A j \in 1 .. n : q[j] = r[j]
      BY <1>1 DEF Without
    <2>2. n \in Int
      OBVIOUS
    <2>3. QED
      BY <2>1, <2>2, NumSame
  <1>3. ASSUME NEW n \in i .. Len(q)
        PROVE  Num(q, ops, x, n) = Num(r, ops, x, n - 1) + Hit(q[i], ops, x)
    <2> DEFINE S == Matching(q, ops, x, n)
               R == Matching(r, ops, x, n - 1)
    <2>1. n \in Nat /\ i \in 1 .. n
      BY <1>1
    <2>2. S \in SUBSET (1 .. n) /\ R \in SUBSET (1 .. n - 1)
      BY DEF Matching
    <2>3. \A j \in 1 .. n - 1 : j \in R <=> (IF j < i THEN j ELSE j + 1) \in S
      <3>1. \A j \in 1 .. n - 1 : r[j] = q[IF j < i THEN j ELSE j + 1]
        BY <1>1, <2>1 DEF Without
      <3>2. \A j \in 1 .. n - 1 : (IF j < i THEN j ELSE j + 1) \in 1 .. n
        BY <1>1, <2>1
      <3>3. QED
        BY <3>1, <3>2 DEF Matching
    <2>4. i \in S <=> q[i].op \in ops /\ q[i].sector = x
      BY <2>1 DEF Matching
    <2>5. Cardinality(S) = Cardinality(R) + (IF i \in S THEN 1 ELSE 0)
      <3> HIDE DEF S, R
      <3>1. QED
        BY <2>1, <2>2, <2>3, PositionsWithout
    <2>6. QED
      BY <2>4, <2>5 DEF Num, Hit
  <1>4. QED
    BY <1>2, <1>3

LEMMA AppendWithout ==
  ASSUME NEW T, NEW q \in Seq(T), NEW m \in T
  PROVE  /\ Without(Append(q, m), q, Len(q) + 1) /\ Append(q, m) \in Seq(T)
         /\ Len(Append(q, m)) = Len(q) + 1 /\ Len(q) \in Nat
         /\ Append(q, m)[Len(q) + 1] = m
  BY AppendProperties, LenProperties DEF Without

LEMMA NumAppend ==
  ASSUME NEW T, NEW q \in Seq(T), NEW m \in T, NEW ops, NEW x
  PROVE  /\ \A n \in 0 .. Len(q) : Num(Append(q, m), ops, x, n) = Num(q, ops, x, n)
         /\ Num(Append(q, m), ops, x, Len(q) + 1) = Num(q, ops, x, Len(q)) + Hit(m, ops, x)
  <1>1. /\ Without(Append(q, m), q, Len(q) + 1) /\ Append(q, m) \in Seq(T)
        /\ Len(Append(q, m)) = Len(q) + 1 /\ Len(q) \in Nat
        /\ Append(q, m)[Len(q) + 1] = m
    BY AppendWithout
  <1> DEFINE p == Append(q, m)
             l == Len(q) + 1
  <1> HIDE DEF p, l
  <1>2. /\ \A n \in 0 .. l - 1 : Num(p, ops, x, n) = Num(q, ops, x, n)
        /\ \A n \in l .. Len(p) : Num(p, ops, x, n) = Num(q, ops, x, n - 1) + Hit(p[l], ops, x)
    <2>1. p \in Seq(T) /\ Without(p, q, l)
      BY <1>1 DEF p, l
    <2>2. QED
      BY <2>1, NumWithout
  <1>3. l - 1 = Len(q) /\ l \in l .. Len(p) /\ p[l] = m
    BY <1>1 DEF p, l
  <1>4. QED
    BY <1>2, <1>3 DEF p, l


LEMMA NumAppendBelow ==
  ASSUME NEW T, NEW q \in Seq(T), NEW m \in T
  PROVE  \A ops, x : \A n \in 0 .. Len(q) : Num(Append(q, m), ops, x, n) = Num(q, ops, x, n)
  <1> SUFFICES ASSUME NEW ops, NEW x, NEW n \in 0 .. Len(q)
               PROVE  Num(Append(q, m), ops, x, n) = Num(q, ops, x, n)
    OBVIOUS
  <1>1. n \in Int /\ \A j \in 1 .. n : Append(q, m)[j] = q[j]
    BY AppendAt, LenProperties
  <1>2. QED
    BY <1>1 DEF Num, Matching

-----------------------------------------------------------------------------
(* PPDs that join, while none has ended and the first ones hold the volume. *)

\* How many sectors of a volume a stream has.
Part(m) == IF m.op = "syncPut" THEN 1 ELSE 0
SyncPuts(q) == Num(q, {"syncPut"}, 0, Len(q))

\* The sectors of the volume that s has; those that m has read for another, and
\* those of them that PRAID has yet to forward.
Got(s) == IF ready[s] \/ rebuilding[s] THEN Len(disk[s]) ELSE 0
Read(m) == IF stream[m] # 0 THEN stream[m] - 1
           ELSE IF Has(fromPpd[m], {"syncEnd"}) THEN VolumeSectors ELSE 0
Sent(m) == SyncPuts(fromPpd[m])

\* A PPD is told nothing until it is in the list; then it is given a volume, is
\* told that this was all of it, and processes jobs.
Idle(s) == ~ ready[s] /\ jobs[s] = <<>> /\ stream[s] = 0
Fresh(s) == Idle(s) /\ toPpd[s] = <<>> /\ ~ rebuilding[s]
OnlyPuts(q) == \A i \in DOMAIN q : q[i].op = "syncPut"
Rebuilds(s, m) ==
    /\ Idle(s) /\ OnlyPuts(toPpd[s])
    /\ Got(s) + Len(toPpd[s]) + Sent(m) = Read(m)
SettlesAt(s, e) ==
    /\ e \in DOMAIN toPpd[s] /\ toPpd[s][e].op = "syncEnd"
    /\ \A i \in DOMAIN toPpd[s] : /\ i < e => toPpd[s][i].op = "syncPut"
                                  /\ i > e => toPpd[s][i].op \notin {"syncPut", "syncEnd"}
    /\ Got(s) + e = VolumeSectors + 1
Settling(s) == Idle(s) /\ \E e \in Nat : SettlesAt(s, e)
Whole(s) ==
    /\ ready[s] /\ ~ rebuilding[s] /\ Len(disk[s]) = VolumeSectors
    /\ ~ Has(toPpd[s], {"syncPut", "syncEnd"})
    /\ mapped[s] \/ stream[s] # 0
Sources(m) == ppdStatus[m] = "running" /\ (Whole(m) \/ Settling(m))

Admitted(s) == acceptor.pc # "accept" /\ acceptor.destiny = s

ListedRun ==
    /\ storages # <<>>
    /\ acceptor.pc = "validate" => Len(storages) >= 2
    /\ \A s \in Storage : Member(s) => ppdStatus[s] = "running"
StagesFollow ==
    \A s \in Storage :
        /\ ppdStatus[s] = "offline" \/ Admitted(s) => Fresh(s)
        /\ ppdStatus[s] = "running" => Sources(s) \/ Replicating(s) \/ Admitted(s)
MasterServes ==
    acceptor.pc # "accept" =>
        /\ acceptor.master \in Storage /\ acceptor.master # acceptor.destiny
        /\ \A m \in Storage : m = acceptor.master => Sources(m)
PairRebuilds ==
    /\ replicationActive /\ acceptor.pc # "fire" =>
          syncState.source \in Storage /\ syncState.destiny \in Storage
    /\ \A s, m \in Storage : Replicating(s) /\ m = syncState.source =>
          m # s /\ Sources(m) /\ ppdStatus[s] = "running" /\ Rebuilds(s, m)
Stages == ListedRun /\ StagesFollow /\ MasterServes /\ PairRebuilds

StageInv == ReplicationEnabled /\ InitialStorages # <<>> /\ deaths = 0 => Stages

-----------------------------------------------------------------------------
(* One PPD.                                                                 *)

Still(s) ==
    /\ disk'[s] = disk[s] /\ mapped'[s] = mapped[s] /\ jobs'[s] = jobs[s]
    /\ stream'[s] = stream[s] /\ rebuilding'[s] = rebuilding[s] /\ ready'[s] = ready[s]

LEMMA PutsNat == \A q \in Seq(Message) : SyncPuts(q) \in Nat
  <1> SUFFICES ASSUME NEW q \in Seq(Message) PROVE SyncPuts(q) \in Nat
    OBVIOUS
  <1>1. Len(q) \in Int
    BY LenProperties
  <1>2. QED
    BY <1>1, NumType DEF SyncPuts

LEMMA NodeTypes ==
  ASSUME TypeOK, NEW s \in Storage
  PROVE  /\ disk[s] \in Seq(Value) /\ Len(disk[s]) \in Nat /\ jobs[s] \in Seq(Job)
         /\ toPpd[s] \in Seq(Message) /\ fromPpd[s] \in Seq(Message)
         /\ Len(toPpd[s]) \in Nat /\ DOMAIN toPpd[s] = 1 .. Len(toPpd[s])
         /\ Len(fromPpd[s]) \in Nat /\ DOMAIN fromPpd[s] = 1 .. Len(fromPpd[s])
         /\ stream[s] \in Nat /\ mapped[s] \in BOOLEAN /\ rebuilding[s] \in BOOLEAN
         /\ ready[s] \in BOOLEAN /\ VolumeSectors \in Nat /\ VolumeSectors >= 1
         /\ Got(s) \in Nat /\ Sent(s) \in Nat /\ Read(s) \in Int
  <1> USE DEF TypeOK, NodeTypeOK, NetworkTypeOK
  <1>1. /\ disk[s] \in Seq(Value) /\ Len(disk[s]) \in Nat /\ jobs[s] \in Seq(Job)
        /\ toPpd[s] \in Seq(Message) /\ fromPpd[s] \in Seq(Message)
        /\ Len(toPpd[s]) \in Nat /\ DOMAIN toPpd[s] = 1 .. Len(toPpd[s])
        /\ Len(fromPpd[s]) \in Nat /\ DOMAIN fromPpd[s] = 1 .. Len(fromPpd[s])
        /\ stream[s] \in Nat /\ mapped[s] \in BOOLEAN /\ rebuilding[s] \in BOOLEAN
        /\ ready[s] \in BOOLEAN
    BY LenProperties
  <1>2. VolumeSectors \in Nat /\ VolumeSectors >= 1
    BY PraidAssumption
  <1>3. Got(s) \in Nat /\ Sent(s) \in Nat /\ Read(s) \in Int
    BY <1>1, <1>2, PutsNat DEF Got, Sent, Read
  <1>4. QED
    BY <1>1, <1>2, <1>3

LEMMA StageUntouched ==
  ASSUME NEW s \in Storage, Still(s), toPpd'[s] = toPpd[s]
  PROVE  /\ (Whole(s)' <=> Whole(s)) /\ (Settling(s)' <=> Settling(s)) /\ (Fresh(s)' <=> Fresh(s))
         /\ (Idle(s)' <=> Idle(s)) /\ (OnlyPuts(toPpd[s])' <=> OnlyPuts(toPpd[s]))
         /\ Got(s)' = Got(s)
  <1> USE DEF Still
  <1>1. Got(s)' = Got(s) /\ (Idle(s)' <=> Idle(s))
    BY DEF Got, Idle
  <1>2. \A e : SettlesAt(s, e)' <=> SettlesAt(s, e)
    BY <1>1 DEF SettlesAt
  <1>3. Settling(s)' <=> Settling(s)
    BY <1>1, <1>2 DEF Settling
  <1>4. Whole(s)' <=> Whole(s)
    BY DEF Whole, Has
  <1>5. QED
    BY <1>1, <1>3, <1>4 DEF Fresh, OnlyPuts

\* What appending and taking the head do to their number.
LEMMA SyncSector == \A m \in Message : Hit(m, {"syncPut"}, 0) = Part(m)
  BY DEF Hit, Part, Message, Job, SyncMessage

LEMMA PutsAppend ==
  ASSUME NEW q \in Seq(Message), NEW m \in Message
  PROVE  SyncPuts(Append(q, m)) = SyncPuts(q) + Part(m)
  <1>1. Len(Append(q, m)) = Len(q) + 1
    BY AppendProperties
  <1>2. QED
    BY <1>1, NumAppend, SyncSector DEF SyncPuts

LEMMA PutsTail ==
  ASSUME NEW q \in Seq(Message), q # <<>>
  PROVE  SyncPuts(q) = SyncPuts(Tail(q)) + Part(Head(q))
  <1>1. Without(q, Tail(q), 1) /\ Tail(q) \in Seq(Message) /\ Head(q) = q[1] /\ Head(q) \in Message
    BY TailWithout
  <1>2. Len(q) \in Nat /\ Len(q) >= 1 /\ Len(Tail(q)) = Len(q) - 1
    BY TailAt, HeadTailProperties
  <1>3. PICK r \in Seq(Message) : r = Tail(q) /\ Without(q, r, 1)
    BY <1>1
  <1>4. Len(q) \in 1 .. Len(q)
    BY <1>2
  <1>5. Num(q, {"syncPut"}, 0, Len(q)) =
           Num(r, {"syncPut"}, 0, Len(q) - 1) + Hit(q[1], {"syncPut"}, 0)
    <2>1. PICK ops : ops = {"syncPut"}
      OBVIOUS
    <2>2. PICK i : i = 1 /\ Without(q, r, i)
      BY <1>3
    <2>3. \A n \in i .. Len(q) : Num(q, ops, 0, n) = Num(r, ops, 0, n - 1) + Hit(q[i], ops, 0)
      BY <2>2, NumWithout
    <2>4. QED
      BY <1>4, <2>1, <2>2, <2>3
  <1>6. QED
    BY <1>1, <1>2, <1>3, <1>5, SyncSector DEF SyncPuts

LEMMA PutsNone ==
  ASSUME NEW q \in Seq(Message), ~ Has(q, {"syncPut"})
  PROVE  SyncPuts(q) = 0
  <1>1. Len(q) \in Nat /\ DOMAIN q = 1 .. Len(q)
    BY LenProperties
  <1>2. Matching(q, {"syncPut"}, 0, Len(q)) = {}
    BY <1>1 DEF Matching, Has
  <1>3. QED
    BY <1>2, FS_EmptySet DEF SyncPuts, Num

\* A PPD that serves or is about to hears a message that is no part of a volume.
LEMMA StageHears ==
  ASSUME TypeOK, NEW s \in Storage, Still(s), NEW m \in Message,
         m.op \notin {"syncPut", "syncEnd"}, toPpd'[s] = Append(toPpd[s], m)
  PROVE  (Whole(s) => Whole(s)') /\ (Settling(s) => Settling(s)')
  <1> USE DEF Still
  <1>1. toPpd[s] \in Seq(Message)
    BY NodeTypes
  <1>2. Whole(s) => Whole(s)'
    BY <1>1, HasAfterAppend DEF Whole
  <1>3. Got(s)' = Got(s) /\ (Idle(s)' <=> Idle(s))
    BY DEF Got, Idle
  <1>4. ASSUME NEW e \in Nat, SettlesAt(s, e)
        PROVE  SettlesAt(s, e)'
    BY <1>1, <1>3, <1>4, AppendAt DEF SettlesAt
  <1>5. QED
    BY <1>2, <1>3, <1>4 DEF Settling

\* A source goes on reading and sending as if nothing was said to it.
LEMMA StreamUntouched ==
  ASSUME TypeOK, NEW m \in Storage, stream'[m] = stream[m],
         \/ fromPpd'[m] = fromPpd[m]
         \/ /\ fromPpd[m] # <<>> /\ fromPpd'[m] = Tail(fromPpd[m])
            /\ Head(fromPpd[m]).op \notin {"syncPut", "syncEnd"}
         \/ \E n \in Message : /\ n.op \notin {"syncPut", "syncEnd"}
                               /\ fromPpd'[m] = Append(fromPpd[m], n)
  PROVE  Sent(m)' = Sent(m) /\ Read(m)' = Read(m)
  <1>1. fromPpd[m] \in Seq(Message) /\ Len(fromPpd[m]) \in Nat
    BY NodeTypes
  <1>2. CASE fromPpd'[m] = fromPpd[m]
    BY <1>2 DEF Sent, Read, Has
  <1>3. CASE /\ fromPpd[m] # <<>> /\ fromPpd'[m] = Tail(fromPpd[m])
             /\ Head(fromPpd[m]).op \notin {"syncPut", "syncEnd"}
    <2>1. Has(fromPpd'[m], {"syncEnd"}) <=> Has(fromPpd[m], {"syncEnd"})
      BY <1>1, <1>3, HasTail
    <2>2. Sent(m)' = Sent(m)
      <3>1. Tail(fromPpd[m]) \in Seq(Message)
        BY <1>1, <1>3, HeadAndTail
      <3>2. SyncPuts(fromPpd[m]) = SyncPuts(Tail(fromPpd[m])) + 0
        BY <1>1, <1>3, PutsTail DEF Part
      <3>3. SyncPuts(Tail(fromPpd[m])) \in Nat
        BY <3>1, PutsNat
      <3>4. QED
        BY <1>3, <3>2, <3>3 DEF Sent
    <2>3. QED
      BY <2>1, <2>2 DEF Read
  <1>4. ASSUME NEW n \in Message, n.op \notin {"syncPut", "syncEnd"},
               fromPpd'[m] = Append(fromPpd[m], n)
        PROVE  Sent(m)' = Sent(m) /\ Read(m)' = Read(m)
    <2>1. Has(fromPpd'[m], {"syncEnd"}) <=> Has(fromPpd[m], {"syncEnd"})
      BY <1>1, <1>4, HasAppend
    <2>2. Sent(m)' = Sent(m)
      BY <1>1, <1>4, PutsAppend, PutsNat DEF Sent, Part
    <2>3. QED
      BY <2>1, <2>2 DEF Read
  <1>5. QED
    BY <1>2, <1>3, <1>4

\* A job that is executed without a fault.
LEMMA ExecuteOutcome ==
  ASSUME IInv, NEW s \in Storage, NodeExecute(s), deaths' = 0
  PROVE  /\ UNCHANGED <<toPpd, ppdStatus, mapped, stream, rebuilding, ready>>
         /\ jobs[s] # <<>> /\ Len(disk'[s]) = Len(disk[s])
         /\ \/ fromPpd'[s] = fromPpd[s]
            \/ \E n \in Message : /\ n.op \notin {"syncPut", "syncEnd"}
                                  /\ fromPpd'[s] = Append(fromPpd[s], n)
  <1> USE DEF IInv, TypeOK
  <1>1. PICK i \in DOMAIN jobs[s] : Executable(s, i) /\ Executes(s, i)
    BY DEF NodeExecute
  <1>2. /\ jobs[s] \in Seq(Job) /\ disk[s] \in Seq(Value) /\ DOMAIN disk[s] = 1 .. Len(disk[s])
        /\ fromPpd[s] \in Seq(Message)
    BY LenProperties DEF NodeTypeOK, NetworkTypeOK
  <1>3. PICK job \in Job : job = jobs[s][i]
    BY <1>2, ElementOfSeq
  <1>4. mapped[s] /\ job.sector \in DOMAIN disk[s]
    BY <1>1, <1>3, EndsCounted DEF Executes
  <1>5. jobs[s] # <<>> /\ UNCHANGED <<toPpd, ppdStatus, mapped, stream, rebuilding, ready>>
    BY <1>1, <1>3, <1>4 DEF Executes
  <1>6. CASE job.op = "put"
    <2>1. disk'[s] = [disk[s] EXCEPT ![job.sector] = job.value] /\ fromPpd' = fromPpd
      BY <1>1, <1>3, <1>4, <1>6 DEF Executes, NodeTypeOK
    <2>2. Len(disk'[s]) = Len(disk[s])
      BY <1>2, <1>4, <2>1, ExceptSeq
    <2>3. QED
      BY <1>5, <2>1, <2>2
  <1>7. CASE job.op # "put"
    <2>1. PICK v \in Value : v = disk[s][job.sector]
      BY <1>2, <1>4, ElementOfSeq
    <2>2. PICK n \in Message : n = [job EXCEPT !.value = v] /\ n.op \notin {"syncPut", "syncEnd"}
      <3>1. [job EXCEPT !.value = v] \in Job /\ [job EXCEPT !.value = v].op \in {"get", "put"}
        BY DEF Job
      <3>2. QED
        BY <3>1 DEF Message
    <2>3. disk' = disk /\ fromPpd' = [fromPpd EXCEPT ![s] = Append(@, n)]
      BY <1>1, <1>3, <1>4, <1>7, <2>1, <2>2 DEF Executes
    <2>4. fromPpd'[s] = Append(fromPpd[s], n)
      BY <2>3 DEF NetworkTypeOK
    <2>5. QED
      BY <1>5, <2>2, <2>3, <2>4
  <1>8. QED
    BY <1>6, <1>7

\* A step of a PPD that ends none touches that PPD only.
LEMMA NodeOthers ==
  ASSUME IInv, NEW s \in Storage, NodeWorks(s), deaths' = 0
  PROVE  /\ UNCHANGED <<praidVars, ppdStatus, requests, replies>> /\ ppdStatus[s] = "running"
         /\ \A t \in Storage \ {s} : Still(t) /\ toPpd'[t] = toPpd[t] /\ fromPpd'[t] = fromPpd[t]
  <1> USE DEF IInv, TypeOK
  <1>1. ~ Ends(s)
    BY EndsCounted
  <1>2. CASE NodeExecute(s)
    <2>1. PICK i \in DOMAIN jobs[s] : Executes(s, i)
      BY <1>2 DEF NodeExecute
    <2>2. UNCHANGED ppdStatus
      BY <1>2, ExecuteOutcome
    <2>3. \A t \in Storage \ {s} : Still(t) /\ toPpd'[t] = toPpd[t] /\ fromPpd'[t] = fromPpd[t]
      BY <1>1, <2>1 DEF Executes, Still, NodeTypeOK, NetworkTypeOK
    <2>4. QED
      BY <1>2, <2>2, <2>3 DEF NodeExecute
  <1>3. CASE ~ NodeExecute(s)
    BY <1>1, <1>3 DEF NodeWorks, Node, NodeQueueJob, NodeSyncGet, NodeStream, NodeUnmap, NodeStreamEnd,
       NodeSyncPut, NodeSyncEnd, NodeLosesJob, QueueInOrder, Misplace, Takes, Still, NodeTypeOK, NetworkTypeOK
  <1>4. QED
    BY <1>2, <1>3

\* What a message that was taken leaves.
LEMMA TakesOutcome ==
  ASSUME IInv, NEW s \in Storage, NEW ops, Takes(s, ops)
  PROVE  /\ toPpd[s] \in Seq(Message) /\ toPpd[s] # <<>> /\ stream[s] = 0
         /\ DOMAIN toPpd[s] = 1 .. Len(toPpd[s]) /\ Len(toPpd[s]) \in Nat /\ Len(toPpd[s]) >= 1
         /\ toPpd[s][1] \in Message /\ toPpd[s][1].op \in ops /\ Head(toPpd[s]) = toPpd[s][1]
         /\ toPpd'[s] = Tail(toPpd[s]) /\ toPpd'[s] \in Seq(Message)
         /\ Len(toPpd'[s]) = Len(toPpd[s]) - 1
         /\ DOMAIN toPpd'[s] = 1 .. Len(toPpd[s]) - 1
         /\ \A i \in DOMAIN toPpd'[s] : toPpd'[s][i] = toPpd[s][i + 1]
         /\ \A other : Has(toPpd'[s], other) => Has(toPpd[s], other)
  <1> USE DEF IInv, TypeOK
  <1>1. /\ toPpd[s] \in Seq(Message) /\ toPpd[s] # <<>> /\ stream[s] = 0
        /\ toPpd'[s] = Tail(toPpd[s]) /\ Head(toPpd[s]) \in Message /\ Head(toPpd[s]).op \in ops
    BY TakesTail
  <1>2. /\ DOMAIN toPpd[s] = 1 .. Len(toPpd[s]) /\ Len(toPpd[s]) \in Nat /\ Len(toPpd[s]) >= 1
        /\ Head(toPpd[s]) = toPpd[s][1]
        /\ DOMAIN Tail(toPpd[s]) = 1 .. Len(toPpd[s]) - 1
        /\ \A i \in DOMAIN Tail(toPpd[s]) : Tail(toPpd[s])[i] = toPpd[s][i + 1]
    BY <1>1, TailAt
  <1>3. Tail(toPpd[s]) \in Seq(Message) /\ Len(Tail(toPpd[s])) = Len(toPpd[s]) - 1
    BY <1>1, HeadTailProperties
  <1>4. \A other : Has(Tail(toPpd[s]), other) => Has(toPpd[s], other)
    BY <1>1, HasTail
  <1>5. QED
    BY <1>1, <1>2, <1>3, <1>4

\* A PPD that is told nothing does nothing.
LEMMA FreshWaits ==
  ASSUME IInv, NEW s \in Storage, Fresh(s)
  PROVE  ~ NodeWorks(s)
  <1>1. jobs[s] = <<>> /\ stream[s] = 0 /\ toPpd[s] = <<>> /\ ~ rebuilding[s]
    BY DEF Fresh, Idle
  <1>2. ~ NodeExecute(s) /\ ~ NodeStream(s) /\ ~ NodeUnmap(s) /\ ~ NodeStreamEnd(s)
    <2>1. DOMAIN disk[s] = 1 .. Len(disk[s])
      BY NodeTypes, LenProperties DEF IInv
    <2>2. QED
      BY <1>1, <2>1 DEF NodeExecute, NodeStream, NodeUnmap, NodeStreamEnd, Streamed, Rebuilt
  <1>3. ~ NodeLosesJob(s)
    BY <1>1 DEF NodeLosesJob
  <1>4. QED
    BY <1>1, <1>2, <1>3 DEF NodeWorks, Node, NodeQueueJob, NodeSyncGet, NodeSyncPut, NodeSyncEnd, Takes

\* A PPD that serves goes on serving, although the end of a replication of which
\* it is the source takes its mapping away.
LEMMA WholeStays ==
  ASSUME IInv, NEW s \in Storage, Whole(s), NodeWorks(s), deaths' = 0
  PROVE  Whole(s)'
  <1> USE DEF IInv, TypeOK
  <1>1. /\ ready[s] /\ ~ rebuilding[s] /\ Len(disk[s]) = VolumeSectors
        /\ ~ Has(toPpd[s], {"syncPut", "syncEnd"})
        /\ mapped[s] \/ stream[s] # 0
    BY DEF Whole
  <1>2. ~ Ends(s)
    BY EndsCounted
  <1>3. ASSUME NEW ops, Takes(s, ops)
        PROVE  ~ Has(toPpd'[s], {"syncPut", "syncEnd"}) /\ toPpd[s][1].op \notin {"syncPut", "syncEnd"}
               /\ toPpd[s][1].op \in ops /\ mapped[s]
    BY <1>1, <1>3, TakesOutcome DEF Has
  <1>4. CASE NodeQueueJob(s)
    BY <1>1, <1>3, <1>4 DEF NodeQueueJob, Whole
  <1>5. CASE NodeSyncGet(s)
    BY <1>1, <1>2, <1>3, <1>5 DEF NodeSyncGet, Whole, NodeTypeOK
  <1>6. CASE NodeStream(s)
    BY <1>1, <1>6, NodeTypes DEF NodeStream, Whole, NodeTypeOK
  <1>7. CASE NodeUnmap(s)
    BY <1>1, <1>7 DEF NodeUnmap, Streamed, Rebuilt, Whole
  <1>8. CASE NodeStreamEnd(s)
    BY <1>1, <1>8 DEF NodeStreamEnd, Whole, NodeTypeOK
  <1>9. ~ NodeSyncPut(s) /\ ~ NodeSyncEnd(s)
    BY <1>3 DEF NodeSyncPut, NodeSyncEnd
  <1>10. CASE NodeExecute(s)
    BY <1>1, <1>10, ExecuteOutcome DEF Whole
  <1>11. CASE NodeLosesJob(s)
    BY <1>1, <1>11 DEF NodeLosesJob, Whole
  <1>12. QED
    BY <1>4, <1>5, <1>6, <1>7, <1>8, <1>9, <1>10, <1>11 DEF NodeWorks, Node

\* The only steps of a PPD that was told nothing but sectors and their end.
LEMMA IdleTakes ==
  ASSUME IInv, NEW s \in Storage, Idle(s), NodeWorks(s), deaths' = 0,
         toPpd[s] # <<>> => toPpd[s][1].op \in {"syncPut", "syncEnd"}
  PROVE  NodeUnmap(s) \/ NodeSyncPut(s) \/ NodeSyncEnd(s)
  <1>1. jobs[s] = <<>> /\ stream[s] = 0
    BY DEF Idle
  <1>2. ~ NodeExecute(s) /\ ~ NodeStream(s) /\ ~ NodeStreamEnd(s)
    <2>1. DOMAIN disk[s] = 1 .. Len(disk[s])
      BY NodeTypes, LenProperties DEF IInv
    <2>2. QED
      BY <1>1, <2>1 DEF NodeExecute, NodeStream, NodeStreamEnd, Streamed
  <1>3. ~ NodeQueueJob(s) /\ ~ NodeSyncGet(s)
    <2>1. \A ops : Takes(s, ops) => toPpd[s][1].op \in ops /\ toPpd[s] # <<>>
      BY TakesOutcome
    <2>2. ~ Ends(s)
      BY EndsCounted DEF IInv, TypeOK
    <2>3. QED
      BY <2>1, <2>2 DEF NodeQueueJob, NodeSyncGet
  <1>4. ~ NodeLosesJob(s)
    BY <1>1 DEF NodeLosesJob
  <1>5. QED
    BY <1>2, <1>3, <1>4 DEF NodeWorks, Node

\* A sector of the volume is written behind those that came before.
LEMMA SyncPutOutcome ==
  ASSUME IInv, NEW s \in Storage, Idle(s), NodeSyncPut(s)
  PROVE  /\ Idle(s)' /\ Got(s)' = Got(s) + 1 /\ rebuilding'[s] /\ toPpd[s][1].op = "syncPut"
         /\ Len(disk'[s]) = Got(s) + 1 /\ disk'[s][Got(s) + 1] = toPpd[s][1].value
         /\ \A x \in 1 .. Got(s) : disk'[s][x] = disk[s][x]
  <1> USE DEF IInv, TypeOK
  <1>1. Takes(s, {"syncPut"}) /\ toPpd[s][1].op = "syncPut" /\ Head(toPpd[s]) = toPpd[s][1]
        /\ toPpd[s][1] \in Message
    BY TakesOutcome DEF NodeSyncPut
  <1>2. PICK v \in Value : v = toPpd[s][1].value
    BY <1>1 DEF Message, Job, SyncMessage
  <1>3. /\ disk'[s] = IF rebuilding[s] THEN Append(disk[s], v) ELSE <<v>>
        /\ rebuilding'[s] /\ UNCHANGED <<ready, jobs, stream>>
    BY <1>1, <1>2 DEF NodeSyncPut, NodeTypeOK
  <1>4. Idle(s)' /\ ~ ready[s] /\ Got(s) = IF rebuilding[s] THEN Len(disk[s]) ELSE 0
    BY <1>3 DEF Idle, Got
  <1>5. disk[s] \in Seq(Value) /\ Len(disk[s]) \in Nat
    BY NodeTypes
  <1>6. CASE rebuilding[s]
    <2>1. Len(Append(disk[s], v)) = Len(disk[s]) + 1
          /\ Append(disk[s], v)[Len(disk[s]) + 1] = v
          /\ \A x \in 1 .. Len(disk[s]) : Append(disk[s], v)[x] = disk[s][x]
      BY <1>5, AppendProperties
    <2>2. QED
      BY <1>1, <1>2, <1>3, <1>4, <1>5, <1>6, <2>1 DEF Got
  <1>7. CASE ~ rebuilding[s]
    BY <1>1, <1>2, <1>3, <1>4, <1>7 DEF Got
  <1>8. QED
    BY <1>6, <1>7

\* A PPD that was told of the end of its volume takes its sectors, maps it and
\* serves.
LEMMA SettlingStays ==
  ASSUME IInv, NEW s \in Storage, Settling(s), NodeWorks(s), deaths' = 0
  PROVE  Whole(s)' \/ Settling(s)'
  <1> USE DEF IInv, TypeOK
  <1>1. PICK e \in Nat : SettlesAt(s, e)
    BY DEF Settling
  <1>2. /\ e \in DOMAIN toPpd[s] /\ toPpd[s][e].op = "syncEnd"
        /\ \A i \in DOMAIN toPpd[s] : /\ i < e => toPpd[s][i].op = "syncPut"
                                      /\ i > e => toPpd[s][i].op \notin {"syncPut", "syncEnd"}
        /\ Got(s) + e = VolumeSectors + 1
    BY <1>1 DEF SettlesAt
  <1>3. /\ DOMAIN toPpd[s] = 1 .. Len(toPpd[s]) /\ Len(toPpd[s]) \in Nat /\ Got(s) \in Nat
        /\ VolumeSectors \in Nat /\ VolumeSectors >= 1 /\ Len(disk[s]) \in Nat
    BY NodeTypes
  <1>4. Idle(s) /\ toPpd[s][1].op = IF e = 1 THEN "syncEnd" ELSE "syncPut"
    BY <1>2, <1>3 DEF Settling
  <1>5. NodeUnmap(s) \/ NodeSyncPut(s) \/ NodeSyncEnd(s)
    BY <1>4, IdleTakes
  <1>6. CASE NodeUnmap(s)
    <2>1. Got(s)' = Got(s) /\ Idle(s)' /\ toPpd' = toPpd
      BY <1>4, <1>6 DEF NodeUnmap, Got, Idle
    <2>2. SettlesAt(s, e)'
      BY <1>1, <2>1 DEF SettlesAt
    <2>3. QED
      BY <2>1, <2>2 DEF Settling
  <1>7. CASE NodeSyncPut(s)
    <2>1. Idle(s)' /\ Got(s)' = Got(s) + 1 /\ toPpd[s][1].op = "syncPut"
      BY <1>4, <1>7, SyncPutOutcome
    <2>2. /\ DOMAIN toPpd'[s] = 1 .. Len(toPpd[s]) - 1
          /\ \A i \in DOMAIN toPpd'[s] : toPpd'[s][i] = toPpd[s][i + 1]
      BY <1>7, TakesOutcome DEF NodeSyncPut
    <2>3. e # 1 /\ e - 1 \in Nat /\ e - 1 \in DOMAIN toPpd'[s] /\ (e - 1) + 1 = e
      BY <1>2, <1>3, <2>1, <2>2
    <2>4. \A i \in DOMAIN toPpd'[s] :
             /\ i < e - 1 => toPpd'[s][i].op = "syncPut"
             /\ i > e - 1 => toPpd'[s][i].op \notin {"syncPut", "syncEnd"}
      <3> SUFFICES ASSUME NEW i \in DOMAIN toPpd'[s]
                   PROVE  /\ i < e - 1 => toPpd'[s][i].op = "syncPut"
                          /\ i > e - 1 => toPpd'[s][i].op \notin {"syncPut", "syncEnd"}
        OBVIOUS
      <3>1. PICK j \in Nat : j = i + 1 /\ j \in DOMAIN toPpd[s] /\ toPpd'[s][i] = toPpd[s][j]
        BY <1>3, <2>2
      <3>2. (i < e - 1 => j < e) /\ (i > e - 1 => j > e)
        BY <2>2, <3>1
      <3>3. QED
        BY <1>2, <3>1, <3>2
    <2>5. Got(s)' + (e - 1) = VolumeSectors + 1
      BY <1>2, <1>3, <2>1
    <2>6. toPpd'[s][e - 1].op = "syncEnd"
      BY <1>2, <2>2, <2>3
    <2>7. PICK f \in Nat : f = e - 1
      BY <2>3
    <2>8. SettlesAt(s, f)'
      BY <2>3, <2>4, <2>5, <2>6, <2>7 DEF SettlesAt
    <2>9. QED
      BY <2>1, <2>8 DEF Settling
  <1>8. CASE NodeSyncEnd(s)
    <2>1. Takes(s, {"syncEnd"}) /\ toPpd[s][1].op = "syncEnd"
      BY <1>8, TakesOutcome DEF NodeSyncEnd
    <2>2. e = 1 /\ Got(s) = VolumeSectors /\ rebuilding[s] /\ Len(disk[s]) = VolumeSectors
      BY <1>2, <1>3, <1>4, <2>1 DEF Got, Idle
    <2>3. ~ Has(toPpd'[s], {"syncPut", "syncEnd"})
      <3>1. /\ DOMAIN toPpd'[s] = 1 .. Len(toPpd[s]) - 1
            /\ \A i \in DOMAIN toPpd'[s] : toPpd'[s][i] = toPpd[s][i + 1]
        BY <2>1, TakesOutcome
      <3>2. ASSUME NEW i \in DOMAIN toPpd'[s]
            PROVE  toPpd'[s][i].op \notin {"syncPut", "syncEnd"}
        <4>1. PICK j \in Nat : j = i + 1 /\ j \in DOMAIN toPpd[s] /\ toPpd'[s][i] = toPpd[s][j]
          BY <1>3, <3>1
        <4>2. j > e
          BY <2>2, <3>1, <4>1
        <4>3. QED
          BY <1>2, <4>1, <4>2
      <3>3. QED
        BY <3>2 DEF Has
    <2>4. ready'[s] /\ ~ rebuilding'[s] /\ disk' = disk /\ mapped'[s]
      BY <1>8, <2>2 DEF NodeSyncEnd, NodeTypeOK
    <2>5. QED
      BY <2>2, <2>3, <2>4 DEF Whole
  <1>9. QED
    BY <1>5, <1>6, <1>7, <1>8

\* A PPD that is being rebuilt takes the sectors in order.
LEMMA RebuildStays ==
  ASSUME IInv, NEW s \in Storage, Idle(s), OnlyPuts(toPpd[s]), NodeWorks(s), deaths' = 0
  PROVE  Idle(s)' /\ OnlyPuts(toPpd[s])' /\ Got(s)' + Len(toPpd'[s]) = Got(s) + Len(toPpd[s])
  <1> USE DEF IInv, TypeOK
  <1>1. /\ DOMAIN toPpd[s] = 1 .. Len(toPpd[s]) /\ Len(toPpd[s]) \in Nat /\ Got(s) \in Nat
        /\ toPpd[s] \in Seq(Message)
    BY NodeTypes
  <1>2. toPpd[s] # <<>> => 1 \in DOMAIN toPpd[s]
    BY <1>1, TailAt
  <1>3. toPpd[s] # <<>> => toPpd[s][1].op = "syncPut"
    BY <1>2 DEF OnlyPuts
  <1>4. NodeUnmap(s) \/ NodeSyncPut(s) \/ NodeSyncEnd(s)
    BY <1>3, IdleTakes
  <1>5. CASE NodeUnmap(s)
    BY <1>5 DEF NodeUnmap, Got, Idle, OnlyPuts
  <1>6. CASE NodeSyncPut(s)
    <2>1. Idle(s)' /\ Got(s)' = Got(s) + 1
      BY <1>6, SyncPutOutcome
    <2>2. /\ DOMAIN toPpd'[s] = 1 .. Len(toPpd[s]) - 1 /\ Len(toPpd'[s]) = Len(toPpd[s]) - 1
          /\ \A i \in DOMAIN toPpd'[s] : toPpd'[s][i] = toPpd[s][i + 1]
      BY <1>6, TakesOutcome DEF NodeSyncPut
    <2>3. OnlyPuts(toPpd[s])'
      <3>1. ASSUME NEW i \in DOMAIN toPpd'[s]
            PROVE  toPpd'[s][i].op = "syncPut"
        <4>1. i + 1 \in DOMAIN toPpd[s]
          BY <1>1, <2>2
        <4>2. QED
          BY <2>2, <4>1 DEF OnlyPuts
      <3>2. QED
        BY <3>1 DEF OnlyPuts
    <2>4. Got(s)' + Len(toPpd'[s]) = Got(s) + Len(toPpd[s])
      BY <1>1, <2>1, <2>2
    <2>5. QED
      BY <2>1, <2>3, <2>4
  <1>7. ~ NodeSyncEnd(s)
    BY <1>3, TakesOutcome DEF NodeSyncEnd
  <1>8. QED
    BY <1>4, <1>5, <1>6, <1>7

\* What a source has read of its volume is on its way, or was.
LEMMA SourceReads ==
  ASSUME IInv, NEW s \in Storage, Sources(s), OneStream(s), NodeWorks(s), deaths' = 0
  PROVE  Read(s)' - Sent(s)' = Read(s) - Sent(s)
  <1> USE DEF IInv, TypeOK
  <1>1. /\ fromPpd[s] \in Seq(Message) /\ Sent(s) \in Nat /\ Read(s) \in Int /\ stream[s] \in Nat
        /\ DOMAIN disk[s] = 1 .. Len(disk[s])
    BY NodeTypes, LenProperties
  <1>2. stream[s] # 0 => Len(disk[s]) = VolumeSectors
    BY DEF Sources, Settling, Idle, Whole
  <1>3. CASE NodeQueueJob(s) \/ NodeUnmap(s) \/ NodeSyncPut(s) \/ NodeSyncEnd(s) \/ NodeLosesJob(s)
    <2>1. UNCHANGED <<fromPpd, stream>>
      BY <1>3 DEF NodeQueueJob, NodeUnmap, NodeSyncPut, NodeSyncEnd, NodeLosesJob
    <2>2. QED
      BY <2>1, StreamUntouched
  <1>4. CASE NodeExecute(s)
    <2>1. Sent(s)' = Sent(s) /\ Read(s)' = Read(s)
      BY <1>4, ExecuteOutcome, StreamUntouched
    <2>2. QED
      BY <2>1
  <1>5. CASE NodeSyncGet(s)
    <2>1. Takes(s, {"syncGet"}) /\ stream' = [stream EXCEPT ![s] = 1] /\ fromPpd' = fromPpd
      BY <1>5, EndsCounted DEF NodeSyncGet
    <2>2. stream[s] = 0 /\ stream'[s] = 1 /\ Has(toPpd[s], {"syncGet"})
      <3>1. /\ stream[s] = 0 /\ DOMAIN toPpd[s] = 1 .. Len(toPpd[s]) /\ Len(toPpd[s]) \in Nat
            /\ Len(toPpd[s]) >= 1 /\ toPpd[s][1].op \in {"syncGet"}
        BY <2>1, TakesOutcome
      <3>2. 1 \in DOMAIN toPpd[s]
        BY <3>1
      <3>3. stream'[s] = 1
        BY <2>1 DEF NodeTypeOK
      <3>4. QED
        BY <3>1, <3>2, <3>3 DEF Has
    <2>3. ~ Has(fromPpd[s], {"syncEnd"})
      BY <2>2 DEF OneStream, Has
    <2>4. QED
      BY <2>1, <2>2, <2>3 DEF Read, Sent
  <1>6. CASE NodeStream(s)
    <2>1. stream[s] \in 1 .. Len(disk[s]) /\ stream'[s] = stream[s] + 1
      BY <1>1, <1>6 DEF NodeStream, NodeTypeOK
    <2>2. disk[s][stream[s]] \in Value
      BY <1>1, <1>6, NodeTypes, ElementOfSeq DEF NodeStream
    <2>3. PICK n \in Message : n = Sync("syncPut", disk[s][stream[s]]) /\ n.op = "syncPut"
      BY <2>2, SyncOp
    <2>4. fromPpd'[s] = Append(fromPpd[s], n)
      BY <1>6, <2>3 DEF NodeStream, NetworkTypeOK
    <2>5. Sent(s)' = Sent(s) + 1
      BY <1>1, <2>3, <2>4, PutsAppend DEF Sent, Part
    <2>6. Read(s) = stream[s] - 1 /\ Read(s)' = (stream[s] + 1) - 1
      BY <1>1, <2>1 DEF Read
    <2>7. QED
      BY <1>1, <2>5, <2>6
  <1>7. CASE NodeStreamEnd(s)
    <2>1. stream[s] = VolumeSectors + 1 /\ stream[s] # 0 /\ stream'[s] = 0
      BY <1>2, <1>7 DEF NodeStreamEnd, Streamed, NodeTypeOK
    <2>2. PICK n \in Message : n = Sync("syncEnd", 0) /\ n.op = "syncEnd"
      BY SyncOp, InitialValues
    <2>3. fromPpd'[s] = Append(fromPpd[s], n)
      BY <1>7, <2>2 DEF NodeStreamEnd, NetworkTypeOK
    <2>4. Sent(s)' = Sent(s)
      BY <1>1, <2>2, <2>3, PutsAppend DEF Sent, Part
    <2>5. Has(fromPpd'[s], {"syncEnd"})
      BY <1>1, <2>2, <2>3, HasAppend
    <2>6. Read(s) = VolumeSectors /\ Read(s)' = VolumeSectors
      BY <2>1, <2>5, PraidAssumption DEF Read
    <2>7. QED
      BY <2>4, <2>6
  <1>8. QED
    BY <1>3, <1>4, <1>5, <1>6, <1>7 DEF NodeWorks, Node

-----------------------------------------------------------------------------
(* Every step, while no PPD has ended.                                      *)

\* A PPD that can be a source stays one, whatever PPD makes a step.
LEMMA SourcesStay ==
  ASSUME IInv, NEW s \in Storage, NodeWorks(s), deaths' = 0, NEW t \in Storage, Sources(t)
  PROVE  Sources(t)'
  <1>1. UNCHANGED ppdStatus
    BY NodeOthers
  <1>2. CASE t = s
    BY <1>1, <1>2, WholeStays, SettlingStays DEF Sources
  <1>3. CASE t # s
    <2>1. Still(t) /\ toPpd'[t] = toPpd[t]
      BY <1>3, NodeOthers
    <2>2. QED
      BY <1>1, <2>1, StageUntouched DEF Sources
  <1>4. QED
    BY <1>2, <1>3

LEMMA NodeTypesNext ==
  ASSUME TypeOK', NEW s \in Storage
  PROVE  Got(s)' \in Nat /\ Len(toPpd'[s]) \in Nat /\ Sent(s)' \in Nat /\ Read(s)' \in Int
  <1>1. /\ disk'[s] \in Seq(Value) /\ Len(disk'[s]) \in Nat /\ Len(toPpd'[s]) \in Nat
        /\ fromPpd'[s] \in Seq(Message) /\ stream'[s] \in Nat
    BY LenProperties DEF TypeOK, NodeTypeOK, NetworkTypeOK
  <1>2. VolumeSectors \in Nat
    BY PraidAssumption
  <1>3. QED
    BY <1>1, <1>2, PutsNat DEF Got, Sent, Read

\* A sector that a source reads, or a destiny takes, was counted before.
LEMMA RebuildsStays ==
  ASSUME IInv, IInv', NEW n \in Storage, NodeWorks(n), deaths' = 0,
         NEW s \in Storage, NEW m \in Storage, m # s, Rebuilds(s, m), Sources(m), OneStream(m)
  PROVE  Rebuilds(s, m)'
  <1>1. /\ Idle(s) /\ OnlyPuts(toPpd[s]) /\ Got(s) + Len(toPpd[s]) + Sent(m) = Read(m)
        /\ Got(s) \in Nat /\ Len(toPpd[s]) \in Nat /\ Sent(m) \in Nat /\ Read(m) \in Int
    BY NodeTypes DEF Rebuilds, IInv
  <1>2. /\ Idle(s)' /\ OnlyPuts(toPpd[s])'
        /\ Got(s)' + Len(toPpd'[s]) = Got(s) + Len(toPpd[s])
    <2>1. CASE s = n
      BY <1>1, <2>1, RebuildStays
    <2>2. CASE s # n
      <3>1. Still(s) /\ toPpd'[s] = toPpd[s]
        BY <2>2, NodeOthers
      <3>2. QED
        BY <1>1, <3>1, StageUntouched
    <2>3. QED
      BY <2>1, <2>2
  <1>3. Read(m)' - Sent(m)' = Read(m) - Sent(m)
    <2>1. CASE m = n
      BY <2>1, SourceReads
    <2>2. CASE m # n
      <3>1. stream'[m] = stream[m] /\ fromPpd'[m] = fromPpd[m]
        BY <2>2, NodeOthers DEF Still
      <3>2. Sent(m)' = Sent(m) /\ Read(m)' = Read(m)
        BY <3>1, StreamUntouched DEF IInv
      <3>3. QED
        BY <3>2
    <2>3. QED
      BY <2>1, <2>2
  <1>4. /\ Got(s)' \in Nat /\ Len(toPpd'[s]) \in Nat /\ Sent(m)' \in Nat /\ Read(m)' \in Int
    BY NodeTypesNext DEF IInv
  <1>5. Got(s)' + Len(toPpd'[s]) + Sent(m)' = Read(m)'
    BY <1>1, <1>2, <1>3, <1>4, SMTT(60)
  <1>6. QED
    BY <1>2, <1>5 DEF Rebuilds
\* What a step of a PPD leaves as it was.
LEMMA NodeStages ==
  ASSUME IInv, IInv', FlagRaised, OneSource, Stages, NEW n \in Storage, NodeWorks(n), deaths' = 0,
         deaths = 0
  PROVE  Stages'
  <1>1. /\ UNCHANGED <<storages, acceptor, replicationActive, syncState, ppdStatus>>
        /\ ppdStatus[n] = "running"
        /\ \A t \in Storage \ {n} : Still(t) /\ toPpd'[t] = toPpd[t]
    BY NodeOthers
  <1>2. ListedRun'
    BY <1>1 DEF Stages, ListedRun, Member
  <1>3. ASSUME NEW s \in Storage
        PROVE  /\ ppdStatus'[s] = "offline" \/ Admitted(s)' => Fresh(s)'
               /\ ppdStatus'[s] = "running" => Sources(s)' \/ Replicating(s)' \/ Admitted(s)'
    <2>1. (Admitted(s)' <=> Admitted(s)) /\ (Replicating(s)' <=> Replicating(s))
      BY <1>1 DEF Admitted, Replicating
    <2>2. ASSUME ppdStatus[s] = "offline" \/ Admitted(s)
          PROVE  Fresh(s)'
      <3>1. Fresh(s)
        BY <2>2 DEF Stages, StagesFollow
      <3>2. s # n
        BY <3>1, FreshWaits
      <3>3. Still(s) /\ toPpd'[s] = toPpd[s]
        BY <1>1, <3>2
      <3>4. QED
        BY <3>1, <3>3, StageUntouched
    <2>3. ppdStatus[s] = "running" => Sources(s)' \/ Replicating(s) \/ Admitted(s)
      BY SourcesStay DEF Stages, StagesFollow
    <2>4. QED
      BY <1>1, <2>1, <2>2, <2>3
  <1>4. MasterServes'
    <2>1. ASSUME acceptor.pc # "accept"
          PROVE  /\ acceptor.master \in Storage /\ acceptor.master # acceptor.destiny
                 /\ \A m \in Storage : m = acceptor.master => Sources(m)'
      BY <2>1, SourcesStay DEF Stages, MasterServes
    <2>2. QED
      BY <1>1, <2>1 DEF MasterServes
  <1>5. PairRebuilds'
    <2>1. ASSUME NEW s \in Storage, NEW m \in Storage, Replicating(s), m = syncState.source
          PROVE  m # s /\ Sources(m)' /\ ppdStatus[s] = "running" /\ Rebuilds(s, m)'
      <3>1. m # s /\ Sources(m) /\ ppdStatus[s] = "running" /\ Rebuilds(s, m)
        BY <2>1 DEF Stages, PairRebuilds
      <3>2. OneStream(m)
        BY DEF OneSource
      <3>3. Rebuilds(s, m)'
        BY <3>1, <3>2, RebuildsStays
      <3>4. QED
        BY <3>1, <3>3, SourcesStay
    <2>2. replicationActive /\ acceptor.pc # "fire" =>
             syncState.source \in Storage /\ syncState.destiny \in Storage
      BY DEF Stages, PairRebuilds
    <2>3. \A s \in Storage : Replicating(s)' <=> Replicating(s)
      BY <1>1 DEF Replicating
    <2>4. QED
      BY <1>1, <2>1, <2>2, <2>3 DEF PairRebuilds
  <1>6. QED
    BY <1>2, <1>3, <1>4, <1>5 DEF Stages, StagesFollow

\* Steps of PRAID that touch no PPD but to send jobs to those that serve, and
\* take no sector of a volume.
Spoken(s) ==
    \/ toPpd'[s] = toPpd[s]
    \/ /\ ppdStatus[s] # "offline" /\ ~ Admitted(s) /\ ~ Replicating(s)
       /\ \E m \in Message : /\ m.op \notin {"syncPut", "syncEnd"}
                             /\ toPpd'[s] = Append(toPpd[s], m)
Listened(s) ==
    \/ fromPpd'[s] = fromPpd[s]
    \/ /\ fromPpd[s] # <<>> /\ fromPpd'[s] = Tail(fromPpd[s])
       /\ Head(fromPpd[s]).op \notin {"syncPut", "syncEnd"}

LEMMA SourcesSpoken ==
  ASSUME IInv, UNCHANGED ppdStatus, NEW s \in Storage, Still(s), Spoken(s), Sources(s)
  PROVE  Sources(s)'
  <1>1. CASE toPpd'[s] = toPpd[s]
    BY <1>1, StageUntouched DEF Sources
  <1>2. CASE toPpd'[s] # toPpd[s]
    <2>1. PICK m \in Message : m.op \notin {"syncPut", "syncEnd"} /\ toPpd'[s] = Append(toPpd[s], m)
      BY <1>2 DEF Spoken
    <2>2. QED
      BY <2>1, StageHears DEF Sources, IInv
  <1>3. QED
    BY <1>1, <1>2

LEMMA QuietStages ==
  ASSUME IInv, Stages, UNCHANGED <<storages, acceptor, syncVars, ppdStatus>>,
         \A s \in Storage : Still(s) /\ Spoken(s) /\ Listened(s)
  PROVE  Stages'
  <1>1. \A s \in Storage : (Admitted(s)' <=> Admitted(s)) /\ (Replicating(s)' <=> Replicating(s))
    BY DEF Admitted, Replicating
  <1>2. \A s \in Storage : Sources(s) => Sources(s)'
    BY SourcesSpoken
  <1>3. ListedRun'
    BY DEF Stages, ListedRun, Member
  <1>4. StagesFollow'
    <2>1. ASSUME NEW s \in Storage, ppdStatus[s] = "offline" \/ Admitted(s)
          PROVE  Fresh(s)'
      <3>1. Fresh(s) /\ Still(s) /\ toPpd'[s] = toPpd[s]
        BY <2>1 DEF Stages, StagesFollow, Spoken
      <3>2. QED
        BY <3>1, StageUntouched
    <2>2. QED
      BY <1>1, <1>2, <2>1 DEF Stages, StagesFollow
  <1>5. MasterServes'
    BY <1>2 DEF Stages, MasterServes
  <1>6. PairRebuilds'
    <2>1. ASSUME NEW s \in Storage, NEW m \in Storage, Replicating(s), m = syncState.source
          PROVE  m # s /\ Sources(m)' /\ ppdStatus[s] = "running" /\ Rebuilds(s, m)'
      <3>1. m # s /\ Sources(m) /\ ppdStatus[s] = "running" /\ Rebuilds(s, m)
        BY <2>1 DEF Stages, PairRebuilds
      <3>2. Still(s) /\ toPpd'[s] = toPpd[s]
        BY <2>1 DEF Spoken
      <3>3. Got(s)' = Got(s) /\ Idle(s)' /\ OnlyPuts(toPpd[s])'
        BY <3>1, <3>2, StageUntouched DEF Rebuilds
      <3>4. stream'[m] = stream[m]
        BY DEF Still
      <3>5. Sent(m)' = Sent(m) /\ Read(m)' = Read(m)
        BY <3>4, StreamUntouched DEF Listened, IInv
      <3>6. Rebuilds(s, m)'
        BY <3>1, <3>2, <3>3, <3>5 DEF Rebuilds
      <3>7. QED
        BY <1>2, <3>1, <3>6
    <2>2. QED
      BY <1>1, <2>1 DEF Stages, PairRebuilds
  <1>7. QED
    BY <1>3, <1>4, <1>5, <1>6 DEF Stages

LEMMA StillNodes == UNCHANGED nodeVars => \A s \in Storage : Still(s)
  BY DEF Still

\* The threads of PFS connections.
LEMMA WorkerStages ==
  ASSUME IInv, Stages, NEW c \in Socket, Worker(c), UNCHANGED nodeVars
  PROVE  Stages'
  <1>1. UNCHANGED <<storages, acceptor, syncVars, ppdStatus, toPpd, fromPpd>>
    BY DEF Worker, PfsReceive, IterateStorages, ExecutePut, SelectForGet, EnqueueGet
  <1>2. \A s \in Storage : Still(s) /\ Spoken(s) /\ Listened(s)
    BY <1>1, StillNodes DEF Spoken, Listened
  <1>3. QED
    BY <1>1, <1>2, QuietStages

\* A sender sends to a PPD that serves: the destiny of a replication is sent
\* nothing, and that of the acceptor has no sender yet.
LEMMA SenderStages ==
  ASSUME IInv, NobodyEnded, DestinyWaits, Stages, NEW t \in Storage, Sender(t), UNCHANGED nodeVars
  PROVE  Stages'
  <1> USE DEF IInv, TypeOK
  <1>1. UNCHANGED <<storages, acceptor, syncVars, ppdStatus, fromPpd>>
    BY DEF Sender, SenderCheck, SenderSend, SenderExit, SenderRecord, SenderCount
  <1>2. \A s \in Storage : Spoken(s)
    <2>1. CASE SenderSend(t)
      <3>1. PICK m \in Message : m = Head(pending[t]) /\ m.op \notin {"syncPut", "syncEnd"}
        <4>1. Head(pending[t]) \in Job
          BY <2>1, HeadAndTail DEF SenderSend, ThreadsHoldJobs, StorageTypeOK
        <4>2. QED
          BY <4>1 DEF Job, Message
      <3>2. SendPpd(t, m) /\ sender[t].pc = "cleared"
        BY <2>1, <3>1 DEF SenderSend
      <3>3. ppdStatus[t] = "running" /\ ~ Replicating(t) /\ ~ Admitted(t)
        BY <3>2 DEF NobodyEnded, DestinyWaits, Admitted, StaysDisconnected
      <3>4. QED
        BY <3>1, <3>2, <3>3, SendPpdReaches DEF Spoken
    <2>2. CASE toPpd' = toPpd
      BY <2>2 DEF Spoken
    <2>3. QED
      BY <2>1, <2>2 DEF Sender, SenderCheck, SenderExit, SenderRecord, SenderCount
  <1>3. QED
    BY <1>1, <1>2, StillNodes, QuietStages DEF Listened

\* A listener that takes an answer, or hands it over.
LEMMA AnswerStages ==
  ASSUME IInv, Stages, NEW t \in Storage, UNCHANGED nodeVars,
         ListenerResponse(t) \/ ListenerReply(t) \/ ListenerForget(t)
  PROVE  Stages'
  <1> USE DEF IInv, TypeOK
  <1>1. UNCHANGED <<storages, acceptor, syncVars, ppdStatus, toPpd>>
    BY DEF ListenerResponse, ListenerReply, ListenerForget
  <1>2. \A s \in Storage : Listened(s)
    <2>1. CASE ListenerResponse(t)
      <3>1. Receives(t, "get")
        BY <2>1 DEF ListenerResponse
      <3>2. QED
        BY <3>1, ReceivesTail DEF Listened
    <2>2. CASE ~ ListenerResponse(t)
      BY <2>2 DEF ListenerReply, ListenerForget, Listened
    <2>3. QED
      BY <2>1, <2>2
  <1>3. QED
    BY <1>1, <1>2, StillNodes, QuietStages DEF Spoken

\* Whose volume arrives, and for whom.
LEMMA PairOf ==
  ASSUME IInv, FlagRaised, OneSource, Stages, NEW t \in Storage, NEW op \in {"syncPut", "syncEnd"},
         Receives(t, op)
  PROVE  /\ replicationActive /\ acceptor.pc = "accept" /\ syncState.source = t
         /\ \E d \in Storage : /\ d = syncState.destiny /\ Replicating(d) /\ d # t
                               /\ Sources(t) /\ ppdStatus[d] = "running" /\ Rebuilds(d, t)
  <1>1. Has(fromPpd[t], {"syncPut", "syncEnd"})
    BY ReceivesTail, HasTail DEF IInv, TypeOK
  <1>2. replicationActive /\ acceptor.pc = "accept" /\ syncState.source = t
    BY <1>1, StreamingHas DEF FlagRaised, OneSource
  <1>3. PICK d \in Storage : d = syncState.destiny
    BY <1>2 DEF Stages, PairRebuilds
  <1>4. Replicating(d)
    BY <1>2, <1>3 DEF Replicating
  <1>5. QED
    BY <1>2, <1>3, <1>4 DEF Stages, PairRebuilds

\* A sector goes on to the PPD that is being rebuilt.
LEMMA SyncPutStages ==
  ASSUME IInv, FlagRaised, OneSource, Stages, NEW t \in Storage, ListenerSyncPut(t),
         UNCHANGED nodeVars
  PROVE  Stages'
  <1> USE DEF IInv, TypeOK
  <1>1. Receives(t, "syncPut") /\ UNCHANGED <<storages, acceptor, syncVars, ppdStatus>>
    BY DEF ListenerSyncPut
  <1>2. PICK d \in Storage : /\ d = syncState.destiny /\ Replicating(d) /\ d # t
                             /\ Sources(t) /\ ppdStatus[d] = "running" /\ Rebuilds(d, t)
                             /\ acceptor.pc = "accept" /\ syncState.source = t
    BY <1>1, PairOf
  <1>3. /\ fromPpd[t] \in Seq(Message) /\ fromPpd[t] # <<>> /\ fromPpd'[t] = Tail(fromPpd[t])
        /\ Head(fromPpd[t]) \in Message /\ Head(fromPpd[t]).op = "syncPut"
    BY <1>1, ReceivesTail
  <1>4. PICK m \in Message : m = Head(fromPpd[t]) /\ m.op = "syncPut"
    BY <1>3
  <1>5. SendPpd(d, m)
    BY <1>2, <1>4 DEF ListenerSyncPut
  <1>6. toPpd'[d] = Append(toPpd[d], m) /\ \A s \in Storage \ {d} : toPpd'[s] = toPpd[s]
    BY <1>2, <1>5 DEF SendPpd, NetworkTypeOK
  <1>7. \A s \in Storage : Still(s)
    BY StillNodes
  <1>8. \A s \in Storage \ {d} : (Sources(s) => Sources(s)') /\ (Fresh(s) => Fresh(s)')
    BY <1>1, <1>6, <1>7, StageUntouched DEF Sources
  <1>9. \A s \in Storage : (Replicating(s)' <=> s = d) /\ (Replicating(s) <=> s = d)
                           /\ ~ Admitted(s) /\ ~ Admitted(s)'
    BY <1>1, <1>2 DEF Replicating, Admitted
  <1>10. Rebuilds(d, t)'
    <2>1. /\ Idle(d) /\ OnlyPuts(toPpd[d]) /\ Got(d) + Len(toPpd[d]) + Sent(t) = Read(t)
          /\ Got(d) \in Nat /\ Sent(t) \in Nat /\ Read(t) \in Int /\ stream'[t] = stream[t]
      BY <1>2, NodeTypes DEF Rebuilds
    <2>2. Idle(d)' /\ Got(d)' = Got(d)
      BY <1>7, <2>1 DEF Still, Idle, Got
    <2>3. toPpd[d] \in Seq(Message) /\ Len(toPpd[d]) \in Nat /\ Len(Append(toPpd[d], m)) = Len(toPpd[d]) + 1
      BY AppendProperties, NodeTypes
    <2>4. OnlyPuts(toPpd[d])'
      BY <1>4, <1>6, <2>1, <2>3, AppendAt DEF OnlyPuts
    <2>5. Read(t)' = Read(t)
      <3>1. Has(fromPpd'[t], {"syncEnd"}) <=> Has(fromPpd[t], {"syncEnd"})
        BY <1>3, HasTail
      <3>2. QED
        BY <2>1, <3>1 DEF Read
    <2>6. Sent(t)' = Sent(t) - 1
      <3>1. Tail(fromPpd[t]) \in Seq(Message)
        BY <1>3, HeadAndTail
      <3>2. SyncPuts(fromPpd[t]) = SyncPuts(Tail(fromPpd[t])) + 1
        BY <1>3, PutsTail DEF Part
      <3>3. SyncPuts(Tail(fromPpd[t])) \in Nat
        BY <3>1, PutsNat
      <3>4. QED
        BY <1>3, <3>2, <3>3 DEF Sent
    <2>7. Got(d)' + Len(toPpd'[d]) + Sent(t)' = Read(t)'
      <3>1. Len(toPpd'[d]) = Len(toPpd[d]) + 1
        BY <1>6, <2>3
      <3>2. QED
        BY <2>1, <2>2, <2>3, <2>5, <2>6, <3>1, SMTT(60)
    <2>8. QED
      BY <2>2, <2>4, <2>7 DEF Rebuilds
  <1>11. ListedRun'
    BY <1>1 DEF Stages, ListedRun, Member
  <1>12. StagesFollow'
    BY <1>1, <1>2, <1>8, <1>9 DEF Stages, StagesFollow
  <1>13. MasterServes'
    BY <1>1, <1>2 DEF MasterServes
  <1>14. PairRebuilds'
    BY <1>1, <1>2, <1>8, <1>9, <1>10 DEF PairRebuilds
  <1>15. QED
    BY <1>11, <1>12, <1>13, <1>14 DEF Stages

\* The PPD that is being rebuilt is told that this was its volume.
LEMMA SyncEndStages ==
  ASSUME IInv, FlagRaised, OneSource, Stages, NEW t \in Storage, ListenerSyncEnd(t),
         UNCHANGED nodeVars
  PROVE  Stages'
  <1> USE DEF IInv, TypeOK
  <1>1. Receives(t, "syncEnd") /\ UNCHANGED <<storages, acceptor, syncState, ppdStatus>>
        /\ ~ replicationActive'
    BY DEF ListenerSyncEnd
  <1>2. PICK d \in Storage : /\ d = syncState.destiny /\ Replicating(d) /\ d # t
                             /\ Sources(t) /\ ppdStatus[d] = "running" /\ Rebuilds(d, t)
                             /\ acceptor.pc = "accept" /\ syncState.source = t
    BY <1>1, PairOf
  <1>3. /\ fromPpd[t] \in Seq(Message) /\ fromPpd[t] # <<>> /\ fromPpd'[t] = Tail(fromPpd[t])
        /\ Head(fromPpd[t]) \in Message /\ Head(fromPpd[t]).op = "syncEnd"
    BY <1>1, ReceivesTail
  <1>4. PICK m \in Message : m = Sync("syncEnd", 0) /\ m.op = "syncEnd"
    BY SyncOp, InitialValues
  <1>5. SendPpd(d, m)
    BY <1>2, <1>4 DEF ListenerSyncEnd
  <1>6. toPpd'[d] = Append(toPpd[d], m) /\ \A s \in Storage \ {d} : toPpd'[s] = toPpd[s]
    BY <1>2, <1>5 DEF SendPpd, NetworkTypeOK
  <1>7. \A s \in Storage : Still(s)
    BY StillNodes
  <1>8. \A s \in Storage \ {d} : (Sources(s) => Sources(s)') /\ (Fresh(s) => Fresh(s)')
    BY <1>1, <1>6, <1>7, StageUntouched DEF Sources
  <1>9. \A s \in Storage : ~ Replicating(s)' /\ (Replicating(s) <=> s = d)
                           /\ ~ Admitted(s) /\ ~ Admitted(s)'
    BY <1>1, <1>2 DEF Replicating, Admitted
  <1>10. Sources(d)'
    <2>1. /\ Idle(d) /\ OnlyPuts(toPpd[d]) /\ Got(d) + Len(toPpd[d]) + Sent(t) = Read(t)
          /\ Got(d) \in Nat /\ Sent(t) \in Nat /\ Read(t) \in Int
      BY <1>2, NodeTypes DEF Rebuilds
    <2>2. Idle(d)' /\ Got(d)' = Got(d)
      BY <1>7, <2>1 DEF Still, Idle, Got
    <2>3. PICK e \in Nat : e = Len(toPpd[d]) + 1 /\ toPpd[d] \in Seq(Message)
      <3>1. Len(toPpd[d]) \in Nat /\ toPpd[d] \in Seq(Message)
        BY NodeTypes
      <3>2. Len(toPpd[d]) + 1 \in Nat
        BY <3>1
      <3>3. QED
        BY <3>1, <3>2
    <2>4. Sent(t) = 0 /\ Read(t) = VolumeSectors
      <3>1. OneStream(t) /\ Has(fromPpd[t], {"syncEnd"})
        BY <1>3, HasTail DEF OneSource
      <3>2. stream[t] = 0 /\ NothingAfterEnd(fromPpd[t])
        BY <3>1 DEF OneStream
      <3>3. ~ Has(Tail(fromPpd[t]), {"syncPut"})
        BY <1>3, <3>2, NothingAfterEndTail DEF Has
      <3>4. ~ Has(fromPpd[t], {"syncPut"})
        BY <1>3, <3>3, HasTail
      <3>5. QED
        BY <1>3, <3>1, <3>2, <3>4, PutsNone DEF Sent, Read
    <2>5. Got(d)' + e = VolumeSectors + 1
      BY <2>1, <2>2, <2>3, <2>4, NodeTypes
    <2>6. /\ e \in DOMAIN toPpd'[d] /\ toPpd'[d][e].op = "syncEnd"
          /\ \A i \in DOMAIN toPpd'[d] : i <= e /\ (i < e => toPpd'[d][i].op = "syncPut")
      <3>1. /\ DOMAIN toPpd'[d] = DOMAIN toPpd[d] \cup {e}
            /\ \A i \in DOMAIN toPpd[d] : i # e /\ i \in Nat /\ i <= Len(toPpd[d])
            /\ \A i \in DOMAIN toPpd[d] : toPpd'[d][i] = toPpd[d][i]
            /\ toPpd'[d][e] = m
        BY <1>6, <2>3, AppendAt
      <3>2. \A i \in DOMAIN toPpd[d] : toPpd[d][i].op = "syncPut"
        BY <2>1 DEF OnlyPuts
      <3>3. Len(toPpd[d]) \in Nat
        BY NodeTypes
      <3>4. QED
        BY <1>4, <2>3, <3>1, <3>2, <3>3
    <2>7. \A i \in DOMAIN toPpd'[d] : i \in Nat
      BY <1>6, <2>3, AppendAt
    <2>8. SettlesAt(d, e)'
      BY <2>5, <2>6, <2>7 DEF SettlesAt
    <2>9. QED
      BY <1>1, <1>2, <2>2, <2>8 DEF Sources, Settling
  <1>11. ListedRun'
    BY <1>1 DEF Stages, ListedRun, Member
  <1>12. StagesFollow'
    BY <1>1, <1>2, <1>8, <1>9, <1>10 DEF Stages, StagesFollow
  <1>13. MasterServes'
    BY <1>1, <1>2 DEF MasterServes
  <1>14. PairRebuilds'
    BY <1>1, <1>9 DEF PairRebuilds
  <1>15. QED
    BY <1>11, <1>12, <1>13, <1>14 DEF Stages
\* A PPD that dials comes in, with a master that has a volume to give.
LEMMA AcceptStages ==
  ASSUME IInv, FlagRaised, Stages, NEW t \in Storage, DenyPpd(t) \/ AcceptPpd(t),
         UNCHANGED nodeVars
  PROVE  Stages'
  <1> USE DEF IInv, TypeOK
  <1>1. /\ UNCHANGED <<storages, syncVars, networkVars>> /\ ppdStatus[t] = "offline"
        /\ acceptor.pc = "accept" /\ ppdStatus'[t] # "offline"
        /\ \A s \in Storage \ {t} : ppdStatus'[s] = ppdStatus[s]
    BY DEF DenyPpd, AcceptPpd, NodeTypeOK
  <1>2. \A s \in Storage : /\ (Whole(s)' <=> Whole(s)) /\ (Settling(s)' <=> Settling(s))
                           /\ (Fresh(s)' <=> Fresh(s))
    BY <1>1, StillNodes, StageUntouched
  <1>3. \A s \in Storage : Sources(s) => s # t /\ Sources(s)'
    BY <1>1, <1>2 DEF Sources
  <1>4. \A s \in Storage : (Replicating(s)' => Replicating(s)) /\ ~ Admitted(s)
    BY <1>1 DEF Replicating, Admitted
  <1>5. \A s \in Storage : Member(s) => s # t
    BY <1>1 DEF Stages, ListedRun
  <1>6. Fresh(t)
    BY <1>1 DEF Stages, StagesFollow
  <1>7. CASE DenyPpd(t)
    <2>1. acceptor' = acceptor /\ ppdStatus'[t] = "dead" /\ replicationActive
      BY <1>7 DEF DenyPpd, NodeTypeOK
    <2>2. \A s \in Storage : (Replicating(s)' <=> Replicating(s)) /\ ~ Admitted(s)'
      BY <1>1, <2>1 DEF Replicating, Admitted
    <2>3. ListedRun'
      BY <1>1, <1>5, <2>1 DEF Stages, ListedRun, Member
    <2>4. StagesFollow'
      BY <1>1, <1>2, <1>3, <1>4, <2>1, <2>2 DEF Stages, StagesFollow
    <2>5. MasterServes'
      BY <1>1, <2>1 DEF MasterServes
    <2>6. PairRebuilds'
      <3>1. \A s, m \in Storage : Rebuilds(s, m) => Rebuilds(s, m)'
        <4>1. \A s \in Storage : /\ Sent(s)' = Sent(s) /\ Read(s)' = Read(s)
                                 /\ Got(s)' = Got(s) /\ (Idle(s)' <=> Idle(s))
          BY <1>1 DEF Sent, Read, Got, Idle
        <4>2. QED
          BY <1>1, <4>1 DEF Rebuilds, OnlyPuts
      <3>2. \A s \in Storage : ppdStatus[s] = "running" => ppdStatus'[s] = "running"
        BY <1>1
      <3>3. QED
        BY <1>1, <1>3, <2>1, <2>2, <3>1, <3>2 DEF Stages, PairRebuilds
    <2>7. QED
      BY <2>3, <2>4, <2>5, <2>6 DEF Stages
  <1>8. CASE AcceptPpd(t)
    <2>1. PICK m \in Storage \cup {Nil} : Selects(m) /\ acceptor' = AcceptorAt("add", t, m)
      BY <1>8 DEF AcceptPpd
    <2>2. ~ replicationActive /\ ~ replicationActive' /\ ppdStatus'[t] = "running"
      BY <1>8 DEF AcceptPpd, NodeTypeOK
    <2>3. m \in Storage /\ Member(m)
      <3>1. PICK i \in DOMAIN storages : m = storages[i]
        BY <2>1 DEF Selects, Stages, ListedRun
      <3>2. storages \in Seq(Storage)
        BY DEF StorageTypeOK
      <3>3. m \in Storage
        BY <3>1, <3>2, ElementOfSeq
      <3>4. QED
        BY <3>1, <3>3 DEF Member, ToSet
    <2>4. Sources(m) /\ m # t
      BY <1>4, <1>5, <2>2, <2>3 DEF Stages, StagesFollow, ListedRun, Replicating
    <2>5. /\ acceptor'.pc = "add" /\ acceptor'.destiny = t /\ acceptor'.master = m
          /\ \A s \in Storage : ~ Replicating(s) /\ ~ Replicating(s)' /\ (Admitted(s)' <=> s = t)
      BY <2>1, <2>2 DEF AcceptorAt, Replicating, Admitted
    <2>6. ListedRun'
      BY <1>1, <1>5, <2>5 DEF Stages, ListedRun, Member
    <2>7. StagesFollow'
      BY <1>1, <1>2, <1>3, <1>4, <1>6, <2>5 DEF Stages, StagesFollow
    <2>8. MasterServes'
      BY <1>3, <2>3, <2>4, <2>5 DEF MasterServes
    <2>9. PairRebuilds'
      BY <2>2, <2>5 DEF PairRebuilds
    <2>10. QED
      BY <2>6, <2>7, <2>8, <2>9 DEF Stages
  <1>9. QED
    BY <1>7, <1>8

\* It joins the list, is found not to be alone, and waits.
LEMMA JoinStages ==
  ASSUME IInv, NobodyEnded, FlagRaised, Stages, ReplicationEnabled, UNCHANGED nodeVars,
         NEW Quiet, AddPpd \/ ValidateReplication \/ StartReplication(Quiet)
  PROVE  Stages'
  <1> USE DEF IInv, TypeOK
  <1>1. /\ UNCHANGED <<toPpd, fromPpd, ppdStatus, syncState>>
        /\ acceptor.pc \in {"add", "validate", "sleep"}
        /\ acceptor'.pc \in {"validate", "sleep", "fire"}
        /\ acceptor'.destiny = acceptor.destiny /\ acceptor'.master = acceptor.master
        /\ acceptor'.pc = "fire" \/ ~ replicationActive'
    <2>1. CASE AddPpd
      BY <2>1 DEF AddPpd, AcceptorAt, FlagRaised
    <2>2. CASE ValidateReplication
      BY <2>2 DEF ValidateReplication, AcceptorAt, FlagRaised, Stages, ListedRun
    <2>3. CASE StartReplication(Quiet)
      BY <2>3 DEF StartReplication, AcceptorAt, FlagRaised
    <2>4. QED
      BY <2>1, <2>2, <2>3
  <1>2. \A s \in Storage : /\ (Whole(s)' <=> Whole(s)) /\ (Settling(s)' <=> Settling(s))
                           /\ (Fresh(s)' <=> Fresh(s))
    BY <1>1, StillNodes, StageUntouched
  <1>3. \A s \in Storage : /\ Sources(s)' <=> Sources(s)
                           /\ Admitted(s)' <=> Admitted(s)
                           /\ ~ Replicating(s) /\ ~ Replicating(s)'
    BY <1>1, <1>2 DEF Sources, Admitted, Replicating, FlagRaised
  <1>4. ListedRun'
    <2>1. storages \in Seq(Storage) /\ Len(storages) \in Nat /\ storages # <<>>
          /\ Len(storages) # 0
      BY LenProperties, EmptySeq DEF StorageTypeOK, Stages, ListedRun
    <2>2. CASE AddPpd
      <3>1. PICK d \in Storage : d = acceptor.destiny
        BY <1>1 DEF StaysDisconnected
      <3>2. storages' = Append(storages, d) /\ ppdStatus[d] = "running"
        BY <1>1, <2>2, <3>1 DEF AddPpd, AddStorage, NobodyEnded
      <3>3. Len(storages') = Len(storages) + 1 /\ storages' # <<>>
        BY <2>1, <3>1, <3>2, AppendProperties
      <3>4. \A s \in Storage : Member(s)' => Member(s) \/ s = d
        BY <2>1, <3>1, <3>2, AppendAt DEF Member, ToSet
      <3>5. Len(storages') >= 2
        BY <2>1, <3>3
      <3>6. QED
        BY <1>1, <3>2, <3>3, <3>4, <3>5 DEF Stages, ListedRun
    <2>3. CASE ~ AddPpd
      <3>1. storages' = storages /\ acceptor'.pc # "validate"
        BY <1>1, <2>3 DEF ValidateReplication, StartReplication, AcceptorAt, Stages, ListedRun
      <3>2. QED
        BY <1>1, <3>1 DEF Stages, ListedRun, Member
    <2>4. QED
      BY <2>2, <2>3
  <1>5. StagesFollow'
    BY <1>1, <1>2, <1>3 DEF Stages, StagesFollow
  <1>6. MasterServes'
    BY <1>1, <1>3 DEF Stages, MasterServes
  <1>7. PairRebuilds'
    BY <1>1, <1>3 DEF PairRebuilds
  <1>8. QED
    BY <1>4, <1>5, <1>6, <1>7 DEF Stages

\* The volume is asked for.
LEMMA FireStages ==
  ASSUME IInv, NobodyEnded, FlagRaised, Stages, FireSynchronization, UNCHANGED nodeVars
  PROVE  Stages'
  <1> USE DEF IInv, TypeOK
  <1>1. /\ acceptor.pc = "fire" /\ acceptor'.pc = "accept"
        /\ syncState' = [source |-> acceptor.master, destiny |-> acceptor.destiny]
        /\ UNCHANGED <<storages, replicationActive, fromPpd, ppdStatus>>
        /\ replicationActive /\ \A s \in Storage : ~ Streaming(s)
    BY DEF FireSynchronization, AcceptAgain, AcceptorAt, FlagRaised
  <1>2. PICK d, m \in Storage : /\ d = acceptor.destiny /\ m = acceptor.master
                               /\ m # d /\ Sources(m) /\ Admitted(d) /\ Fresh(d)
    BY <1>1 DEF Stages, MasterServes, StagesFollow, Admitted, StaysDisconnected
  <1>3. PICK n \in Message : n = Sync("syncGet", 0) /\ n.op = "syncGet"
    BY SyncOp, InitialValues
  <1>4. toPpd'[m] = Append(toPpd[m], n) /\ \A s \in Storage \ {m} : toPpd'[s] = toPpd[s]
    BY <1>2, <1>3 DEF FireSynchronization, SendPpd, Sources, NetworkTypeOK
  <1>5. \A s \in Storage : Still(s)
    BY StillNodes
  <1>6. \A s \in Storage : Sources(s) => Sources(s)'
    <2>1. Sources(m)'
      BY <1>1, <1>2, <1>3, <1>4, <1>5, StageHears DEF Sources
    <2>2. QED
      BY <1>1, <1>4, <1>5, <2>1, StageUntouched DEF Sources
  <1>7. \A s \in Storage : /\ ~ Replicating(s) /\ (Replicating(s)' <=> s = d)
                           /\ (Admitted(s) <=> s = d) /\ ~ Admitted(s)'
    BY <1>1, <1>2 DEF Replicating, Admitted
  <1>8. \A s \in Storage : s # m /\ Fresh(s) => Fresh(s)'
    BY <1>4, <1>5, StageUntouched
  <1>9. ~ Fresh(m) /\ ppdStatus[d] = "running"
    <2>1. ppdStatus[d] = "running"
      BY <1>1, <1>2 DEF NobodyEnded
    <2>2. Whole(m) => ~ Fresh(m)
      BY DEF Whole, Fresh, Idle
    <2>3. Settling(m) => ~ Fresh(m)
      <3>1. DOMAIN toPpd[m] = 1 .. Len(toPpd[m])
        BY NodeTypes
      <3>2. toPpd[m] = <<>> => \A e : e \notin DOMAIN toPpd[m]
        BY <3>1
      <3>3. QED
        BY <3>2 DEF Settling, SettlesAt, Fresh
    <2>4. QED
      BY <1>2, <2>1, <2>2, <2>3 DEF Sources
  <1>10. Rebuilds(d, m)'
    <2>1. /\ Idle(d)' /\ toPpd'[d] = <<>> /\ Got(d)' = 0
      BY <1>2, <1>4, <1>5 DEF Fresh, Still, Idle, Got
    <2>2. stream'[m] = 0 /\ fromPpd'[m] = fromPpd[m] /\ ~ Has(fromPpd[m], {"syncPut", "syncEnd"})
      BY <1>1, <1>5, StreamingHas DEF Still
    <2>3. ~ Has(fromPpd[m], {"syncPut"}) /\ ~ Has(fromPpd[m], {"syncEnd"})
      BY <2>2 DEF Has
    <2>4. fromPpd[m] \in Seq(Message)
      BY NodeTypes
    <2>5. Sent(m)' = 0 /\ Read(m)' = 0
      BY <2>2, <2>3, <2>4, PutsNone DEF Sent, Read
    <2>6. Len(toPpd'[d]) = 0
      BY <2>1
    <2>7. QED
      BY <2>1, <2>5, <2>6 DEF Rebuilds, OnlyPuts
  <1>11. ListedRun'
    BY <1>1 DEF Stages, ListedRun, Member
  <1>12. StagesFollow'
    BY <1>1, <1>6, <1>7, <1>8, <1>9 DEF Stages, StagesFollow
  <1>13. MasterServes'
    BY <1>1 DEF MasterServes
  <1>14. PairRebuilds'
    BY <1>1, <1>2, <1>6, <1>7, <1>9, <1>10 DEF PairRebuilds
  <1>15. QED
    BY <1>11, <1>12, <1>13, <1>14 DEF Stages
\* Every step of PRAID.
LEMMA PraidStages ==
  ASSUME IInv, NobodyEnded, FlagRaised, OneSource, DestinyWaits, Stages, ReplicationEnabled,
         PraidStep
  PROVE  Stages'
  <1>1. UNCHANGED nodeVars
    BY DEF PraidStep
  <1>2. CASE Acceptor(Drained)
    <2>1. CASE \E c \in Socket : AcceptPfs(c)
      <3>1. UNCHANGED <<storages, acceptor, syncVars, ppdStatus, toPpd, fromPpd>>
        BY <2>1 DEF AcceptPfs
      <3>2. \A s \in Storage : Still(s) /\ Spoken(s) /\ Listened(s)
        BY <1>1, <3>1, StillNodes DEF Spoken, Listened
      <3>3. QED
        BY <3>1, <3>2, QuietStages
    <2>2. CASE \E t \in Storage : DenyPpd(t) \/ AcceptPpd(t)
      BY <1>1, <2>2, AcceptStages
    <2>3. CASE AddPpd \/ ValidateReplication \/ StartReplication(Drained)
      BY <1>1, <2>3, JoinStages
    <2>4. CASE FireSynchronization
      BY <1>1, <2>4, FireStages
    <2>5. QED
      BY <1>2, <2>1, <2>2, <2>3, <2>4 DEF Acceptor
  <1>3. CASE \E c \in Socket : Worker(c)
    BY <1>1, <1>3, WorkerStages
  <1>4. CASE \E t \in Storage : Sender(t)
    BY <1>1, <1>4, SenderStages
  <1>5. CASE \E t \in Storage : Listener(t)
    BY <1>1, <1>5, ListenerStays, AnswerStages, SyncPutStages, SyncEndStages
  <1>6. QED
    BY <1>2, <1>3, <1>4, <1>5 DEF PraidStep

LEMMA StageStep ==
  ASSUME IInv, StreamInv, DestinyWaits, StageInv, [Next]_vars
  PROVE  StageInv'
  <1> SUFFICES ASSUME ReplicationEnabled, InitialStorages # <<>>, deaths' = 0
               PROVE  Stages'
    BY DEF StageInv
  <1>1. deaths = 0 /\ ~ \E s \in Storage : NodeDies(s)
    BY EndsStay DEF IInv, TypeOK
  <1>2. NobodyEnded /\ FlagRaised /\ OneSource /\ Stages
    BY <1>1 DEF StreamInv, StageInv
  <1>3. CASE PraidStep
    BY <1>2, <1>3, PraidStages
  <1>4. CASE NodeStep
    <2>1. IInv'
      BY NextInvariant
    <2>2. PICK s \in Storage : NodeWorks(s)
      BY <1>1, <1>4 DEF NodeStep, NodeWorks
    <2>3. QED
      BY <1>1, <1>2, <2>1, <2>2, NodeStages
  <1>5. CASE ClientStep \/ UNCHANGED vars
    <2>1. UNCHANGED <<storages, acceptor, syncVars, ppdStatus, toPpd, fromPpd, nodeVars>>
      BY <1>5 DEF ClientStep, ClientGet, ClientPut, ClientReceive, vars
    <2>2. \A s \in Storage : Still(s) /\ Spoken(s) /\ Listened(s)
      BY <2>1, StillNodes DEF Spoken, Listened
    <2>3. QED
      BY <1>2, <2>1, <2>2, QuietStages
  <1>6. QED
    BY <1>3, <1>4, <1>5 DEF Next

LEMMA StageInit == Init => StageInv
  <1> SUFFICES ASSUME Init, ReplicationEnabled, InitialStorages # <<>>
               PROVE  Stages
    BY DEF StageInv
  <1> USE DEF Init, InitPraid, InitNode
  <1>1. \A s \in Storage : /\ ~ Admitted(s) /\ ~ Replicating(s)
                           /\ (ppdStatus[s] = "running" <=> s \in ToSet(InitialStorages))
                           /\ ppdStatus[s] # "running" => ppdStatus[s] = "offline"
                           /\ toPpd[s] = <<>> /\ jobs[s] = <<>> /\ stream[s] = 0 /\ ~ rebuilding[s]
                           /\ (ready[s] <=> s \in ToSet(InitialStorages))
    BY DEF AcceptorAt, Admitted, Replicating
  <1>2. ASSUME NEW s \in Storage, s \in ToSet(InitialStorages)
        PROVE  Sources(s)
    <2>1. disk[s] = Volume(0) /\ mapped[s]
      <3>1. Len(Volume(0)) = VolumeSectors /\ VolumeSectors >= 1 /\ VolumeSectors \in Nat
        BY PraidAssumption DEF Volume, Sector
      <3>2. disk[s] = Volume(0)
        BY <1>2
      <3>3. disk[s] # <<>>
        BY <3>1, <3>2
      <3>4. QED
        BY <3>2, <3>3
    <2>2. Len(disk[s]) = VolumeSectors
      BY <2>1, PraidAssumption DEF Volume, Sector
    <2>3. QED
      BY <1>1, <1>2, <2>1, <2>2, HasNothing DEF Sources, Whole
  <1>3. ListedRun
    BY <1>1 DEF ListedRun, Member, AcceptorAt
  <1>4. StagesFollow
    BY <1>1, <1>2 DEF StagesFollow, Fresh, Idle
  <1>5. MasterServes /\ PairRebuilds
    BY <1>1 DEF MasterServes, PairRebuilds, AcceptorAt
  <1>6. QED
    BY <1>3, <1>4, <1>5 DEF Stages

\* PRAID ends no PPD that runs.
LEMMA RunningStays ==
  ASSUME IInv, PraidStep, NEW t \in Storage, ppdStatus[t] = "running"
  PROVE  ppdStatus'[t] = "running"
  <1> USE DEF IInv, TypeOK
  <1>1. CASE \E s \in Storage : DenyPpd(s) \/ AcceptPpd(s)
    BY <1>1 DEF DenyPpd, AcceptPpd, NodeTypeOK
  <1>2. CASE ~ \E s \in Storage : DenyPpd(s) \/ AcceptPpd(s)
    <2>1. UNCHANGED ppdStatus
      BY <1>2 DEF PraidStep, Acceptor, AddPpd, ValidateReplication, StartReplication,
         FireSynchronization, AcceptPfs, Worker, PfsReceive, IterateStorages, ExecutePut, SelectForGet, EnqueueGet,
         Sender, SenderCheck, SenderSend, SenderExit, SenderRecord, SenderCount, Listener,
         ListenerResponse, ListenerReply, ListenerForget, ListenerSyncPut, ListenerSyncEnd,
         ListenerDisconnected, ProcessDisconnection, CollectRead, RemoveDisconnected,
         ChooseCandidate, AssignJob
    <2>2. QED
      BY <2>1
  <1>3. QED
    BY <1>1, <1>2

\* While no PPD has ended, with the replication enabled and some PPD there from
\* the start, every PPD that runs holds a whole volume, or will once it has
\* taken what is on its way, or is being given one sector by sector, none lost
\* and none doubled, or waits for that.
THEOREM RaidStages == Spec => []StageInv
  <1>1. Init => DestinyWaits
    BY DEF Init, InitPraid, DestinyWaits, Replicating
  <1>2. IInv /\ DestinyWaits /\ [Next]_vars => DestinyWaits'
    BY DestinyWaitsStep
  <1>3. IInv /\ StreamInv /\ DestinyWaits /\ StageInv /\ [Next]_vars => StageInv'
    BY StageStep
  <1>4. QED
    BY <1>1, <1>2, <1>3, StageInit, RaidInvariant, RaidStreams, PTL DEF Spec

\* A PPD that has a volume and executes a job, or is asked for the volume.
LEMMA FaultStep ==
  ASSUME IInv, StageInv, [Next]_vars, ReplicationEnabled, InitialStorages # <<>>,
         deaths = 0, MaxDeaths = 0, NEW s \in Storage, Ending(s)
  PROVE  Unmapped(s)
  <1> USE DEF IInv, TypeOK
  <1>1. Stages /\ ppdStatus[s] = "running" /\ ppdStatus'[s] = "dead"
    BY DEF StageInv, Ending
  <1>2. ~ PraidStep /\ ~ ClientStep /\ ~ UNCHANGED vars
    <2>1. PraidStep => \A t \in Storage : ppdStatus[t] = "running" => ppdStatus'[t] = "running"
      BY RunningStays
    <2>2. QED
      BY <1>1, <2>1 DEF ClientStep, ClientGet, ClientPut, ClientReceive, vars
  <1>3. PICK n \in Storage : NodeWorks(n)
    BY <1>2 DEF Next, NodeStep, NodeWorks, NodeDies
  <1>4. n = s /\ (NodeSyncGet(s) \/ NodeExecute(s))
    BY <1>1, <1>3 DEF NodeWorks, Node, NodeQueueJob, NodeSyncGet, NodeStream, NodeUnmap, NodeStreamEnd,
       NodeSyncPut, NodeSyncEnd, NodeExecute, NodeLosesJob, Executes, Ends, NodeTypeOK
  <1>5. ~ Fresh(s) /\ ~ Admitted(s)
    BY <1>1, <1>3, <1>4, FreshWaits DEF Stages, StagesFollow
  <1>6. ~ NodeSyncGet(s)
    <2> SUFFICES ASSUME NodeSyncGet(s)
                 PROVE  FALSE
      OBVIOUS
    <2>1. disk[s] = <<>> /\ toPpd[s] # <<>> /\ Head(toPpd[s]).op = "syncGet"
      BY <1>1 DEF NodeSyncGet, NodeTypeOK
    <2>2. /\ DOMAIN toPpd[s] = 1 .. Len(toPpd[s]) /\ Len(toPpd[s]) \in Nat /\ Len(toPpd[s]) >= 1
          /\ toPpd[s][1].op = "syncGet"
      <3>1. toPpd[s] \in Seq(Message)
        BY NodeTypes
      <3>2. QED
        BY <2>1, <3>1, TailAt
    <2>3. 1 \in DOMAIN toPpd[s]
      BY <2>2
    <2>4. ~ Whole(s)
      <3>1. VolumeSectors >= 1 /\ VolumeSectors \in Nat
        BY NodeTypes
      <3>2. QED
        BY <2>1, <3>1 DEF Whole
    <2>5. ~ Settling(s)
      <3>1. ASSUME NEW e \in Nat, SettlesAt(s, e)
            PROVE  FALSE
        <4>1. e \in 1 .. Len(toPpd[s]) /\ (1 < e \/ e = 1)
          BY <2>2, <3>1 DEF SettlesAt
        <4>2. QED
          BY <2>2, <2>3, <3>1, <4>1 DEF SettlesAt
      <3>2. QED
        BY <3>1 DEF Settling
    <2>6. ~ Replicating(s)
      <3>1. \A m \in Storage : ~ Rebuilds(s, m)
        BY <2>2, <2>3 DEF Rebuilds, OnlyPuts
      <3>2. QED
        BY <1>1, <3>1 DEF Stages, PairRebuilds, Replicating
    <2>7. QED
      BY <1>1, <1>5, <2>4, <2>5, <2>6 DEF Stages, StagesFollow, Sources
  <1>7. CASE NodeExecute(s)
    <2>1. PICK i \in DOMAIN jobs[s] : Executes(s, i)
      BY <1>7 DEF NodeExecute
    <2>2. jobs[s] \in Seq(Job) /\ jobs[s][i] \in Job
      BY NodeTypes, ElementOfSeq
    <2>3. jobs[s] # <<>>
      <3>1. DOMAIN jobs[s] = 1 .. Len(jobs[s])
        BY <2>2, LenProperties
      <3>2. QED
        BY <3>1
    <2>4. Whole(s)
      <3>1. ~ Idle(s)
        BY <2>3 DEF Idle
      <3>2. QED
        BY <1>1, <1>5, <3>1 DEF Stages, StagesFollow, Sources, Settling, PairRebuilds, Rebuilds,
           Replicating
    <2>5. jobs[s][i].sector \in DOMAIN disk[s]
      <3>1. disk[s] \in Seq(Value) /\ DOMAIN disk[s] = 1 .. VolumeSectors
        BY <2>4, NodeTypes, LenProperties DEF Whole
      <3>2. QED
        BY <2>2, <3>1 DEF Job, Sector
    <2>6. ~ mapped[s]
      BY <1>1, <2>1, <2>5 DEF Executes
    <2>7. QED
      BY <2>4, <2>6 DEF Whole, Unmapped
  <1>8. QED
    BY <1>4, <1>6, <1>7

\* The only PPD that ends of itself is a source that is given a job while it
\* maps its volume again: the others have a volume whenever they are asked for
\* it or given a job.
THEOREM RaidOnlySourcesFault == Spec => OnlySourcesFault
  <1>1. IInv /\ StageInv /\ [Next]_vars =>
           [ReplicationEnabled /\ InitialStorages # <<>> /\ deaths = 0 /\ MaxDeaths = 0
              => \A s \in Storage : Ending(s) => Unmapped(s)]_vars
    BY FaultStep
  <1>2. QED
    BY <1>1, RaidInvariant, RaidStages, PTL DEF Spec, OnlySourcesFault

-----------------------------------------------------------------------------
(* The reads of a connection in a queue.                                    *)

One(m, c) == IF IsRead(m, c) THEN 1 ELSE 0

\* Every read of the connection in the queue is for sector x.
AllFor(queue, c, x) == \A i \in Reads(queue, c) : queue[i].sector = x

LEMMA CountType ==
  ASSUME NEW T, NEW q \in Seq(T), NEW c
  PROVE  IsFiniteSet(Reads(q, c)) /\ Count(q, c) \in Nat
  <1>1. Reads(q, c) \in SUBSET (1 .. Len(q)) /\ Len(q) \in Nat
    BY LenProperties DEF Reads
  <1>2. IsFiniteSet(Reads(q, c))
    <2>1. Len(q) \in Int
      BY <1>1
    <2>2. QED
      BY <1>1, <2>1, IntervalSubset, Zenon
  <1>3. QED
    BY <1>2, FS_CardinalityType DEF Count

LEMMA CountEmpty == \A c : Count(<<>>, c) = 0 /\ Reads(<<>>, c) = {}
  BY FS_EmptySet DEF Count, Reads

LEMMA CountAppend ==
  ASSUME NEW T, NEW q \in Seq(T), NEW m \in T, NEW c
  PROVE  /\ Count(Append(q, m), c) = Count(q, c) + One(m, c)
         /\ \A x : AllFor(Append(q, m), c, x) <=>
                      AllFor(q, c, x) /\ (IsRead(m, c) => m.sector = x)
  <1>1. Reads(Append(q, m), c) =
           IF IsRead(m, c) THEN Reads(q, c) \cup {Len(q) + 1} ELSE Reads(q, c)
    BY AppendAt DEF Reads
  <1>2. Len(q) + 1 \notin Reads(q, c)
    BY AppendAt DEF Reads
  <1>3. IsFiniteSet(Reads(q, c)) /\ Count(q, c) \in Nat
    BY CountType
  <1>4. Count(Append(q, m), c) = Count(q, c) + One(m, c)
    <2>1. Cardinality(Reads(q, c) \cup {Len(q) + 1}) = Cardinality(Reads(q, c)) + 1
      BY <1>2, <1>3, FS_AddElement
    <2>2. QED
      BY <1>1, <1>3, <2>1 DEF Count, One
  <1>5. \A i \in Reads(q, c) : Append(q, m)[i] = q[i]
    BY AppendAt DEF Reads
  <1>6. Append(q, m)[Len(q) + 1] = m
    BY AppendAt
  <1>7. QED
    BY <1>1, <1>4, <1>5, <1>6 DEF AllFor

LEMMA CountWithout ==
  ASSUME NEW T, NEW q \in Seq(T), NEW r \in Seq(T), NEW i, Without(q, r, i), NEW c
  PROVE  /\ Count(q, c) = Count(r, c) + One(q[i], c)
         /\ \A x : AllFor(q, c, x) <=>
                      AllFor(r, c, x) /\ (IsRead(q[i], c) => q[i].sector = x)
  <1>1. /\ Len(q) \in Nat /\ i \in 1 .. Len(q) /\ DOMAIN q = 1 .. Len(q)
        /\ Len(r) = Len(q) - 1 /\ DOMAIN r = 1 .. Len(q) - 1
    BY LenProperties DEF Without
  <1>2. \A j \in 1 .. Len(q) - 1 :
           j \in Reads(r, c) <=> (IF j < i THEN j ELSE j + 1) \in Reads(q, c)
    BY <1>1 DEF Without, Reads
  <1>3. Reads(q, c) \in SUBSET (1 .. Len(q)) /\ Reads(r, c) \in SUBSET (1 .. Len(q) - 1)
    BY <1>1 DEF Reads
  <1>4. i \in Reads(q, c) <=> IsRead(q[i], c)
    BY <1>1 DEF Reads
  <1>5. Count(q, c) = Count(r, c) + One(q[i], c)
    <2> DEFINE n == Len(q)
               S == Reads(q, c)
               R == Reads(r, c)
    <2>1. /\ n \in Nat /\ i \in 1 .. n /\ S \in SUBSET (1 .. n) /\ R \in SUBSET (1 .. n - 1)
          /\ \A j \in 1 .. n - 1 : j \in R <=> (IF j < i THEN j ELSE j + 1) \in S
      BY <1>1, <1>2, <1>3
    <2>2. Cardinality(S) = Cardinality(R) + (IF i \in S THEN 1 ELSE 0)
      <3> HIDE DEF n, S, R
      <3>1. QED
        BY <2>1, PositionsWithout
    <2>3. QED
      BY <1>4, <2>2 DEF Count, One
  <1>6. \A j \in Reads(r, c) : r[j] = q[IF j < i THEN j ELSE j + 1]
    BY <1>1 DEF Without, Reads
  <1>7. \A x : AllFor(q, c, x) => AllFor(r, c, x)
    BY <1>1, <1>2, <1>3, <1>6 DEF AllFor
  <1>8. ASSUME NEW j \in Reads(q, c), j # i
        PROVE  \E k \in Reads(r, c) : r[k] = q[j]
    <2> DEFINE k == IF j < i THEN j ELSE j - 1
    <2>1. j \in 1 .. Len(q) /\ k \in 1 .. Len(q) - 1 /\ (IF k < i THEN k ELSE k + 1) = j
      BY <1>1, <1>3, <1>8
    <2>2. k \in Reads(r, c)
      BY <1>2, <2>1
    <2>3. r[k] = q[j]
      BY <1>6, <2>1, <2>2
    <2>4. QED
      BY <2>2, <2>3
  <1>9. QED
    BY <1>4, <1>5, <1>7, <1>8 DEF AllFor

LEMMA CountTail ==
  ASSUME NEW T, NEW q \in Seq(T), q # <<>>, NEW c
  PROVE  /\ Count(q, c) = Count(Tail(q), c) + One(Head(q), c)
         /\ \A x : AllFor(q, c, x) =>
                      AllFor(Tail(q), c, x) /\ (IsRead(Head(q), c) => Head(q).sector = x)
         /\ Tail(q) \in Seq(T) /\ Head(q) \in T
         /\ Count(q, c) \in Nat /\ Count(Tail(q), c) \in Nat
  <1>1. Without(q, Tail(q), 1) /\ Tail(q) \in Seq(T) /\ Head(q) = q[1] /\ Head(q) \in T
    BY TailWithout
  <1>2. Count(q, c) \in Nat /\ Count(Tail(q), c) \in Nat
    BY <1>1, CountType
  <1>3. /\ Count(q, c) = Count(Tail(q), c) + One(q[1], c)
        /\ \A x : AllFor(q, c, x) =>
                     AllFor(Tail(q), c, x) /\ (IsRead(q[1], c) => q[1].sector = x)
    BY <1>1, CountWithout
  <1>4. QED
    BY <1>1, <1>2, <1>3

-----------------------------------------------------------------------------
(* What the threads hold.                                                   *)

\* A request names the connection it came on, and the thread of that connection
\* holds one of them; a storage was chosen for a read, or the process is gone.
WorkerHolds(c) ==
    /\ \A i \in DOMAIN requests[c] : requests[c][i].socket = c
    /\ worker[c].pc \in {"walk", "put", "select", "enqueue"} => worker[c].job.socket = c
    /\ worker[c].pc \in {"walk", "put"} => worker[c].job.op = "put"
    /\ worker[c].pc \in {"select", "enqueue"} => worker[c].job.op = "get"
    /\ up /\ worker[c].pc = "enqueue" => worker[c].cursor \in Storage

\* A listener passes an answer on and forgets the job it answers; it hands reads
\* over to storages.
ListenerHolds(s) ==
    /\ listener[s].pc \in {"reply", "forget"} =>
          listener[s].message \in Job /\ listener[s].message.op = "get"
    /\ listener[s].pc = "assign" => listener[s].target \in Storage

JobsInHand == (\A c \in Socket : WorkerHolds(c)) /\ (\A s \in Storage : ListenerHolds(s))

LEMMA RequestsAppend ==
  ASSUME NetworkTypeOK, NEW c \in Socket, WorkerHolds(c), NEW job \in Job, job.socket = c,
         requests' = [requests EXCEPT ![c] = Append(@, job)], UNCHANGED <<up, worker>>
  PROVE  WorkerHolds(c)' /\ \A d \in Socket \ {c} : requests'[d] = requests[d]
  <1>1. requests[c] \in Seq(Job) /\ requests'[c] = Append(requests[c], job)
    BY DEF NetworkTypeOK
  <1>2. \A i \in DOMAIN requests'[c] : requests'[c][i].socket = c
    BY <1>1, AppendAt DEF WorkerHolds
  <1>3. QED
    BY <1>2 DEF WorkerHolds, NetworkTypeOK

LEMMA PfsReceiveHolds ==
  ASSUME IInv, JobsInHand, NEW c \in Socket, PfsReceive(c)
  PROVE  \A d \in Socket : WorkerHolds(d)'
  <1> USE DEF IInv, TypeOK
  <1>1. requests[c] \in Seq(Job) /\ requests[c] # <<>>
    BY DEF PfsReceive, NetworkTypeOK
  <1>2. Head(requests[c]) \in Job /\ Head(requests[c]).socket = c
    BY <1>1, TailAt, HeadAndTail DEF JobsInHand, WorkerHolds
  <1>3. \A d \in Socket \ {c} : requests'[d] = requests[d] /\ worker'[d] = worker[d]
    BY DEF PfsReceive, NetworkTypeOK, ThreadTypeOK, WorkerMoves
  <1>4. \A i \in DOMAIN requests'[c] : requests'[c][i].socket = c
    <2>1. requests'[c] = Tail(requests[c])
      BY DEF PfsReceive, NetworkTypeOK
    <2>2. QED
      BY <1>1, <2>1, TailAt DEF JobsInHand, WorkerHolds
  <1>5. worker'[c].pc \in {"walk", "put", "select", "enqueue"} =>
            worker'[c].job = Head(requests[c]) /\ worker'[c].pc # "enqueue"
            /\ (worker'[c].pc \in {"walk", "put"} => Head(requests[c]).op = "put")
            /\ (worker'[c].pc = "select" => Head(requests[c]).op = "get")
    BY DEF PfsReceive, ThreadTypeOK, WorkerMoves, WorkerAt
  <1>6. WorkerHolds(c)'
    BY <1>2, <1>4, <1>5 DEF WorkerHolds
  <1>7. \A d \in Socket \ {c} : WorkerHolds(d)'
    BY <1>3 DEF JobsInHand, WorkerHolds, PfsReceive
  <1>8. QED
    BY <1>6, <1>7

\* A PFS thread that has queued a write goes on with the same write, or receives.
LEMMA PutMoves ==
  ASSUME ThreadTypeOK, NEW c \in Socket, ExecutePut(c)
  PROVE  /\ worker[c].pc = "put"
         /\ \/ worker'[c].pc = "receive"
            \/ /\ worker'[c].pc = "walk" /\ worker'[c].job = worker[c].job
               /\ worker'[c].cursor = worker[c].next /\ worker[c].next # Nil
         /\ worker'[c].pc = "receive" => worker[c].next = Nil
         /\ \A d \in Socket \ {c} : worker'[d] = worker[d]
  <1>1. worker[c].pc = "put"
    BY DEF ExecutePut
  <1>2. CASE worker[c].next = Nil
    <2>1. WorkerLoops(c)
      BY <1>2 DEF ExecutePut
    <2>2. QED
      BY <1>1, <1>2, <2>1 DEF WorkerLoops, WorkerMoves, WorkerAt, ThreadTypeOK
  <1>3. CASE worker[c].next # Nil
    <2>1. WorkerMoves(c, WorkerAt("walk", worker[c].job, worker[c].next))
      BY <1>3 DEF ExecutePut
    <2>2. QED
      BY <1>1, <1>3, <2>1 DEF WorkerMoves, WorkerAt, ThreadTypeOK
  <1>4. QED
    BY <1>2, <1>3

LEMMA WorkerStepHolds ==
  ASSUME IInv, JobsInHand, up, NEW c \in Socket, Worker(c)
  PROVE  JobsInHand'
  <1> USE DEF IInv, TypeOK
  <1>1. \A s \in Storage : ListenerHolds(s)'
    BY DEF JobsInHand, ListenerHolds, Worker, PfsReceive, IterateStorages, ExecutePut, SelectForGet, EnqueueGet
  <1>2. CASE PfsReceive(c)
    BY <1>1, <1>2, PfsReceiveHolds DEF JobsInHand
  <1>3. CASE IterateStorages(c) \/ ExecutePut(c) \/ SelectForGet(c) \/ EnqueueGet(c)
    <2>1. /\ requests' = requests
          /\ \A d \in Socket \ {c} : worker'[d] = worker[d]
      BY <1>3 DEF IterateStorages, ExecutePut, SelectForGet, EnqueueGet, WorkerLoops, WorkerMoves,
         ThreadTypeOK
    <2>2. \A d \in Socket \ {c} : WorkerHolds(d)'
      BY <2>1 DEF JobsInHand, WorkerHolds
    <2>3. CASE IterateStorages(c) \/ ExecutePut(c) \/ EnqueueGet(c)
      <3>1. \/ worker'[c].pc = "receive"
            \/ /\ worker'[c].pc \in {"walk", "put"} /\ worker'[c].job = worker[c].job
               /\ worker[c].pc \in {"walk", "put"}
        <4>1. CASE EnqueueGet(c)
          BY <4>1 DEF EnqueueGet, WorkerLoops, WorkerMoves, WorkerAt, ThreadTypeOK
        <4>2. CASE ExecutePut(c)
          BY <4>2, PutMoves
        <4>3. CASE IterateStorages(c)
          BY <4>3 DEF IterateStorages, WorkerMoves, WorkerPuts, ThreadTypeOK
        <4>4. QED
          BY <2>3, <4>1, <4>2, <4>3
      <3>2. WorkerHolds(c)'
        BY <2>1, <3>1 DEF JobsInHand, WorkerHolds
      <3>3. QED
        BY <1>1, <2>2, <3>2 DEF JobsInHand
    <2>4. CASE SelectForGet(c)
      <3>1. /\ worker[c].pc = "select" /\ worker'[c].pc = "enqueue"
            /\ worker'[c].job = worker[c].job
            /\ up' => worker'[c].cursor \in Storage
        <4>1. PICK t \in Storage \cup {Nil} :
                 /\ up' = (t # Nil)
                 /\ WorkerMoves(c, WorkerAt("enqueue", worker[c].job, t))
          BY <2>4 DEF SelectForGet
        <4>2. worker'[c] = WorkerAt("enqueue", worker[c].job, t)
          BY <4>1 DEF WorkerMoves, ThreadTypeOK
        <4>3. up' => t \in Storage
          BY <4>1
        <4>4. QED
          BY <2>4, <4>2, <4>3 DEF SelectForGet, WorkerAt
      <3>2. WorkerHolds(c)'
        BY <2>1, <3>1 DEF JobsInHand, WorkerHolds
      <3>3. QED
        BY <1>1, <2>2, <3>2 DEF JobsInHand
    <2>5. QED
      BY <1>3, <2>3, <2>4
  <1>4. QED
    BY <1>2, <1>3 DEF Worker

LEMMA ListenerStepHolds ==
  ASSUME IInv, JobsInHand, NEW s \in Storage, Listener(s)
  PROVE  JobsInHand'
  <1> USE DEF IInv, TypeOK
  <1>1. UNCHANGED <<up, worker, requests>> /\ \A t \in Storage \ {s} : listener'[t] = listener[t]
    BY DEF Listener, ListenerResponse, ListenerReply, ListenerForget, ListenerSyncPut,
       ListenerSyncEnd, ListenerDisconnected, ProcessDisconnection, CollectRead,
       RemoveDisconnected, ChooseCandidate, AssignJob, ListenerMoves, ListenerLoops,
       ListenerEnds, ThreadTypeOK
  <1>2. ListenerHolds(s)'
    <2>1. CASE ListenerResponse(s)
      <3>1. Head(fromPpd[s]) \in Message /\ Head(fromPpd[s]).op = "get"
        BY <2>1, ReceivesTail DEF ListenerResponse
      <3>2. Head(fromPpd[s]) \in Job
        BY <3>1 DEF Message, SyncMessage
      <3>3. listener'[s].pc = "reply" /\ listener'[s].message = Head(fromPpd[s])
        BY <2>1 DEF ListenerResponse, ListenerMoves, ListenerAt, ThreadTypeOK
      <3>4. QED
        BY <3>1, <3>2, <3>3 DEF ListenerHolds
    <2>2. CASE ListenerReply(s)
      <3>1. listener'[s].pc = "forget" /\ listener'[s].message = listener[s].message
        BY <2>2 DEF ListenerReply, ListenerMoves, ListenerAt, ThreadTypeOK
      <3>2. QED
        BY <2>2, <3>1 DEF ListenerHolds, ListenerReply, JobsInHand
    <2>3. CASE ListenerSyncPut(s) \/ ListenerSyncEnd(s)
      BY <2>3 DEF ListenerSyncPut, ListenerSyncEnd, JobsInHand, ListenerHolds
    <2>4. CASE ListenerForget(s) \/ ListenerDisconnected(s) \/ ProcessDisconnection(s)
                 \/ CollectRead(s) \/ RemoveDisconnected(s) \/ AssignJob(s)
      <3>1. listener'[s].pc \notin {"reply", "forget", "assign"}
        BY <2>4 DEF ListenerForget, ListenerDisconnected, ProcessDisconnection, CollectRead,
           RemoveDisconnected, AssignJob, ListenerLoops, ListenerEnds, ListenerMoves,
           ListenerAt, HandoverAt, ThreadTypeOK, AfterQueue
      <3>2. QED
        BY <3>1 DEF ListenerHolds
    <2>5. CASE ChooseCandidate(s)
      <3>1. /\ listener'[s].pc \in {"done", "assign"}
            /\ listener'[s].pc = "assign" => listener'[s].target \in Storage
        BY <2>5 DEF ChooseCandidate, ListenerEnds, ListenerMoves, ListenerAt, HandoverAt,
           ThreadTypeOK
      <3>2. QED
        BY <3>1 DEF ListenerHolds
    <2>6. QED
      BY <2>1, <2>2, <2>3, <2>4, <2>5 DEF Listener
  <1>3. QED
    BY <1>1, <1>2 DEF JobsInHand, WorkerHolds, ListenerHolds

\* The acceptor starts threads, which hold nothing yet.
LEMMA AcceptorStepHolds ==
  ASSUME IInv, JobsInHand, NEW Quiet, Acceptor(Quiet)
  PROVE  JobsInHand'
  <1> USE DEF IInv, TypeOK
  <1>1. UNCHANGED <<up, requests>>
    BY DEF Acceptor, DenyPpd, AcceptPpd, AddPpd, ValidateReplication, StartReplication,
       FireSynchronization, AcceptPfs
  <1>2. \A s \in Storage : listener'[s] = listener[s] \/ listener'[s].pc = "receive"
    BY DEF Acceptor, DenyPpd, AcceptPpd, AddPpd, ValidateReplication, StartReplication,
       FireSynchronization, AcceptPfs, LaunchSlaveThreads, ListenerMoves, ListenerAt, ThreadTypeOK
  <1>3. \A c \in Socket : worker'[c] = worker[c] \/ worker'[c].pc = "receive"
    BY DEF Acceptor, DenyPpd, AcceptPpd, AddPpd, ValidateReplication, StartReplication,
       FireSynchronization, AcceptPfs, WorkerLoops, WorkerMoves, WorkerAt, ThreadTypeOK
  <1>4. QED
    BY <1>1, <1>2, <1>3 DEF JobsInHand, WorkerHolds, ListenerHolds

LEMMA HoldsStep ==
  ASSUME IInv, JobsInHand, [Next]_vars
  PROVE  JobsInHand'
  <1> USE DEF IInv, TypeOK
  <1>1. ASSUME UNCHANGED <<up, worker, requests, listener>>
        PROVE  JobsInHand'
    BY <1>1 DEF JobsInHand, WorkerHolds, ListenerHolds
  <1>2. CASE UNCHANGED vars
    BY <1>1, <1>2 DEF vars
  <1>3. CASE up /\ PraidStep
    <2>1. ASSUME NEW s \in Storage, Sender(s)
          PROVE  JobsInHand'
      BY <1>1, <2>1 DEF Sender, SenderCheck, SenderSend, SenderExit, SenderRecord, SenderCount
    <2>2. QED
      BY <1>3, <2>1, AcceptorStepHolds, WorkerStepHolds, ListenerStepHolds DEF PraidStep
  <1>4. CASE NodeStep
    BY <1>1, <1>4 DEF NodeStep, Node, NodeQueueJob, NodeSyncGet, NodeStream, NodeUnmap,
       NodeStreamEnd, NodeSyncPut, NodeSyncEnd, NodeExecute, NodeLosesJob, NodeDies
  <1>5. CASE ClientStep
    <2>1. ASSUME NEW c \in Socket, NEW x \in Sector, ClientGet(c, x) \/ ClientPut(c, x)
          PROVE  JobsInHand'
      <3>1. UNCHANGED <<up, worker, listener>>
        BY <2>1 DEF ClientGet, ClientPut
      <3>2. PICK job \in Job : job.socket = c
                     /\ requests' = [requests EXCEPT ![c] = Append(@, job)]
        <4>1. [op |-> "get", socket |-> c, sector |-> x, value |-> 0] \in Job
          BY InitialValues DEF Job
        <4>2. ClientPut(c, x) =>
                [op |-> "put", socket |-> c, sector |-> x, value |-> puts + 1] \in Job
          BY PraidAssumption DEF Job, Value, Stale, ClientTypeOK, ClientPut
        <4>3. QED
          BY <2>1, <4>1, <4>2 DEF ClientGet, ClientPut
      <3>3. QED
        BY <3>1, <3>2, RequestsAppend DEF JobsInHand, WorkerHolds, ListenerHolds
    <2>2. ASSUME NEW c \in Socket, ClientReceive(c)
          PROVE  JobsInHand'
      BY <1>1, <2>2 DEF ClientReceive
    <2>3. QED
      BY <1>5, <2>1, <2>2 DEF ClientStep
  <1>6. QED
    BY <1>2, <1>3, <1>4, <1>5 DEF Next

LEMMA HoldsInit == Init => JobsInHand
  BY DEF Init, InitPraid, JobsInHand, WorkerHolds, ListenerHolds, WorkerAt, ListenerAt

-----------------------------------------------------------------------------
(* One answer per read.                                                     *)

Reading(c) == worker[c].pc \in {"select", "enqueue"}

\* Every copy of a read is for the sector its connection waits for.
MatchesOff(c) ==
    /\ AllFor(requests[c], c, waiting[c])
    /\ \A i \in DOMAIN replies[c] : replies[c][i].sector = waiting[c]
    /\ Reading(c) => worker[c].job.sector = waiting[c]
MatchesOn(s, c) ==
    /\ AllFor(pending[s], c, waiting[c]) /\ AllFor(toPpd[s], c, waiting[c])
    /\ AllFor(jobs[s], c, waiting[c]) /\ AllFor(fromPpd[s], c, waiting[c])
    /\ Replying(s, c) => listener[s].message.sector = waiting[c]

Answered(c) == OneAnswer(c) /\ MatchesOff(c) /\ \A s \in Storage : MatchesOn(s, c)

ReadInv == deaths = 0 => \A c \in Socket : Answered(c)

\* A queue whose reads of c stay as they are; the queues, and the listener, of
\* one storage; and what is on no storage.
Passes(old, new, c) ==
    /\ Count(new, c) = Count(old, c)
    /\ \A x : AllFor(old, c, x) => AllFor(new, c, x)
QuietOn(s, c) ==
    /\ Passes(pending[s], pending'[s], c) /\ Passes(toPpd[s], toPpd'[s], c)
    /\ Passes(jobs[s], jobs'[s], c) /\ Passes(fromPpd[s], fromPpd'[s], c)
    /\ Replying(s, c)' <=> Replying(s, c)
    /\ Replying(s, c) => listener'[s].message = listener[s].message
QuietOff(c) ==
    /\ Passes(requests[c], requests'[c], c)
    /\ replies'[c] = replies[c] /\ waiting'[c] = waiting[c]
    /\ Reading(c)' <=> Reading(c)
    /\ Reading(c) => worker'[c].job = worker[c].job

LEMMA PassesSame == \A q, c : Passes(q, q, c)
  BY DEF Passes

LEMMA PassesAppend ==
  ASSUME NEW T, NEW q \in Seq(T), NEW m \in T, NEW c, ~ IsRead(m, c)
  PROVE  Passes(q, Append(q, m), c)
  <1>1. Count(q, c) \in Nat
    BY CountType
  <1>2. QED
    BY <1>1, CountAppend DEF Passes, One

LEMMA PassesTail ==
  ASSUME NEW T, NEW q \in Seq(T), q # <<>>, NEW c, ~ IsRead(Head(q), c)
  PROVE  Passes(q, Tail(q), c)
  <1>1. Without(q, Tail(q), 1) /\ Tail(q) \in Seq(T) /\ Head(q) = q[1]
    BY TailWithout
  <1>2. Count(q, c) = Count(Tail(q), c) + One(q[1], c)
        /\ \A x : AllFor(q, c, x) => AllFor(Tail(q), c, x)
    BY <1>1, CountWithout
  <1>3. Count(Tail(q), c) \in Nat
    BY <1>1, CountType
  <1>4. QED
    BY <1>1, <1>2, <1>3 DEF Passes, One

LEMMA QuietOnKeeps ==
  ASSUME NEW s \in Storage, NEW c \in Socket, QuietOn(s, c), waiting'[c] = waiting[c]
  PROVE  CopiesOn(s, c)' = CopiesOn(s, c) /\ (MatchesOn(s, c) => MatchesOn(s, c)')
  BY DEF QuietOn, Passes, CopiesOn, MatchesOn

LEMMA QuietOffKeeps ==
  ASSUME NEW c \in Socket, QuietOff(c)
  PROVE  CopiesOff(c)' = CopiesOff(c) /\ (MatchesOff(c) => MatchesOff(c)')
  BY DEF QuietOff, Passes, CopiesOff, MatchesOff, Reading

\* A step that moves no copy off a storage, or onto one.
LEMMA Balanced ==
  ASSUME NEW c \in Socket, Answered(c), waiting'[c] = waiting[c],
         CopiesOff(c)' = CopiesOff(c), MatchesOff(c)', dropped \subseteq dropped',
         \A s \in Storage : CopiesOn(s, c)' = CopiesOn(s, c) /\ MatchesOn(s, c)'
  PROVE  Answered(c)'
  BY DEF Answered, OneAnswer, NoneOn

\* A step that moves one onto a storage.
LEMMA MovedOn ==
  ASSUME NEW c \in Socket, Answered(c), waiting'[c] = waiting[c], NEW s \in Storage,
         CopiesOff(c) >= 1, CopiesOff(c)' = CopiesOff(c) - 1,
         CopiesOn(s, c)' = CopiesOn(s, c) + 1,
         \A t \in Storage \ {s} : CopiesOn(t, c)' = CopiesOn(t, c),
         MatchesOff(c)', \A t \in Storage : MatchesOn(t, c)'
  PROVE  Answered(c)'
  <1>1. /\ waiting[c] # 0
        /\ CopiesOff(c) = 1 /\ \A t \in Storage : CopiesOn(t, c) = 0
    BY DEF Answered, OneAnswer, NoneOn
  <1>2. /\ CopiesOff(c)' = 0 /\ CopiesOn(s, c)' = 1
        /\ \A t \in Storage \ {s} : CopiesOn(t, c)' = 0
    BY <1>1
  <1>3. QED
    BY <1>1, <1>2 DEF Answered, OneAnswer, NoneOn

\* A step that moves one off a storage.
LEMMA MovedOff ==
  ASSUME NEW c \in Socket, Answered(c), waiting'[c] = waiting[c], NEW s \in Storage,
         CopiesOn(s, c) >= 1, CopiesOn(s, c)' = CopiesOn(s, c) - 1,
         CopiesOff(c)' = CopiesOff(c) + 1,
         \A t \in Storage \ {s} : CopiesOn(t, c)' = CopiesOn(t, c),
         MatchesOff(c)', \A t \in Storage : MatchesOn(t, c)'
  PROVE  Answered(c)'
  <1>1. /\ waiting[c] # 0 /\ CopiesOff(c) = 0 /\ CopiesOn(s, c) = 1
        /\ \A t \in Storage \ {s} : CopiesOn(t, c) = 0
    BY DEF Answered, OneAnswer, NoneOn
  <1>2. /\ CopiesOff(c)' = 1 /\ CopiesOn(s, c)' = 0
        /\ \A t \in Storage \ {s} : CopiesOn(t, c)' = 0
    BY <1>1
  <1>3. \A t \in Storage : CopiesOn(t, c)' = 0
    BY <1>2
  <1>4. QED
    BY <1>1, <1>2, <1>3 DEF Answered, OneAnswer, NoneOn

\* The usual case: one storage, and what it exchanges with the rest is nothing.
LEMMA BalancedAt ==
  ASSUME NEW c \in Socket, Answered(c), QuietOff(c), NEW s \in Storage,
         \A t \in Storage \ {s} : QuietOn(t, c), dropped \subseteq dropped',
         CopiesOn(s, c)' = CopiesOn(s, c), MatchesOn(s, c)'
  PROVE  Answered(c)'
  <1>1. waiting'[c] = waiting[c]
    BY DEF QuietOff
  <1>2. CopiesOff(c)' = CopiesOff(c) /\ MatchesOff(c)'
    BY QuietOffKeeps DEF Answered
  <1>3. \A t \in Storage : CopiesOn(t, c)' = CopiesOn(t, c) /\ MatchesOn(t, c)'
    BY <1>1, QuietOnKeeps DEF Answered
  <1>4. QED
    BY <1>1, <1>2, <1>3, Balanced

LEMMA AllQuiet ==
  ASSUME NEW c \in Socket, Answered(c), QuietOff(c), \A t \in Storage : QuietOn(t, c),
         dropped \subseteq dropped'
  PROVE  Answered(c)'
  <1>1. waiting'[c] = waiting[c]
    BY DEF QuietOff
  <1>2. CopiesOff(c)' = CopiesOff(c) /\ MatchesOff(c)'
    BY QuietOffKeeps DEF Answered
  <1>3. \A t \in Storage : CopiesOn(t, c)' = CopiesOn(t, c) /\ MatchesOn(t, c)'
    BY <1>1, QuietOnKeeps DEF Answered
  <1>4. QED
    BY <1>1, <1>2, <1>3, Balanced

\* The counts are natural numbers.
LEMMA CopiesType ==
  ASSUME IInv, NEW c \in Socket
  PROVE  /\ \A s \in Storage :
              /\ Count(pending[s], c) \in Nat /\ Count(toPpd[s], c) \in Nat
              /\ Count(jobs[s], c) \in Nat /\ Count(fromPpd[s], c) \in Nat
              /\ CopiesOn(s, c) \in Nat
         /\ Count(requests[c], c) \in Nat /\ Len(replies[c]) \in Nat
  <1> USE DEF IInv, TypeOK
  <1>1. ASSUME NEW s \in Storage
        PROVE  /\ Count(pending[s], c) \in Nat /\ Count(toPpd[s], c) \in Nat
               /\ Count(jobs[s], c) \in Nat /\ Count(fromPpd[s], c) \in Nat
    <2>1. /\ pending[s] \in Seq(Job) /\ toPpd[s] \in Seq(Message)
          /\ jobs[s] \in Seq(Job) /\ fromPpd[s] \in Seq(Message)
      BY DEF StorageTypeOK, NetworkTypeOK, NodeTypeOK
    <2>2. QED
      BY <2>1, CountType
  <1>2. requests[c] \in Seq(Job) /\ replies[c] \in Seq(Message)
    BY DEF NetworkTypeOK
  <1>3. Count(requests[c], c) \in Nat /\ Len(replies[c]) \in Nat
    BY <1>2, CountType, LenProperties
  <1>4. QED
    BY <1>1, <1>3 DEF CopiesOn

\* What a step leaves alone stays as it is.
LEMMA UntouchedOn ==
  ASSUME NEW s \in Storage, NEW c \in Socket,
         pending'[s] = pending[s], toPpd'[s] = toPpd[s], jobs'[s] = jobs[s],
         fromPpd'[s] = fromPpd[s], listener'[s] = listener[s]
  PROVE  QuietOn(s, c)
  BY PassesSame DEF QuietOn, Replying

LEMMA UntouchedOff ==
  ASSUME NEW c \in Socket, UNCHANGED <<replies, waiting>>,
         requests'[c] = requests[c], worker'[c] = worker[c]
  PROVE  QuietOff(c)
  BY PassesSame DEF QuietOff, Reading

\* A message of a replication is no read.
LEMMA SyncSent ==
  ASSUME NetworkTypeOK, NEW s, NEW m \in Message, SendPpd(s, m), NEW c, ~ IsRead(m, c)
  PROVE  \A t \in Storage : Passes(toPpd[t], toPpd'[t], c)
  <1>1. \A t \in Storage : toPpd'[t] = toPpd[t] \/ toPpd'[t] = Append(toPpd[t], m)
    BY SendPpdReaches
  <1>2. \A t \in Storage : toPpd[t] \in Seq(Message)
    BY DEF NetworkTypeOK
  <1>3. QED
    BY <1>1, <1>2, PassesAppend, PassesSame

LEMMA NoReadInSync ==
  ASSUME NEW op \in {"syncGet", "syncPut", "syncEnd"}, NEW v \in Value, NEW c
  PROVE  Sync(op, v) \in Message /\ ~ IsRead(Sync(op, v), c)
  BY SyncOp DEF IsRead

LEMMA AcceptorAnswers ==
  ASSUME IInv, NEW c \in Socket, Answered(c), NEW Quiet, Acceptor(Quiet),
         UNCHANGED <<nodeVars, clientVars>>
  PROVE  Answered(c)'
  <1> USE DEF IInv, TypeOK
  <1>1. QuietOff(c)
    <2>1. UNCHANGED <<requests, replies, waiting>>
      BY DEF Acceptor, DenyPpd, AcceptPpd, AddPpd, ValidateReplication, StartReplication,
         FireSynchronization, AcceptPfs
    <2>2. worker'[c] = worker[c] \/ (~ Reading(c) /\ ~ Reading(c)')
      BY DEF Acceptor, DenyPpd, AcceptPpd, AddPpd, ValidateReplication, StartReplication,
         FireSynchronization, AcceptPfs, WorkerLoops, WorkerMoves, WorkerAt, ThreadTypeOK,
         Reading
    <2>3. QED
      BY <2>1, <2>2, PassesSame DEF QuietOff, Reading
  <1>2. ASSUME NEW t \in Storage
        PROVE  Passes(toPpd[t], toPpd'[t], c)
    <2>1. CASE toPpd' = toPpd
      BY <2>1, PassesSame
    <2>2. CASE \E d, op : op \in {"syncGet", "syncEnd"} /\ SendPpd(d, Sync(op, 0))
      BY <2>2, NoReadInSync, InitialValues, SyncSent
    <2>3. QED
      BY <2>1, <2>2 DEF Acceptor, DenyPpd, AcceptPpd, AddPpd, ValidateReplication,
         StartReplication, FireSynchronization, AcceptPfs
  <1>3. ASSUME NEW t \in Storage
        PROVE  listener'[t] = listener[t] \/ (~ Replying(t, c) /\ ~ Replying(t, c)')
    <2>1. CASE listener' = listener
      BY <2>1
    <2>2. CASE acceptor.pc # "accept" /\ LaunchSlaveThreads(acceptor.destiny)
      <3>1. acceptor.destiny \in Storage /\ listener[acceptor.destiny].pc = "off"
        BY <2>2 DEF StaysDisconnected
      <3>2. QED
        BY <2>2, <3>1, LaunchedThreads DEF Replying
    <2>3. QED
      BY <2>1, <2>2 DEF Acceptor, DenyPpd, AcceptPpd, AddPpd, ValidateReplication,
         StartReplication, FireSynchronization, AcceptPfs
  <1>4. UNCHANGED <<pending, jobs, fromPpd>>
    BY DEF Acceptor, DenyPpd, AcceptPpd, AddPpd, ValidateReplication, StartReplication,
       FireSynchronization, AcceptPfs
  <1>5. \A t \in Storage : QuietOn(t, c)
    BY <1>2, <1>3, <1>4, PassesSame DEF QuietOn, Replying
  <1>6. QED
    BY <1>1, <1>5, AllQuiet

LEMMA PfsReceiveAnswers ==
  ASSUME IInv, JobsInHand, NEW c \in Socket, Answered(c), PfsReceive(c),
         UNCHANGED <<nodeVars, clientVars>>
  PROVE  Answered(c)'
  <1> USE DEF IInv, TypeOK
  <1> DEFINE q == requests[c]
  <1>1. /\ q \in Seq(Job) /\ q # <<>> /\ requests'[c] = Tail(q) /\ worker[c].pc = "receive"
        /\ UNCHANGED <<pending, toPpd, jobs, fromPpd, listener, replies, waiting>>
    BY DEF PfsReceive, NetworkTypeOK
  <1>2. Without(q, Tail(q), 1) /\ Tail(q) \in Seq(Job) /\ Head(q) = q[1] /\ Head(q) \in Job
    BY <1>1, TailWithout
  <1>3. Head(q).socket = c
    BY <1>1, <1>2 DEF JobsInHand, WorkerHolds, Without
  <1>4. \A t \in Storage : QuietOn(t, c)
    BY <1>1, UntouchedOn
  <1>5. CASE Head(q).op = "get"
    <2>1. IsRead(Head(q), c)
      BY <1>3, <1>5 DEF IsRead
    <2>2. Count(q, c) = Count(Tail(q), c) + 1
          /\ \A x : AllFor(q, c, x) => AllFor(Tail(q), c, x) /\ Head(q).sector = x
      BY <1>1, <2>1, CountTail DEF One
    <2>3. worker'[c].pc = "select" /\ worker'[c].job = Head(q)
      BY <1>5 DEF PfsReceive, WorkerMoves, WorkerAt, ThreadTypeOK
    <2>4. Count(q, c) \in Nat /\ Count(Tail(q), c) \in Nat /\ Len(replies[c]) \in Nat
      BY <1>1, <1>2, CountType, CopiesType
    <2>5. CopiesOff(c)' = CopiesOff(c)
      BY <1>1, <2>2, <2>3, <2>4 DEF CopiesOff
    <2>6. MatchesOff(c)'
      BY <1>1, <2>2, <2>3 DEF Answered, MatchesOff, Reading
    <2>7. \A t \in Storage : CopiesOn(t, c)' = CopiesOn(t, c) /\ MatchesOn(t, c)'
      BY <1>1, <1>4, QuietOnKeeps DEF Answered
    <2>8. QED
      BY <1>1, <2>5, <2>6, <2>7, Balanced
  <1>6. CASE Head(q).op # "get"
    <2>1. Passes(requests[c], requests'[c], c)
      BY <1>1, <1>6, PassesTail DEF IsRead
    <2>2. ~ Reading(c) /\ ~ Reading(c)'
      BY <1>1, <1>6 DEF PfsReceive, WorkerMoves, WorkerAt, ThreadTypeOK, Reading
    <2>3. QuietOff(c)
      BY <1>1, <2>1, <2>2 DEF QuietOff
    <2>4. QED
      BY <1>4, <2>3, AllQuiet
  <1>7. QED
    BY <1>5, <1>6

\* A job is queued on a storage; for another connection nothing changes.
LEMMA QueuedQuietly ==
  ASSUME IInv, NEW s, NEW job \in Job, NEW c \in Socket, ~ IsRead(job, c),
         pending' = [pending EXCEPT ![s] = Append(@, job)],
         UNCHANGED <<toPpd, jobs, fromPpd, listener>>
  PROVE  \A t \in Storage : QuietOn(t, c)
  <1>1. \A t \in Storage : pending'[t] = pending[t] \/ pending'[t] = Append(pending[t], job)
    BY DEF IInv, TypeOK, StorageTypeOK
  <1>2. \A t \in Storage : pending[t] \in Seq(Job)
    BY DEF IInv, TypeOK, StorageTypeOK
  <1>3. \A t \in Storage : Passes(pending[t], pending'[t], c)
    BY <1>1, <1>2, PassesSame, PassesAppend
  <1>4. QED
    BY <1>3, PassesSame DEF QuietOn, Replying

LEMMA EnqueueGetAnswers ==
  ASSUME IInv, JobsInHand, up, NEW c \in Socket, Answered(c), EnqueueGet(c),
         UNCHANGED <<nodeVars, clientVars>>
  PROVE  Answered(c)'
  <1> USE DEF IInv, TypeOK
  <1>0. worker[c].cursor \in Storage /\ worker[c].job \in Job
        /\ IsRead(worker[c].job, c) /\ Reading(c)
    BY DEF EnqueueGet, JobsInHand, WorkerHolds, ThreadsHoldJobs, IsRead, Reading
  <1>1. PICK s \in Storage, job \in Job :
           s = worker[c].cursor /\ job = worker[c].job /\ IsRead(job, c) /\ Reading(c)
    BY <1>0
  <1>2. /\ pending'[s] = Append(pending[s], job)
        /\ \A t \in Storage \ {s} : pending'[t] = pending[t]
        /\ UNCHANGED <<toPpd, jobs, fromPpd, listener, requests, replies, waiting>>
    BY <1>1 DEF EnqueueGet, QueueRead, StorageTypeOK
  <1>3. worker'[c].pc = "receive"
    BY DEF EnqueueGet, WorkerLoops, WorkerMoves, WorkerAt, ThreadTypeOK
  <1>4. pending[s] \in Seq(Job)
    BY <1>1 DEF StorageTypeOK
  <1>5. Count(pending'[s], c) = Count(pending[s], c) + 1
        /\ \A x : AllFor(pending'[s], c, x) <=> AllFor(pending[s], c, x) /\ job.sector = x
    BY <1>1, <1>2, <1>4, CountAppend DEF One
  <1>6. CopiesOff(c) >= 1 /\ CopiesOff(c)' = CopiesOff(c) - 1
    BY <1>1, <1>2, <1>3, CopiesType DEF CopiesOff, Reading
  <1>7. CopiesOn(s, c)' = CopiesOn(s, c) + 1
    <2>1. /\ Count(pending[s], c) \in Nat /\ Count(toPpd[s], c) \in Nat
          /\ Count(jobs[s], c) \in Nat /\ Count(fromPpd[s], c) \in Nat
      BY CopiesType
    <2>2. Replying(s, c)' <=> Replying(s, c)
      BY <1>2 DEF Replying
    <2>3. toPpd'[s] = toPpd[s] /\ jobs'[s] = jobs[s] /\ fromPpd'[s] = fromPpd[s]
      BY <1>2
    <2>4. QED
      BY <1>5, <2>1, <2>2, <2>3 DEF CopiesOn
  <1>8. \A t \in Storage \ {s} : QuietOn(t, c)
    BY <1>2, UntouchedOn
  <1>9. waiting'[c] = waiting[c]
    BY <1>2
  <1>10. MatchesOff(c)'
    BY <1>2, <1>3 DEF Answered, MatchesOff, Reading
  <1>11. MatchesOn(s, c)'
    BY <1>1, <1>2, <1>5 DEF Answered, MatchesOff, MatchesOn, Replying
  <1>12. \A t \in Storage \ {s} : CopiesOn(t, c)' = CopiesOn(t, c) /\ MatchesOn(t, c)'
    BY <1>8, <1>9, QuietOnKeeps DEF Answered
  <1>13. QED
    BY <1>1, <1>6, <1>7, <1>9, <1>10, <1>11, <1>12, MovedOn

LEMMA WorkerAnswers ==
  ASSUME IInv, JobsInHand, up, NEW c \in Socket, Answered(c), NEW d \in Socket, Worker(d),
         UNCHANGED <<nodeVars, clientVars>>
  PROVE  Answered(c)'
  <1> USE DEF IInv, TypeOK
  <1>1. CASE d # c
    <2>1. /\ requests'[c] = requests[c] /\ worker'[c] = worker[c]
          /\ UNCHANGED <<replies, waiting, toPpd, jobs, fromPpd, listener>>
      BY <1>1 DEF Worker, PfsReceive, IterateStorages, ExecutePut, SelectForGet, EnqueueGet, WorkerLoops,
         WorkerMoves, NetworkTypeOK, ThreadTypeOK
    <2>2. QuietOff(c)
      BY <2>1, UntouchedOff
    <2>3. CASE PfsReceive(d) \/ IterateStorages(d) \/ SelectForGet(d)
      BY <2>1, <2>2, <2>3, UntouchedOn, AllQuiet DEF PfsReceive, IterateStorages, SelectForGet
    <2>4. CASE ExecutePut(d) \/ EnqueueGet(d)
      <3>1. worker[d].job \in Job /\ worker[d].job.socket = d
        BY <2>4 DEF ExecutePut, EnqueueGet, ThreadsHoldJobs, JobsInHand, WorkerHolds
      <3>2. ~ IsRead(worker[d].job, c)
        BY <1>1, <3>1 DEF IsRead
      <3>3. pending' = [pending EXCEPT ![worker[d].cursor] = Append(@, worker[d].job)]
        BY <2>4 DEF ExecutePut, EnqueueGet, QueueRead
      <3>4. QED
        BY <2>1, <2>2, <3>1, <3>2, <3>3, QueuedQuietly, AllQuiet
    <2>5. QED
      BY <2>3, <2>4 DEF Worker
  <1>2. CASE d = c /\ PfsReceive(c)
    BY <1>2, PfsReceiveAnswers
  <1>3. CASE d = c /\ ExecutePut(c)
    <2>1. worker[c].job \in Job /\ ~ IsRead(worker[c].job, c)
      BY <1>3 DEF ExecutePut, ThreadsHoldJobs, JobsInHand, WorkerHolds, IsRead
    <2>2. pending' = [pending EXCEPT ![worker[c].cursor] = Append(@, worker[c].job)]
          /\ UNCHANGED <<toPpd, jobs, fromPpd, listener, requests, replies, waiting>>
      BY <1>3 DEF ExecutePut
    <2>3. ~ Reading(c) /\ ~ Reading(c)'
      BY <1>3, PutMoves DEF Reading
    <2>4. QuietOff(c)
      BY <2>2, <2>3, PassesSame DEF QuietOff
    <2>5. QED
      BY <2>1, <2>2, <2>4, QueuedQuietly, AllQuiet
  <1>4. CASE d = c /\ SelectForGet(c)
    <2>1. /\ worker[c].pc = "select" /\ worker'[c].pc = "enqueue"
          /\ worker'[c].job = worker[c].job
          /\ UNCHANGED <<pending, toPpd, jobs, fromPpd, listener, requests, replies, waiting>>
      BY <1>4 DEF SelectForGet, WorkerMoves, WorkerAt, ThreadTypeOK
    <2>2. QuietOff(c)
      BY <2>1, PassesSame DEF QuietOff, Reading
    <2>3. QED
      BY <2>1, <2>2, UntouchedOn, AllQuiet
  <1>5. CASE d = c /\ EnqueueGet(c)
    BY <1>5, EnqueueGetAnswers
  <1>6. CASE d = c /\ IterateStorages(c)
    <2>1. /\ worker[c].pc = "walk" /\ worker'[c].pc = "put"
          /\ UNCHANGED <<pending, toPpd, jobs, fromPpd, listener, requests, replies, waiting>>
      BY <1>6 DEF IterateStorages, WorkerMoves, WorkerPuts, ThreadTypeOK
    <2>2. QuietOff(c)
      BY <2>1, PassesSame DEF QuietOff, Reading
    <2>3. QED
      BY <2>1, <2>2, UntouchedOn, AllQuiet
  <1>7. QED
    BY <1>1, <1>2, <1>3, <1>4, <1>5, <1>6 DEF Worker

\* A queue without reads of c.
LEMMA CountZero ==
  ASSUME NEW T, NEW q \in Seq(T), NEW c, Count(q, c) = 0
  PROVE  \A x : AllFor(q, c, x)
  <1>1. Reads(q, c) = {}
    BY CountType, FS_EmptySet DEF Count
  <1>2. QED
    BY <1>1 DEF AllFor

LEMMA SenderAnswers ==
  ASSUME IInv, NobodyEnded, NEW c \in Socket, Answered(c), NEW s \in Storage, Sender(s),
         UNCHANGED <<nodeVars, clientVars>>
  PROVE  Answered(c)'
  <1> USE DEF IInv, TypeOK
  <1>1. UNCHANGED <<fromPpd, listener, requests, replies, worker, jobs, waiting>>
    BY DEF Sender, SenderCheck, SenderSend, SenderExit, SenderRecord, SenderCount
  <1>2. QuietOff(c)
    BY <1>1, UntouchedOff
  <1>3. CASE SenderSend(s)
    <2>1. /\ pending[s] \in Seq(Job) /\ pending[s] # <<>> /\ pending'[s] = Tail(pending[s])
          /\ ppdStatus[s] = "running" /\ toPpd[s] \in Seq(Message)
      BY <1>3 DEF SenderSend, ThreadsHoldJobs, NobodyEnded, StorageTypeOK, NetworkTypeOK
    <2>2. PICK job \in Job : job = Head(pending[s])
      BY <2>1, CountTail
    <2>3. toPpd'[s] = Append(toPpd[s], job)
      BY <1>3, <2>1, <2>2 DEF SenderSend, SendPpd, NetworkTypeOK
    <2>4. \A t \in Storage \ {s} : pending'[t] = pending[t] /\ toPpd'[t] = toPpd[t]
      BY <1>3 DEF SenderSend, SendPpd, StorageTypeOK, NetworkTypeOK
    <2>5. \A t \in Storage \ {s} : QuietOn(t, c)
      BY <1>1, <2>4, UntouchedOn
    <2>6. Count(pending[s], c) = Count(pending'[s], c) + One(job, c)
          /\ \A x : AllFor(pending[s], c, x) =>
                      AllFor(pending'[s], c, x) /\ (IsRead(job, c) => job.sector = x)
      BY <2>1, <2>2, CountTail
    <2>7. job \in Message
      BY DEF Message
    <2>8. Count(toPpd'[s], c) = Count(toPpd[s], c) + One(job, c)
          /\ \A x : AllFor(toPpd'[s], c, x) <=>
                      AllFor(toPpd[s], c, x) /\ (IsRead(job, c) => job.sector = x)
      BY <2>1, <2>3, <2>7, CountAppend
    <2>9. MatchesOn(s, c)'
      BY <1>1, <2>6, <2>8 DEF Answered, MatchesOn, Replying
    <2>10. CopiesOn(s, c)' = CopiesOn(s, c)
      <3>1. Count(pending'[s], c) \in Nat /\ Count(pending[s], c) \in Nat
        BY <2>1, CountTail
      <3>2. /\ Count(toPpd[s], c) \in Nat /\ Count(jobs[s], c) \in Nat
            /\ Count(fromPpd[s], c) \in Nat /\ One(job, c) \in Nat
        BY CopiesType DEF One
      <3>3. Replying(s, c)' <=> Replying(s, c)
        BY <1>1 DEF Replying
      <3>4. jobs'[s] = jobs[s] /\ fromPpd'[s] = fromPpd[s]
        BY <1>1
      <3>5. QED
        BY <2>6, <2>8, <3>1, <3>2, <3>3, <3>4 DEF CopiesOn
    <2>11. QED
      BY <1>2, <2>5, <2>9, <2>10, BalancedAt
  <1>4. CASE ~ SenderSend(s)
    <2>1. UNCHANGED <<pending, toPpd>>
      BY <1>4 DEF Sender, SenderCheck, SenderExit, SenderRecord, SenderCount
    <2>2. QED
      BY <1>1, <1>2, <2>1, UntouchedOn, AllQuiet
  <1>5. QED
    BY <1>3, <1>4

LEMMA ListenerResponseAnswers ==
  ASSUME IInv, NEW c \in Socket, Answered(c), NEW s \in Storage, ListenerResponse(s),
         UNCHANGED <<nodeVars, clientVars>>
  PROVE  Answered(c)'
  <1> USE DEF IInv, TypeOK
  <1>1. UNCHANGED <<pending, toPpd, jobs, requests, replies, worker, waiting>>
    BY DEF ListenerResponse
  <1>2. QuietOff(c)
    BY <1>1, UntouchedOff
  <1>3. /\ Receives(s, "get") /\ listener[s].pc = "receive"
        /\ fromPpd[s] \in Seq(Message) /\ fromPpd[s] # <<>>
    BY ReceivesTail DEF ListenerResponse, Receives
  <1>4. PICK m \in Message : m = Head(fromPpd[s]) /\ m.op = "get"
    BY <1>3, ReceivesTail
  <1>5. fromPpd'[s] = Tail(fromPpd[s]) /\ \A t \in Storage \ {s} : fromPpd'[t] = fromPpd[t]
    BY <1>3, ReceivesTail
  <1>6. /\ listener'[s].pc = "reply" /\ listener'[s].message = m
        /\ \A t \in Storage \ {s} : listener'[t] = listener[t]
    BY <1>4 DEF ListenerResponse, ListenerMoves, ListenerAt, ThreadTypeOK
  <1>7. \A t \in Storage \ {s} : QuietOn(t, c)
    BY <1>1, <1>5, <1>6, UntouchedOn
  <1>8. Count(fromPpd[s], c) = Count(fromPpd'[s], c) + One(m, c)
        /\ \A x : AllFor(fromPpd[s], c, x) =>
                    AllFor(fromPpd'[s], c, x) /\ (IsRead(m, c) => m.sector = x)
    BY <1>3, <1>4, <1>5, CountTail
  <1>9. ~ Replying(s, c) /\ (Replying(s, c)' <=> IsRead(m, c))
    BY <1>3, <1>4, <1>6 DEF Replying, IsRead
  <1>10. MatchesOn(s, c)'
    BY <1>1, <1>6, <1>8, <1>9 DEF Answered, MatchesOn
  <1>11. CopiesOn(s, c)' = CopiesOn(s, c)
    <2>1. Count(fromPpd'[s], c) \in Nat /\ Count(fromPpd[s], c) \in Nat
      BY <1>3, <1>5, CountTail
    <2>2. /\ Count(toPpd[s], c) \in Nat /\ Count(jobs[s], c) \in Nat
          /\ Count(pending[s], c) \in Nat
      BY CopiesType
    <2>3. pending'[s] = pending[s] /\ toPpd'[s] = toPpd[s] /\ jobs'[s] = jobs[s]
      BY <1>1
    <2>4. QED
      BY <1>8, <1>9, <2>1, <2>2, <2>3 DEF CopiesOn, One
  <1>12. QED
    BY <1>2, <1>7, <1>10, <1>11, BalancedAt

LEMMA ListenerReplyAnswers ==
  ASSUME IInv, JobsInHand, NEW c \in Socket, Answered(c), NEW s \in Storage, ListenerReply(s),
         UNCHANGED <<nodeVars, clientVars>>
  PROVE  Answered(c)'
  <1> USE DEF IInv, TypeOK
  <1>1. UNCHANGED <<pending, toPpd, jobs, fromPpd, requests, worker, waiting>>
    BY DEF ListenerReply
  <1>2. /\ listener[s].pc = "reply" /\ listener[s].message \in Job
        /\ listener'[s].pc = "forget"
        /\ \A t \in Storage \ {s} : listener'[t] = listener[t]
    BY DEF ListenerReply, ListenerMoves, ListenerAt, ThreadTypeOK, JobsInHand, ListenerHolds
  <1>3. PICK m \in Job : m = listener[s].message
    BY <1>2
  <1>4. m.socket \in Socket /\ m \in Message
    BY DEF Job, Message
  <1>5. /\ replies'[m.socket] = Append(replies[m.socket], m)
        /\ \A d \in Socket \ {m.socket} : replies'[d] = replies[d]
    BY <1>3, <1>4 DEF ListenerReply, NetworkTypeOK
  <1>6. \A t \in Storage \ {s} : QuietOn(t, c)
    BY <1>1, <1>2, UntouchedOn
  <1>7. CASE m.socket # c
    <2>1. QuietOff(c)
      BY <1>1, <1>5, <1>7, PassesSame DEF QuietOff, Reading
    <2>2. QuietOn(s, c)
      BY <1>1, <1>2, <1>3, <1>7, PassesSame DEF QuietOn, Replying
    <2>3. QED
      BY <1>6, <2>1, <2>2, AllQuiet
  <1>8. CASE m.socket = c
    <2>1. Replying(s, c) /\ ~ Replying(s, c)' /\ m.sector = waiting[c]
      BY <1>2, <1>3, <1>8 DEF Replying, Answered, MatchesOn
    <2>2. CopiesOn(s, c) >= 1 /\ CopiesOn(s, c)' = CopiesOn(s, c) - 1
      <3>1. /\ Count(pending[s], c) \in Nat /\ Count(toPpd[s], c) \in Nat
            /\ Count(jobs[s], c) \in Nat /\ Count(fromPpd[s], c) \in Nat
        BY CopiesType
      <3>2. /\ pending'[s] = pending[s] /\ toPpd'[s] = toPpd[s]
            /\ jobs'[s] = jobs[s] /\ fromPpd'[s] = fromPpd[s]
        BY <1>1
      <3>3. QED
        BY <2>1, <3>1, <3>2 DEF CopiesOn
    <2>3. replies[c] \in Seq(Message) /\ replies'[c] = Append(replies[c], m)
      BY <1>5, <1>8 DEF NetworkTypeOK
    <2>4. Len(replies'[c]) = Len(replies[c]) + 1
      BY <1>4, <2>3, AppendProperties
    <2>5. CopiesOff(c)' = CopiesOff(c) + 1
      BY <1>1, <2>4, CopiesType DEF CopiesOff
    <2>6. \A i \in DOMAIN replies'[c] : replies'[c][i].sector = waiting[c]
      BY <1>4, <2>1, <2>3, AppendAt DEF Answered, MatchesOff
    <2>7. MatchesOff(c)'
      BY <1>1, <2>6 DEF Answered, MatchesOff, Reading
    <2>8. MatchesOn(s, c)'
      BY <1>1, <2>1 DEF Answered, MatchesOn
    <2>9. \A t \in Storage \ {s} : CopiesOn(t, c)' = CopiesOn(t, c) /\ MatchesOn(t, c)'
      BY <1>1, <1>6, QuietOnKeeps DEF Answered
    <2>10. \A t \in Storage : MatchesOn(t, c)'
      BY <2>8, <2>9
    <2>11. waiting'[c] = waiting[c]
      BY <1>1
    <2>12. QED
      BY <2>2, <2>5, <2>7, <2>9, <2>10, <2>11, MovedOff
  <1>9. QED
    BY <1>7, <1>8

LEMMA ListenerAnswers ==
  ASSUME IInv, JobsInHand, NobodyEnded, NEW c \in Socket, Answered(c), NEW s \in Storage,
         Listener(s), UNCHANGED <<nodeVars, clientVars>>
  PROVE  Answered(c)'
  <1> USE DEF IInv, TypeOK
  <1>1. CASE ListenerForget(s)
    <2>1. /\ UNCHANGED <<pending, toPpd, jobs, fromPpd, requests, replies, worker, waiting>>
          /\ \A t \in Storage : listener'[t] = listener[t]
                                \/ (listener[t].pc # "reply" /\ listener'[t].pc # "reply")
      BY <1>1 DEF ListenerForget, ListenerLoops, ListenerMoves, ListenerAt, ThreadTypeOK
    <2>2. \A t \in Storage : QuietOn(t, c)
      BY <2>1, PassesSame DEF QuietOn, Replying
    <2>3. QED
      BY <2>1, <2>2, UntouchedOff, AllQuiet
  <1>2. CASE ListenerSyncPut(s) \/ ListenerSyncEnd(s)
    <2>1. UNCHANGED <<pending, jobs, listener, requests, replies, worker, waiting>>
      BY <1>2 DEF ListenerSyncPut, ListenerSyncEnd
    <2>2. PICK op \in {"syncPut", "syncEnd"} : Receives(s, op)
      BY <1>2 DEF ListenerSyncPut, ListenerSyncEnd
    <2>3. /\ fromPpd[s] \in Seq(Message) /\ fromPpd[s] # <<>>
          /\ Head(fromPpd[s]) \in Message /\ Head(fromPpd[s]).op = op
          /\ fromPpd'[s] = Tail(fromPpd[s])
          /\ \A t \in Storage \ {s} : fromPpd'[t] = fromPpd[t]
      BY <2>2, ReceivesTail
    <2>4. ~ IsRead(Head(fromPpd[s]), c)
      BY <2>3 DEF IsRead
    <2>5. \A t \in Storage : Passes(fromPpd[t], fromPpd'[t], c)
      BY <2>3, <2>4, PassesTail, PassesSame
    <2>6. \A t \in Storage : Passes(toPpd[t], toPpd'[t], c)
      <3>1. CASE ListenerSyncPut(s)
        BY <2>3, <2>4, <3>1, SyncSent DEF ListenerSyncPut
      <3>2. CASE ListenerSyncEnd(s)
        BY <3>2, NoReadInSync, InitialValues, SyncSent DEF ListenerSyncEnd
      <3>3. QED
        BY <1>2, <3>1, <3>2
    <2>7. \A t \in Storage : QuietOn(t, c)
      BY <2>1, <2>5, <2>6, PassesSame DEF QuietOn, Replying
    <2>8. QED
      BY <2>1, <2>7, UntouchedOff, AllQuiet
  <1>3. QED
    BY <1>1, <1>2, ListenerStays, ListenerResponseAnswers, ListenerReplyAnswers

-----------------------------------------------------------------------------
(* The PPDs and the PFS threads.                                            *)

LEMMA NodeQueueJobAnswers ==
  ASSUME IInv, NEW c \in Socket, Answered(c), NEW s \in Storage, NodeQueueJob(s),
         UNCHANGED clientVars
  PROVE  Answered(c)'
  <1> USE DEF IInv, TypeOK
  <1>1. UNCHANGED <<pending, fromPpd, listener, requests, replies, worker, waiting>>
    BY DEF NodeQueueJob
  <1>2. Takes(s, {"get", "put"})
    BY DEF NodeQueueJob
  <1>3. /\ toPpd[s] \in Seq(Message) /\ toPpd[s] # <<>> /\ toPpd'[s] = Tail(toPpd[s])
        /\ \A t \in Storage \ {s} : toPpd'[t] = toPpd[t]
        /\ Head(toPpd[s]) \in Message /\ Head(toPpd[s]).op \in {"get", "put"}
    BY <1>2, TakesTail
  <1>4. PICK job \in Job, k \in Nat :
            /\ job = Head(toPpd[s]) /\ jobs[s] \in Seq(Job) /\ jobs'[s] \in Seq(Job)
            /\ Without(jobs'[s], jobs[s], k) /\ jobs'[s][k] = job
            /\ \A t \in Storage \ {s} : jobs'[t] = jobs[t]
    BY QueuedJob
  <1>5. dropped' = dropped
    BY DEF NodeQueueJob
  <1>6. Count(toPpd[s], c) = Count(toPpd'[s], c) + One(job, c)
        /\ \A x : AllFor(toPpd[s], c, x) =>
                    AllFor(toPpd'[s], c, x) /\ (IsRead(job, c) => job.sector = x)
    BY <1>3, <1>4, CountTail
  <1>7. Count(jobs'[s], c) = Count(jobs[s], c) + One(job, c)
        /\ \A x : AllFor(jobs'[s], c, x) <=>
                    AllFor(jobs[s], c, x) /\ (IsRead(job, c) => job.sector = x)
    <2> DEFINE r == jobs'[s]
    <2> HIDE DEF r
    <2>1. r \in Seq(Job) /\ Without(r, jobs[s], k) /\ r[k] = job
      BY <1>4 DEF r
    <2>2. Count(r, c) = Count(jobs[s], c) + One(r[k], c)
          /\ \A x : AllFor(r, c, x) <=>
                      AllFor(jobs[s], c, x) /\ (IsRead(r[k], c) => r[k].sector = x)
      BY <1>4, <2>1, CountWithout
    <2>3. QED
      BY <2>1, <2>2 DEF r
  <1>8. MatchesOn(s, c)'
    BY <1>1, <1>6, <1>7 DEF Answered, MatchesOn, Replying
  <1>9. CopiesOn(s, c)' = CopiesOn(s, c)
    <2>1. Count(toPpd'[s], c) \in Nat /\ Count(toPpd[s], c) \in Nat
      BY <1>3, CountTail
    <2>2. /\ Count(pending[s], c) \in Nat /\ Count(jobs[s], c) \in Nat
          /\ Count(fromPpd[s], c) \in Nat /\ One(job, c) \in Nat
      BY CopiesType DEF One
    <2>3. pending'[s] = pending[s] /\ fromPpd'[s] = fromPpd[s]
          /\ (Replying(s, c)' <=> Replying(s, c))
      BY <1>1 DEF Replying
    <2>4. QED
      BY <1>6, <1>7, <2>1, <2>2, <2>3 DEF CopiesOn
  <1>10. QED
    BY <1>1, <1>3, <1>4, <1>5, <1>8, <1>9, UntouchedOff, UntouchedOn, BalancedAt

\* A job falls off the list of a PPD: a read of a sector that is counted as lost.
LEMMA NodeLosesJobAnswers ==
  ASSUME IInv, NEW c \in Socket, Answered(c), NEW s \in Storage, NodeLosesJob(s),
         UNCHANGED clientVars
  PROVE  Answered(c)'
  <1> USE DEF IInv, TypeOK
  <1>1. UNCHANGED <<pending, toPpd, fromPpd, listener, requests, replies, worker, waiting>>
    BY DEF NodeLosesJob
  <1>2. PICK job \in Job, i \in DOMAIN jobs[s] :
            /\ job = jobs[s][i] /\ jobs[s] \in Seq(Job) /\ jobs'[s] \in Seq(Job)
            /\ Without(jobs[s], jobs'[s], i) /\ dropped' = dropped \cup {job.sector}
            /\ \A t \in Storage \ {s} : jobs'[t] = jobs[t]
    BY LostJob
  <1>3. Count(jobs[s], c) = Count(jobs'[s], c) + One(job, c)
        /\ \A x : AllFor(jobs[s], c, x) =>
                    AllFor(jobs'[s], c, x) /\ (IsRead(job, c) => job.sector = x)
    BY <1>2, CountWithout
  <1>4. /\ Count(jobs'[s], c) \in Nat /\ Count(jobs[s], c) \in Nat
        /\ Count(pending[s], c) \in Nat /\ Count(toPpd[s], c) \in Nat
        /\ Count(fromPpd[s], c) \in Nat
    BY <1>2, CountType, CopiesType
  <1>5. Replying(s, c)' <=> Replying(s, c)
    BY <1>1 DEF Replying
  <1>6. QuietOff(c) /\ \A t \in Storage \ {s} : QuietOn(t, c)
    BY <1>1, <1>2, UntouchedOff, UntouchedOn
  <1>7. MatchesOff(c)' /\ CopiesOff(c)' = CopiesOff(c)
    BY <1>6, QuietOffKeeps DEF Answered
  <1>8. \A t \in Storage \ {s} : CopiesOn(t, c)' = CopiesOn(t, c) /\ MatchesOn(t, c)'
    BY <1>1, <1>6, QuietOnKeeps DEF Answered
  <1>9. MatchesOn(s, c)'
    BY <1>1, <1>3 DEF Answered, MatchesOn, Replying
  <1>10. CopiesOn(s, c) = CopiesOn(s, c)' + One(job, c)
    <2>1. /\ pending'[s] = pending[s] /\ toPpd'[s] = toPpd[s] /\ fromPpd'[s] = fromPpd[s]
      BY <1>1
    <2>2. One(job, c) \in Nat
      BY DEF One
    <2>3. QED
      BY <1>3, <1>4, <1>5, <2>1, <2>2 DEF CopiesOn
  <1>11. CopiesOn(s, c) \in Nat /\ CopiesOn(s, c)' \in Nat
    <2>2. Count(pending'[s], c) \in Nat /\ Count(toPpd'[s], c) \in Nat
          /\ Count(fromPpd'[s], c) \in Nat
      BY <1>1, <1>4
    <2>3. CopiesOn(s, c)' \in Nat
      BY <1>4, <2>2 DEF CopiesOn
    <2>4. QED
      BY <2>3, CopiesType
  <1>12. CASE ~ IsRead(job, c)
    <2>1. CopiesOn(s, c)' = CopiesOn(s, c)
      BY <1>10, <1>11, <1>12 DEF One
    <2>2. QED
      BY <1>2, <1>6, <1>9, <2>1, BalancedAt
  <1>13. CASE IsRead(job, c)
    <2>1. CopiesOn(s, c) >= 1
      BY <1>10, <1>11, <1>13 DEF One
    <2>2. /\ waiting[c] # 0 /\ CopiesOff(c) = 0 /\ CopiesOn(s, c) = 1
          /\ \A t \in Storage \ {s} : CopiesOn(t, c) = 0
      BY <2>1 DEF Answered, OneAnswer, NoneOn
    <2>3. CopiesOn(s, c)' = 0
      BY <1>10, <1>11, <1>13, <2>2 DEF One
    <2>4. \A t \in Storage : CopiesOn(t, c)' = 0 /\ MatchesOn(t, c)'
      BY <1>8, <1>9, <2>2, <2>3
    <2>5. waiting[c] \in dropped'
      BY <1>2, <1>3, <1>13 DEF Answered, MatchesOn
    <2>6. QED
      BY <1>1, <1>7, <2>2, <2>4, <2>5 DEF Answered, OneAnswer, NoneOn
  <1>14. QED
    BY <1>12, <1>13

\* A job that is executed, on a PPD that goes on.
LEMMA NodeExecuteAnswers ==
  ASSUME IInv, NEW c \in Socket, Answered(c), NEW s \in Storage, NodeExecute(s),
         UNCHANGED clientVars, deaths' = 0
  PROVE  Answered(c)'
  <1> USE DEF IInv, TypeOK
  <1>1. UNCHANGED <<pending, listener, requests, replies, worker, waiting, dropped>>
    BY DEF NodeExecute
  <1>2. PICK i \in DOMAIN jobs[s] : Executes(s, i)
    BY DEF NodeExecute
  <1>3. mapped[s] /\ jobs[s][i].sector \in DOMAIN disk[s]
    BY <1>2, EndsCounted DEF Executes
  <1>4. jobs[s] \in Seq(Job) /\ disk[s] \in Seq(Value)
    BY DEF NodeTypeOK
  <1>5. PICK job \in Job : job = jobs[s][i]
    BY <1>4, ElementOfSeq, LenProperties
  <1>6. /\ jobs'[s] = RemoveAt(jobs[s], i) /\ toPpd' = toPpd
        /\ \A t \in Storage \ {s} : jobs'[t] = jobs[t]
    BY <1>2, <1>3 DEF Executes, NodeTypeOK
  <1>7. jobs'[s] \in Seq(Job) /\ Without(jobs[s], jobs'[s], i)
    BY <1>4, <1>6, RemoveAtWithout
  <1>8. Count(jobs[s], c) = Count(jobs'[s], c) + One(job, c)
        /\ \A x : AllFor(jobs[s], c, x) =>
                    AllFor(jobs'[s], c, x) /\ (IsRead(job, c) => job.sector = x)
    BY <1>4, <1>5, <1>7, CountWithout
  <1>9. /\ Count(jobs'[s], c) \in Nat /\ Count(jobs[s], c) \in Nat
        /\ Count(pending[s], c) \in Nat /\ Count(toPpd[s], c) \in Nat
        /\ Count(fromPpd[s], c) \in Nat /\ One(job, c) \in Nat
    BY <1>7, CountType, CopiesType DEF One
  <1>10. /\ pending'[s] = pending[s] /\ toPpd'[s] = toPpd[s]
         /\ (Replying(s, c)' <=> Replying(s, c))
    BY <1>1, <1>6 DEF Replying
  <1>11. CASE job.op = "put"
    <2>1. fromPpd' = fromPpd /\ ~ IsRead(job, c)
      BY <1>2, <1>3, <1>5, <1>11 DEF Executes, IsRead
    <2>2. QuietOn(s, c)
      <3>1. Passes(jobs[s], jobs'[s], c)
        BY <1>8, <1>9, <2>1 DEF Passes, One
      <3>2. QED
        BY <1>1, <1>6, <2>1, <3>1, PassesSame DEF QuietOn, Replying
    <2>3. \A t \in Storage : QuietOn(t, c)
      BY <1>1, <1>6, <2>1, <2>2, UntouchedOn
    <2>4. QED
      BY <1>1, <2>3, UntouchedOff, AllQuiet
  <1>12. CASE job.op # "put"
    <2>1. PICK m \in Job : m = [job EXCEPT !.value = disk[s][job.sector]]
      <3>1. disk[s][job.sector] \in Value
        BY <1>3, <1>4, <1>5, ElementOfSeq, LenProperties
      <3>2. QED
        BY <3>1 DEF Job
    <2>2. m \in Message /\ (IsRead(m, c) <=> IsRead(job, c)) /\ m.sector = job.sector
      BY <2>1 DEF Job, Message, IsRead
    <2>3. fromPpd' = [fromPpd EXCEPT ![s] = Append(fromPpd[s], m)]
      BY <1>2, <1>3, <1>5, <1>12, <2>1 DEF Executes
    <2>4. /\ fromPpd[s] \in Seq(Message) /\ fromPpd'[s] = Append(fromPpd[s], m)
          /\ \A t \in Storage \ {s} : fromPpd'[t] = fromPpd[t]
      BY <2>3 DEF NetworkTypeOK
    <2>5. Count(fromPpd'[s], c) = Count(fromPpd[s], c) + One(job, c)
          /\ \A x : AllFor(fromPpd'[s], c, x) <=>
                      AllFor(fromPpd[s], c, x) /\ (IsRead(job, c) => job.sector = x)
      <3>1. Count(fromPpd'[s], c) = Count(fromPpd[s], c) + One(m, c)
            /\ \A x : AllFor(fromPpd'[s], c, x) <=>
                        AllFor(fromPpd[s], c, x) /\ (IsRead(m, c) => m.sector = x)
        BY <2>2, <2>4, CountAppend
      <3>2. QED
        BY <2>2, <3>1 DEF One
    <2>6. MatchesOn(s, c)'
      BY <1>1, <1>8, <1>10, <2>5 DEF Answered, MatchesOn, Replying
    <2>7. CopiesOn(s, c)' = CopiesOn(s, c)
      BY <1>8, <1>9, <1>10, <2>5 DEF CopiesOn
    <2>8. QED
      BY <1>1, <1>6, <2>4, <2>6, <2>7, UntouchedOff, UntouchedOn, BalancedAt
  <1>13. QED
    BY <1>11, <1>12

LEMMA NodeAnswers ==
  ASSUME IInv, NEW c \in Socket, Answered(c), NEW s \in Storage, NodeWorks(s),
         UNCHANGED clientVars, deaths' = 0
  PROVE  Answered(c)'
  <1> USE DEF IInv, TypeOK
  <1>1. CASE NodeSyncGet(s) \/ NodeSyncPut(s) \/ NodeSyncEnd(s)
    <2>1. UNCHANGED <<pending, jobs, fromPpd, listener, requests, replies, worker, waiting, dropped>>
      BY <1>1, EndsCounted DEF NodeSyncGet, NodeSyncPut, NodeSyncEnd
    <2>2. PICK op \in {"syncGet", "syncPut", "syncEnd"} : Takes(s, {op})
      BY <1>1, EndsCounted DEF NodeSyncGet, NodeSyncPut, NodeSyncEnd
    <2>3. /\ toPpd[s] \in Seq(Message) /\ toPpd[s] # <<>>
          /\ Head(toPpd[s]) \in Message /\ Head(toPpd[s]).op = op
          /\ toPpd'[s] = Tail(toPpd[s])
          /\ \A t \in Storage \ {s} : toPpd'[t] = toPpd[t]
      BY <2>2, TakesTail
    <2>4. ~ IsRead(Head(toPpd[s]), c)
      BY <2>3 DEF IsRead
    <2>5. \A t \in Storage : Passes(toPpd[t], toPpd'[t], c)
      BY <2>3, <2>4, PassesTail, PassesSame
    <2>6. \A t \in Storage : QuietOn(t, c)
      BY <2>1, <2>5, PassesSame DEF QuietOn, Replying
    <2>7. QED
      BY <2>1, <2>6, UntouchedOff, AllQuiet
  <1>2. CASE NodeStream(s) \/ NodeStreamEnd(s)
    <2>1. UNCHANGED <<pending, jobs, toPpd, listener, requests, replies, worker, waiting, dropped>>
      BY <1>2 DEF NodeStream, NodeStreamEnd
    <2>2. PICK m \in Message : ~ IsRead(m, c)
                  /\ fromPpd' = [fromPpd EXCEPT ![s] = Append(fromPpd[s], m)]
      <3>1. CASE NodeStream(s)
        <4>1. disk[s][stream[s]] \in Value
          BY <3>1, ElementOfSeq, LenProperties DEF NodeStream, NodeTypeOK
        <4>2. QED
          BY <3>1, <4>1, NoReadInSync DEF NodeStream
      <3>2. CASE NodeStreamEnd(s)
        BY <3>2, InitialValues, NoReadInSync DEF NodeStreamEnd
      <3>3. QED
        BY <1>2, <3>1, <3>2
    <2>3. \A t \in Storage : fromPpd[t] \in Seq(Message)
                /\ (fromPpd'[t] = fromPpd[t] \/ fromPpd'[t] = Append(fromPpd[t], m))
      BY <2>2 DEF NetworkTypeOK
    <2>4. \A t \in Storage : Passes(fromPpd[t], fromPpd'[t], c)
      BY <2>2, <2>3, PassesSame, PassesAppend
    <2>5. \A t \in Storage : QuietOn(t, c)
      BY <2>1, <2>4, PassesSame DEF QuietOn, Replying
    <2>6. QED
      BY <2>1, <2>5, UntouchedOff, AllQuiet
  <1>3. CASE NodeUnmap(s)
    BY <1>3, UntouchedOn, UntouchedOff, AllQuiet DEF NodeUnmap
  <1>4. QED
    BY <1>1, <1>2, <1>3, NodeQueueJobAnswers, NodeExecuteAnswers, NodeLosesJobAnswers
       DEF NodeWorks, Node

\* No copy on a storage: none anywhere on it.
LEMMA NoCopies ==
  ASSUME IInv, NEW c \in Socket, NEW s \in Storage, CopiesOn(s, c) = 0
  PROVE  /\ Count(pending[s], c) = 0 /\ Count(toPpd[s], c) = 0
         /\ Count(jobs[s], c) = 0 /\ Count(fromPpd[s], c) = 0 /\ ~ Replying(s, c)
  <1>1. /\ Count(pending[s], c) \in Nat /\ Count(toPpd[s], c) \in Nat
        /\ Count(jobs[s], c) \in Nat /\ Count(fromPpd[s], c) \in Nat
    BY CopiesType
  <1>2. (IF Replying(s, c) THEN 1 ELSE 0) \in Nat
    OBVIOUS
  <1>3. \A i, j, k, m, n \in Nat :
           i + j + k + m + n = 0 => i = 0 /\ j = 0 /\ k = 0 /\ m = 0 /\ n = 0
    OBVIOUS
  <1>4. /\ Count(pending[s], c) = 0 /\ Count(toPpd[s], c) = 0
        /\ Count(jobs[s], c) = 0 /\ Count(fromPpd[s], c) = 0
        /\ (IF Replying(s, c) THEN 1 ELSE 0) = 0
    <2>1. Count(pending[s], c) + Count(toPpd[s], c) + Count(jobs[s], c)
             + Count(fromPpd[s], c) + (IF Replying(s, c) THEN 1 ELSE 0) = 0
      BY Zenon DEF CopiesOn
    <2>2. QED
      BY <1>1, <1>2, <1>3, <2>1
  <1>5. QED
    BY <1>4

\* A read is issued only on a connection that is owed no answer.
LEMMA ClientGetAnswers ==
  ASSUME IInv, NEW c \in Socket, Answered(c), NEW x \in Sector, ClientGet(c, x)
  PROVE  Answered(c)'
  <1> USE DEF IInv, TypeOK
  <1>1. /\ UNCHANGED <<pending, toPpd, jobs, fromPpd, listener, replies, worker>>
        /\ waiting[c] = 0 /\ waiting'[c] = x /\ x # 0
    BY DEF ClientGet, ClientTypeOK, Sector
  <1>2. PICK m \in Job : /\ m = [op |-> "get", socket |-> c, sector |-> x, value |-> 0]
                         /\ requests'[c] = Append(requests[c], m)
    <2>1. [op |-> "get", socket |-> c, sector |-> x, value |-> 0] \in Job
      BY InitialValues DEF Job
    <2>2. QED
      BY <2>1 DEF ClientGet, NetworkTypeOK
  <1>3. IsRead(m, c) /\ m.sector = x
    BY <1>2 DEF IsRead
  <1>4. CopiesOff(c) = 0 /\ \A s \in Storage : CopiesOn(s, c) = 0
    BY <1>1 DEF Answered, OneAnswer, NoneOn
  <1>5. Count(requests[c], c) = 0 /\ Len(replies[c]) = 0 /\ ~ Reading(c)
    BY <1>4, CopiesType DEF CopiesOff, Reading
  <1>6. ASSUME NEW s \in Storage
        PROVE  /\ Count(pending[s], c) = 0 /\ Count(toPpd[s], c) = 0
               /\ Count(jobs[s], c) = 0 /\ Count(fromPpd[s], c) = 0 /\ ~ Replying(s, c)
    BY <1>4, NoCopies
  <1>7. requests[c] \in Seq(Job) /\ replies[c] \in Seq(Message)
    BY DEF NetworkTypeOK
  <1>8. Count(requests'[c], c) = 1 /\ AllFor(requests'[c], c, x)
    <2>1. Count(requests'[c], c) = Count(requests[c], c) + One(m, c)
          /\ \A y : AllFor(requests'[c], c, y) <=>
                      AllFor(requests[c], c, y) /\ (IsRead(m, c) => m.sector = y)
      BY <1>2, <1>7, CountAppend
    <2>2. AllFor(requests[c], c, x)
      BY <1>5, <1>7, CountZero
    <2>3. QED
      BY <1>3, <1>5, <2>1, <2>2 DEF One
  <1>9. CopiesOff(c)' = 1
    BY <1>1, <1>5, <1>8 DEF CopiesOff, Reading
  <1>10. MatchesOff(c)'
    <2>1. DOMAIN replies'[c] = {}
      BY <1>1, <1>5, <1>7, LenProperties
    <2>2. QED
      BY <1>1, <1>5, <1>8, <2>1 DEF MatchesOff, Reading
  <1>11. ASSUME NEW s \in Storage
         PROVE  CopiesOn(s, c)' = 0 /\ MatchesOn(s, c)'
    <2>1. /\ pending[s] \in Seq(Job) /\ toPpd[s] \in Seq(Message)
          /\ jobs[s] \in Seq(Job) /\ fromPpd[s] \in Seq(Message)
      BY DEF StorageTypeOK, NetworkTypeOK, NodeTypeOK
    <2>2. /\ AllFor(pending[s], c, x) /\ AllFor(toPpd[s], c, x)
          /\ AllFor(jobs[s], c, x) /\ AllFor(fromPpd[s], c, x)
      <3>1. AllFor(pending[s], c, x)
        BY <1>6, <2>1, CountZero
      <3>2. AllFor(toPpd[s], c, x)
        BY <1>6, <2>1, CountZero
      <3>3. AllFor(jobs[s], c, x)
        BY <1>6, <2>1, CountZero
      <3>4. AllFor(fromPpd[s], c, x)
        BY <1>6, <2>1, CountZero
      <3>5. QED
        BY <3>1, <3>2, <3>3, <3>4
    <2>3. /\ pending'[s] = pending[s] /\ toPpd'[s] = toPpd[s] /\ jobs'[s] = jobs[s]
          /\ fromPpd'[s] = fromPpd[s] /\ listener'[s] = listener[s]
      BY <1>1, <1>6 DEF ClientGet
    <2>4. ~ Replying(s, c)'
      BY <1>6, <2>3 DEF Replying
    <2>5. CopiesOn(s, c)' = 0
      BY <1>6, <2>3, <2>4 DEF CopiesOn
    <2>6. MatchesOn(s, c)'
      BY <1>1, <2>2, <2>3, <2>4 DEF MatchesOn
    <2>7. QED
      BY <2>5, <2>6
  <1>12. QED
    BY <1>1, <1>9, <1>10, <1>11 DEF Answered, OneAnswer, NoneOn

\* The answer that is taken was the only one owed.
LEMMA ClientReceiveAnswers ==
  ASSUME IInv, NEW c \in Socket, Answered(c), ClientReceive(c)
  PROVE  Answered(c)'
  <1> USE DEF IInv, TypeOK
  <1>1. /\ UNCHANGED <<pending, toPpd, jobs, fromPpd, listener, requests, worker>>
        /\ waiting[c] # 0 /\ waiting'[c] = 0
        /\ replies[c] \in Seq(Message) /\ replies[c] # <<>> /\ replies'[c] = Tail(replies[c])
    BY DEF ClientReceive, ClientTypeOK, NetworkTypeOK
  <1>2. Len(replies[c]) >= 1 /\ Len(replies[c]) \in Nat
        /\ Len(replies'[c]) = Len(replies[c]) - 1
    BY <1>1, TailWithout DEF Without
  <1>3. CopiesOff(c) >= 1
    BY <1>2, CopiesType DEF CopiesOff
  <1>4. CopiesOff(c) = 1 /\ \A s \in Storage : CopiesOn(s, c) = 0
    BY <1>1, <1>3 DEF Answered, OneAnswer, NoneOn
  <1>5. Count(requests[c], c) = 0 /\ Len(replies[c]) = 1 /\ ~ Reading(c)
    <2>1. Count(requests[c], c) \in Nat
      BY CopiesType
    <2>2. CopiesOff(c) = 1 /\ Len(replies[c]) >= 1 /\ Len(replies[c]) \in Nat
      BY <1>2, <1>4
    <2>3. (IF Reading(c) THEN 1 ELSE 0) \in Nat
      OBVIOUS
    <2>4. \A i, j, k \in Nat : i + j + k = 1 /\ j >= 1 => i = 0 /\ j = 1 /\ k = 0
      OBVIOUS
    <2>5. Count(requests[c], c) + Len(replies[c]) + (IF Reading(c) THEN 1 ELSE 0) = 1
      BY <2>2 DEF CopiesOff, Reading
    <2>6. Count(requests[c], c) = 0 /\ Len(replies[c]) = 1 /\ (IF Reading(c) THEN 1 ELSE 0) = 0
      BY <2>1, <2>2, <2>3, <2>4, <2>5
    <2>7. QED
      BY <2>6
  <1>6. CopiesOff(c)' = 0
    BY <1>1, <1>2, <1>5 DEF CopiesOff, Reading
  <1>7. MatchesOff(c)'
    <2>1. requests[c] \in Seq(Job) /\ requests'[c] = requests[c]
      BY <1>1 DEF NetworkTypeOK
    <2>2. AllFor(requests'[c], c, 0)
      BY <1>5, <2>1, CountZero
    <2>3. DOMAIN replies'[c] = {}
      <3>1. Len(replies'[c]) = 0
        BY <1>2, <1>5
      <3>2. replies'[c] \in Seq(Message)
        BY <1>1, TailWithout
      <3>3. QED
        BY <3>1, <3>2, LenProperties
    <2>4. QED
      BY <1>1, <1>5, <2>2, <2>3 DEF MatchesOff, Reading
  <1>8. ASSUME NEW s \in Storage
        PROVE  CopiesOn(s, c)' = 0 /\ MatchesOn(s, c)'
    <2>1. /\ pending[s] \in Seq(Job) /\ toPpd[s] \in Seq(Message)
          /\ jobs[s] \in Seq(Job) /\ fromPpd[s] \in Seq(Message)
      BY DEF StorageTypeOK, NetworkTypeOK, NodeTypeOK
    <2>2. /\ pending'[s] = pending[s] /\ toPpd'[s] = toPpd[s] /\ jobs'[s] = jobs[s]
          /\ fromPpd'[s] = fromPpd[s] /\ listener'[s] = listener[s]
      BY <1>1 DEF ClientReceive
    <2>3. CopiesOn(s, c)' = CopiesOn(s, c)
      BY <2>2 DEF CopiesOn, Replying
    <2>4. /\ Count(pending[s], c) = 0 /\ Count(toPpd[s], c) = 0
          /\ Count(jobs[s], c) = 0 /\ Count(fromPpd[s], c) = 0 /\ ~ Replying(s, c)
      BY <1>4, NoCopies
    <2>5. AllFor(pending[s], c, 0)
      BY <2>1, <2>4, CountZero
    <2>6. AllFor(toPpd[s], c, 0)
      BY <2>1, <2>4, CountZero
    <2>7. AllFor(jobs[s], c, 0)
      BY <2>1, <2>4, CountZero
    <2>8. AllFor(fromPpd[s], c, 0)
      BY <2>1, <2>4, CountZero
    <2>9. ~ Replying(s, c)'
      BY <2>2, <2>4 DEF Replying
    <2>10. MatchesOn(s, c)'
      BY <1>1, <2>2, <2>5, <2>6, <2>7, <2>8, <2>9 DEF MatchesOn
    <2>11. QED
      BY <1>4, <2>3, <2>10
  <1>9. QED
    BY <1>1, <1>6, <1>7, <1>8 DEF Answered, OneAnswer, NoneOn

LEMMA ClientAnswers ==
  ASSUME IInv, NEW c \in Socket, Answered(c), ClientStep
  PROVE  Answered(c)'
  <1> USE DEF IInv, TypeOK
  <1>1. UNCHANGED <<pending, toPpd, jobs, fromPpd, listener, worker, dropped>>
    BY DEF ClientStep, ClientGet, ClientPut, ClientReceive
  <1>2. \A t \in Storage : QuietOn(t, c)
    BY <1>1, UntouchedOn
  <1>3. ASSUME NEW d \in Socket, NEW x \in Sector, ClientGet(d, x), d # c
        PROVE  Answered(c)'
    <2>1. requests'[c] = requests[c] /\ waiting'[c] = waiting[c] /\ replies'[c] = replies[c]
      BY <1>3 DEF ClientGet, NetworkTypeOK, ClientTypeOK
    <2>2. QuietOff(c)
      BY <1>1, <2>1, PassesSame DEF QuietOff, Reading
    <2>3. QED
      BY <1>1, <1>2, <2>2, AllQuiet
  <1>4. ASSUME NEW d \in Socket, ClientReceive(d), d # c
        PROVE  Answered(c)'
    <2>1. requests'[c] = requests[c] /\ waiting'[c] = waiting[c] /\ replies'[c] = replies[c]
      BY <1>4 DEF ClientReceive, NetworkTypeOK, ClientTypeOK
    <2>2. QuietOff(c)
      BY <1>1, <2>1, PassesSame DEF QuietOff, Reading
    <2>3. QED
      BY <1>1, <1>2, <2>2, AllQuiet
  <1>5. ASSUME NEW d \in Socket, NEW x \in Sector, ClientPut(d, x)
        PROVE  Answered(c)'
    <2>1. PICK m \in Job : ~ IsRead(m, c)
                /\ requests' = [requests EXCEPT ![d] = Append(@, m)]
      <3>1. [op |-> "put", socket |-> d, sector |-> x, value |-> puts + 1] \in Job
        BY <1>5, PraidAssumption DEF Job, Value, Stale, ClientTypeOK, ClientPut
      <3>2. QED
        BY <1>5, <3>1 DEF ClientPut, IsRead
    <2>2. requests[c] \in Seq(Job)
          /\ (requests'[c] = requests[c] \/ requests'[c] = Append(requests[c], m))
      BY <2>1 DEF NetworkTypeOK
    <2>3. Passes(requests[c], requests'[c], c)
      BY <2>1, <2>2, PassesSame, PassesAppend
    <2>4. QuietOff(c)
      BY <1>1, <1>5, <2>3 DEF QuietOff, Reading, ClientPut
    <2>5. QED
      BY <1>1, <1>2, <2>4, AllQuiet
  <1>6. QED
    BY <1>3, <1>4, <1>5, ClientGetAnswers, ClientReceiveAnswers DEF ClientStep

LEMMA ReadStep ==
  ASSUME IInv, JobsInHand, StreamInv, ReadInv, [Next]_vars
  PROVE  ReadInv'
  <1> SUFFICES ASSUME deaths' = 0, NEW c \in Socket
               PROVE  Answered(c)'
    BY DEF ReadInv
  <1>1. NobodyEnded /\ Answered(c) /\ ~ \E s \in Storage : NodeDies(s)
    BY EndsStay DEF IInv, TypeOK, StreamInv, ReadInv
  <1>2. CASE UNCHANGED vars
    BY <1>1, <1>2, UntouchedOn, UntouchedOff, AllQuiet DEF vars
  <1>3. CASE up /\ PraidStep
    BY <1>1, <1>3, AcceptorAnswers, WorkerAnswers, SenderAnswers, ListenerAnswers DEF PraidStep
  <1>4. CASE NodeStep
    BY <1>1, <1>4, NodeAnswers DEF NodeStep, NodeWorks
  <1>5. CASE ClientStep
    BY <1>1, <1>5, ClientAnswers
  <1>6. QED
    BY <1>2, <1>3, <1>4, <1>5 DEF Next

LEMMA ReadInit == Init => ReadInv
  <1> SUFFICES ASSUME Init, NEW c \in Socket PROVE Answered(c)
    BY DEF ReadInv
  <1> USE DEF Init, InitPraid, InitNode, InitClient
  <1>1. requests[c] = <<>> /\ replies[c] = <<>> /\ ~ Reading(c) /\ waiting[c] = 0
    BY DEF Reading, WorkerAt
  <1>2. \A s \in Storage : /\ pending[s] = <<>> /\ toPpd[s] = <<>> /\ jobs[s] = <<>>
                           /\ fromPpd[s] = <<>> /\ ~ Replying(s, c)
    BY DEF Replying, ListenerAt
  <1>3. Len(<<>>) = 0 /\ DOMAIN <<>> = {}
    OBVIOUS
  <1>4. CopiesOff(c) = 0 /\ MatchesOff(c)
    BY <1>1, <1>3, CountEmpty DEF CopiesOff, MatchesOff, Reading, AllFor
  <1>5. \A s \in Storage : CopiesOn(s, c) = 0 /\ MatchesOn(s, c)
    BY <1>2, CountEmpty DEF CopiesOn, MatchesOn, AllFor
  <1>6. QED
    BY <1>1, <1>4, <1>5 DEF Answered, OneAnswer, NoneOn

-----------------------------------------------------------------------------
\* While no PPD has ended, each connection that waits for a read has one copy of
\* it in the system, for the sector it asked for, and an idle one has none; the
\* list of jobs of a PPD may have lost that copy (commons_list_addNode).
THEOREM RaidReads == Spec => [](JobsInHand /\ ReadInv)
  <1>1. Init => JobsInHand /\ ReadInv
    BY HoldsInit, ReadInit
  <1>2. /\ IInv /\ StreamInv /\ JobsInHand /\ ReadInv
        /\ [Next]_vars
        => (JobsInHand /\ ReadInv)'
    BY HoldsStep, ReadStep
  <1>3. QED
    BY <1>1, <1>2, RaidInvariant, RaidStreams, PTL DEF Spec

\* While no PPD has ended no interleaving of the PFS threads, the balancer, the
\* senders, the listeners and the PPDs doubles the answer to a read, or drops one
\* but in the list of jobs of a PPD, however many wait there.
THEOREM RaidOneAnswerPerRead == Spec => []OneAnswerPerRead
  <1>1. ReadInv => OneAnswerPerRead
    BY DEF ReadInv, Answered, OneAnswerPerRead
  <1>2. QED
    BY <1>1, RaidReads, PTL

\* While no PPD has ended the message a connection takes for its answer is the
\* answer to the sector it asked for.
THEOREM RaidAnswersMatch == Spec => []AnswersMatch
  <1>1. ReadInv => AnswersMatch
    BY DEF ReadInv, Answered, MatchesOff, AnswersMatch
  <1>2. QED
    BY <1>1, RaidReads, PTL

-----------------------------------------------------------------------------
(* Whatever PPDs end, and whenever, a read that is not answered stays in     *)
(* reach of the hand-over but in the two known ways.  What makes it so is a  *)
(* count: praid_ppd_thread_listener forgets the FIRST sent job of the sector *)
(* of an answer, which need not be the job that was answered.                *)

\* What a PPD executes.
AllOps == {"get", "put"}
Gets == {"get"}

\* The reads of a sector in a queue; a read of c behind n others of its sector;
\* a read of c in a log behind at least n jobs of its sector.
GetsIn(q, x) == Num(q, Gets, x, Len(q))
ReadAt(q, c, x, n) ==
    \E i \in DOMAIN q : IsRead(q[i], c) /\ q[i].sector = x /\ Num(q, Gets, x, i - 1) = n
Covered(q, c, x, n) ==
    \E k \in DOMAIN q : IsRead(q[k], c) /\ q[k].sector = x /\ n <= Num(q, AllOps, x, k - 1)

-----------------------------------------------------------------------------
(* The reads of a connection and those ahead of them.                       *)

\* A read of c for sector y, and a queue that has one.
IsOf(m, c, y) == IsRead(m, c) /\ m.sector = y
Of(q, c, y) == \E i \in DOMAIN q : IsOf(q[i], c, y)

LEMMA NoneOf == \A c, y : ~ Of(<<>>, c, y)
  <1>1. DOMAIN <<>> = {}
    OBVIOUS
  <1>2. QED
    BY <1>1 DEF Of

LEMMA ReadAtOf ==
  ASSUME NEW T, NEW q \in Seq(T), NEW c, NEW y
  PROVE  Of(q, c, y) <=> \E n \in Nat : ReadAt(q, c, y, n)
  <1>1. ASSUME NEW i \in DOMAIN q, IsOf(q[i], c, y)
        PROVE  \E n \in Nat : ReadAt(q, c, y, n)
    <2>1. i - 1 \in Int
      BY LenProperties
    <2>2. Num(q, Gets, y, i - 1) \in Nat
      BY <2>1, NumType
    <2>3. ReadAt(q, c, y, Num(q, Gets, y, i - 1))
      BY <1>1 DEF ReadAt, IsOf
    <2>4. QED
      BY <2>2, <2>3
  <1>2. QED
    BY <1>1 DEF Of, IsOf, ReadAt

LEMMA ReadAtAppend ==
  ASSUME NEW T, NEW q \in Seq(T), NEW m \in T
  PROVE  /\ \A x : GetsIn(Append(q, m), x) = GetsIn(q, x) + Hit(m, Gets, x)
         /\ \A c, x, n : ReadAt(Append(q, m), c, x, n) =>
                            \/ ReadAt(q, c, x, n)
                            \/ IsRead(m, c) /\ m.sector = x /\ n = GetsIn(q, x)
         /\ \A c, y : Of(Append(q, m), c, y) <=> Of(q, c, y) \/ IsOf(m, c, y)
  <1>1. /\ Append(q, m) \in Seq(T) /\ Len(Append(q, m)) = Len(q) + 1 /\ Len(q) \in Nat
        /\ Append(q, m)[Len(q) + 1] = m
    BY AppendWithout
  <1>2. /\ DOMAIN q = 1 .. Len(q)
        /\ DOMAIN Append(q, m) = DOMAIN q \cup {Len(q) + 1}
        /\ \A i \in DOMAIN q : Append(q, m)[i] = q[i]
    BY AppendAt, LenProperties
  <1>3. \A x : GetsIn(Append(q, m), x) = GetsIn(q, x) + Hit(m, Gets, x)
    BY <1>1, NumAppend DEF GetsIn
  <1>4. ASSUME NEW c, NEW x, NEW n, ReadAt(Append(q, m), c, x, n)
        PROVE  \/ ReadAt(q, c, x, n)
               \/ IsRead(m, c) /\ m.sector = x /\ n = GetsIn(q, x)
    <2>1. PICK i \in DOMAIN Append(q, m) :
             /\ IsRead(Append(q, m)[i], c) /\ Append(q, m)[i].sector = x
             /\ Num(Append(q, m), Gets, x, i - 1) = n
      BY <1>4 DEF ReadAt
    <2>2. i - 1 \in 0 .. Len(q)
      BY <1>1, <1>2
    <2>3. Num(q, Gets, x, i - 1) = n
      <3>1. \A p \in 0 .. Len(q) : Num(Append(q, m), Gets, x, p) = Num(q, Gets, x, p)
        BY NumAppend
      <3>2. QED
        BY <2>1, <2>2, <3>1
    <2>4. CASE i \in DOMAIN q
      BY <1>2, <2>1, <2>3, <2>4 DEF ReadAt
    <2>5. CASE i = Len(q) + 1
      <3>1. i - 1 = Len(q)
        BY <1>1, <2>5
      <3>2. QED
        BY <1>1, <2>1, <2>3, <2>5, <3>1 DEF GetsIn
    <2>6. QED
      BY <1>2, <2>4, <2>5
  <1>5. \A c, y : Of(Append(q, m), c, y) <=> Of(q, c, y) \/ IsOf(m, c, y)
    BY <1>1, <1>2 DEF Of
  <1>6. QED
    BY <1>3, <1>4, <1>5

\* The element that leaves has nothing of its sector ahead of it.
LEMMA ReadAtWithout ==
  ASSUME NEW T, NEW q \in Seq(T), NEW r \in Seq(T), NEW i, Without(q, r, i),
         \A j \in 1 .. i - 1 : q[j].sector # q[i].sector
  PROVE  /\ \A x : GetsIn(q, x) = GetsIn(r, x) + Hit(q[i], Gets, x)
         /\ \A c, x : \A n \in Nat :
               ReadAt(r, c, x, n) => ReadAt(q, c, x, n + Hit(q[i], Gets, x))
         /\ \A c : IsRead(q[i], c) => ReadAt(q, c, q[i].sector, 0)
         /\ \A c, y : Of(q, c, y) => Of(r, c, y) \/ IsOf(q[i], c, y)
  <1>1. /\ Len(q) \in Nat /\ i \in 1 .. Len(q) /\ DOMAIN q = 1 .. Len(q)
        /\ Len(r) = Len(q) - 1 /\ DOMAIN r = 1 .. Len(q) - 1
        /\ \A j \in DOMAIN r : r[j] = IF j < i THEN q[j] ELSE q[j + 1]
    BY LenProperties DEF Without
  <1>2. \A x : GetsIn(q, x) = GetsIn(r, x) + Hit(q[i], Gets, x)
    <2>1. Len(q) \in i .. Len(q) /\ Len(q) - 1 = Len(r)
      BY <1>1
    <2>2. QED
      BY <2>1, NumWithout DEF GetsIn
  <1>3. ASSUME NEW c, NEW x, NEW n \in Nat, ReadAt(r, c, x, n)
        PROVE  ReadAt(q, c, x, n + Hit(q[i], Gets, x))
    <2>1. PICK j \in DOMAIN r :
             IsRead(r[j], c) /\ r[j].sector = x /\ Num(r, Gets, x, j - 1) = n
      BY <1>3 DEF ReadAt
    <2>2. CASE j < i
      <3>1. j \in DOMAIN q /\ r[j] = q[j] /\ j \in 1 .. i - 1 /\ j - 1 \in 0 .. i - 1
        BY <1>1, <2>2
      <3>2. Num(q, Gets, x, j - 1) = n
        BY <2>1, <3>1, NumWithout
      <3>3. Hit(q[i], Gets, x) = 0
        BY <2>1, <3>1 DEF Hit
      <3>4. QED
        BY <2>1, <3>1, <3>2, <3>3 DEF ReadAt
    <2>3. CASE ~ (j < i)
      <3>1. j + 1 \in DOMAIN q /\ r[j] = q[j + 1] /\ j \in i .. Len(q) /\ (j + 1) - 1 = j
        BY <1>1, <2>3
      <3>2. Num(q, Gets, x, j) = n + Hit(q[i], Gets, x)
        BY <2>1, <3>1, NumWithout
      <3>3. QED
        BY <2>1, <3>1, <3>2 DEF ReadAt
    <2>4. QED
      BY <2>2, <2>3
  <1>4. \A c : IsRead(q[i], c) => ReadAt(q, c, q[i].sector, 0)
    <2>1. i - 1 \in Int
      BY <1>1
    <2>2. Num(q, Gets, q[i].sector, i - 1) = 0
      BY <2>1, NumZero
    <2>3. QED
      BY <1>1, <2>2 DEF ReadAt
  <1>5. ASSUME NEW c, NEW y, Of(q, c, y), ~ IsOf(q[i], c, y)
        PROVE  Of(r, c, y)
    <2>1. PICK j \in DOMAIN q : IsOf(q[j], c, y)
      BY <1>5 DEF Of
    <2>2. CASE j < i
      BY <1>1, <2>1, <2>2 DEF Of
    <2>3. CASE j > i
      <3>1. j - 1 \in DOMAIN r /\ ~ (j - 1 < i) /\ (j - 1) + 1 = j
        BY <1>1, <2>3
      <3>2. r[j - 1] = q[j]
        BY <1>1, <3>1
      <3>3. QED
        BY <2>1, <3>1, <3>2 DEF Of
    <2>4. QED
      BY <1>1, <1>5, <2>1, <2>2, <2>3
  <1>6. QED
    BY <1>2, <1>3, <1>4, <1>5

\* To the reads of other sectors it does not matter where the element was.
LEMMA OtherSectors ==
  ASSUME NEW T, NEW q \in Seq(T), NEW r \in Seq(T), NEW i, Without(q, r, i)
  PROVE  /\ \A x : GetsIn(q, x) = GetsIn(r, x) + Hit(q[i], Gets, x)
         /\ \A c, y : Of(q, c, y) <=> Of(r, c, y) \/ IsOf(q[i], c, y)
         /\ \A c, x, n : x # q[i].sector => (ReadAt(q, c, x, n) <=> ReadAt(r, c, x, n))
  <1>1. /\ Len(q) \in Nat /\ i \in 1 .. Len(q) /\ DOMAIN q = 1 .. Len(q)
        /\ Len(r) = Len(q) - 1 /\ DOMAIN r = 1 .. Len(q) - 1
        /\ \A j \in DOMAIN r : r[j] = IF j < i THEN q[j] ELSE q[j + 1]
    BY LenProperties DEF Without
  <1>2. \A x : GetsIn(q, x) = GetsIn(r, x) + Hit(q[i], Gets, x)
    <2>1. Len(q) \in i .. Len(q) /\ Len(q) - 1 = Len(r)
      BY <1>1
    <2>2. QED
      BY <2>1, NumWithout DEF GetsIn
  <1>3. \A j \in DOMAIN q :
           \/ j = i
           \/ j \in DOMAIN r /\ j \in 1 .. i - 1 /\ r[j] = q[j]
           \/ j - 1 \in DOMAIN r /\ j - 1 \in i .. Len(q) /\ r[j - 1] = q[j]
    <2> SUFFICES ASSUME NEW j \in DOMAIN q, j # i
                 PROVE  \/ j \in DOMAIN r /\ j \in 1 .. i - 1 /\ r[j] = q[j]
                        \/ j - 1 \in DOMAIN r /\ j - 1 \in i .. Len(q) /\ r[j - 1] = q[j]
      OBVIOUS
    <2>1. CASE j < i
      BY <1>1, <2>1
    <2>2. CASE j > i
      <3>1. j - 1 \in DOMAIN r /\ ~ (j - 1 < i) /\ (j - 1) + 1 = j /\ j - 1 \in i .. Len(q)
        BY <1>1, <2>2
      <3>2. QED
        BY <1>1, <3>1
    <2>3. QED
      BY <1>1, <2>1, <2>2
  <1>4. \A j \in DOMAIN r :
           \/ j \in DOMAIN q /\ j \in 1 .. i - 1 /\ r[j] = q[j]
           \/ j + 1 \in DOMAIN q /\ j \in i .. Len(q) /\ r[j] = q[j + 1]
    BY <1>1
  <1>5. \A c, y : Of(q, c, y) <=> Of(r, c, y) \/ IsOf(q[i], c, y)
    BY <1>1, <1>3, <1>4 DEF Of
  <1>6. ASSUME NEW c, NEW x, NEW n, x # q[i].sector, ReadAt(q, c, x, n)
        PROVE  ReadAt(r, c, x, n)
    <2>1. PICK j \in DOMAIN q :
             IsRead(q[j], c) /\ q[j].sector = x /\ Num(q, Gets, x, j - 1) = n
      BY <1>6 DEF ReadAt
    <2>2. CASE j \in DOMAIN r /\ j \in 1 .. i - 1 /\ r[j] = q[j]
      <3>1. j - 1 \in 0 .. i - 1
        BY <1>1, <2>2
      <3>2. Num(r, Gets, x, j - 1) = n
        BY <2>1, <3>1, NumWithout
      <3>3. QED
        BY <2>1, <2>2, <3>2 DEF ReadAt
    <2>3. CASE j - 1 \in DOMAIN r /\ j - 1 \in i .. Len(q) /\ r[j - 1] = q[j]
      <3>1. Hit(q[i], Gets, x) = 0
        BY <1>6 DEF Hit
      <3>2. Num(q, Gets, x, j - 1) = Num(r, Gets, x, (j - 1) - 1) + Hit(q[i], Gets, x)
        BY <2>3, NumWithout
      <3>3. (j - 1) - 1 \in Int
        BY <1>1, <2>3
      <3>4. Num(r, Gets, x, (j - 1) - 1) \in Nat
        BY <3>3, NumType
      <3>5. Num(r, Gets, x, (j - 1) - 1) = n
        BY <2>1, <3>1, <3>2, <3>4
      <3>6. QED
        BY <2>1, <2>3, <3>5 DEF ReadAt
    <2>4. QED
      BY <1>3, <1>6, <2>1, <2>2, <2>3
  <1>7. ASSUME NEW c, NEW x, NEW n, x # q[i].sector, ReadAt(r, c, x, n)
        PROVE  ReadAt(q, c, x, n)
    <2>1. PICK j \in DOMAIN r :
             IsRead(r[j], c) /\ r[j].sector = x /\ Num(r, Gets, x, j - 1) = n
      BY <1>7 DEF ReadAt
    <2>2. CASE j \in DOMAIN q /\ j \in 1 .. i - 1 /\ r[j] = q[j]
      <3>1. j - 1 \in 0 .. i - 1
        BY <1>1, <2>2
      <3>2. Num(q, Gets, x, j - 1) = n
        BY <2>1, <3>1, NumWithout
      <3>3. QED
        BY <2>1, <2>2, <3>2 DEF ReadAt
    <2>3. CASE j + 1 \in DOMAIN q /\ j \in i .. Len(q) /\ r[j] = q[j + 1]
      <3>1. Hit(q[i], Gets, x) = 0
        BY <1>7 DEF Hit
      <3>2. Num(q, Gets, x, j) = Num(r, Gets, x, j - 1) + Hit(q[i], Gets, x)
        BY <2>3, NumWithout
      <3>3. j - 1 \in Int /\ (j + 1) - 1 = j
        BY <1>1, <2>3
      <3>4. Num(r, Gets, x, j - 1) \in Nat
        BY <3>3, NumType
      <3>5. Num(q, Gets, x, (j + 1) - 1) = n
        BY <2>1, <3>1, <3>2, <3>3, <3>4
      <3>6. QED
        BY <2>1, <2>3, <3>5 DEF ReadAt
    <2>4. QED
      BY <1>4, <2>1, <2>2, <2>3
  <1>8. QED
    BY <1>2, <1>5, <1>6, <1>7

LEMMA ReadAtTail ==
  ASSUME NEW T, NEW q \in Seq(T), q # <<>>
  PROVE  /\ \A x : GetsIn(q, x) = GetsIn(Tail(q), x) + Hit(Head(q), Gets, x)
         /\ \A c, x : \A n \in Nat :
               ReadAt(Tail(q), c, x, n) => ReadAt(q, c, x, n + Hit(Head(q), Gets, x))
         /\ \A c : IsRead(Head(q), c) => ReadAt(q, c, Head(q).sector, 0)
         /\ \A c, y : Of(q, c, y) => Of(Tail(q), c, y) \/ IsOf(Head(q), c, y)
  <1>1. Without(q, Tail(q), 1) /\ Tail(q) \in Seq(T) /\ Head(q) = q[1]
    BY TailWithout
  <1>2. \A j \in 1 .. 1 - 1 : q[j].sector # q[1].sector
    OBVIOUS
  <1>3. /\ \A x : GetsIn(q, x) = GetsIn(Tail(q), x) + Hit(q[1], Gets, x)
        /\ \A c, x : \A n \in Nat :
              ReadAt(Tail(q), c, x, n) => ReadAt(q, c, x, n + Hit(q[1], Gets, x))
        /\ \A c : IsRead(q[1], c) => ReadAt(q, c, q[1].sector, 0)
        /\ \A c, y : Of(q, c, y) => Of(Tail(q), c, y) \/ IsOf(q[1], c, y)
    BY <1>1, <1>2, ReadAtWithout
  <1>4. QED
    BY <1>1, <1>3

-----------------------------------------------------------------------------
(* The log of what was sent.                                                *)

LEMMA CoveredLess ==
  ASSUME NEW T, NEW q \in Seq(T), NEW c, NEW x, NEW n \in Nat, Covered(q, c, x, n),
         NEW m \in Nat, m <= n
  PROVE  Covered(q, c, x, m)
  <1>1. PICK k \in DOMAIN q :
           IsRead(q[k], c) /\ q[k].sector = x /\ n <= Num(q, AllOps, x, k - 1)
    BY DEF Covered
  <1>2. k - 1 \in Int
    BY LenProperties
  <1>3. Num(q, AllOps, x, k - 1) \in Nat
    BY <1>2, NumType
  <1>4. m <= Num(q, AllOps, x, k - 1)
    BY <1>1, <1>3
  <1>5. QED
    BY <1>1, <1>4 DEF Covered

LEMMA CoveredAppend ==
  ASSUME NEW T, NEW q \in Seq(T), NEW m \in T, NEW c, NEW x, NEW n \in Nat,
         \/ Covered(q, c, x, n)
         \/ IsRead(m, c) /\ m.sector = x /\ n <= Num(q, AllOps, x, Len(q))
  PROVE  Covered(Append(q, m), c, x, n)
  <1>0. \A p \in 0 .. Len(q) : Num(Append(q, m), AllOps, x, p) = Num(q, AllOps, x, p)
    BY NumAppendBelow
  <1>1. /\ Len(q) \in Nat /\ DOMAIN q = 1 .. Len(q)
        /\ DOMAIN Append(q, m) = DOMAIN q \cup {Len(q) + 1}
        /\ \A i \in DOMAIN q : Append(q, m)[i] = q[i]
        /\ Append(q, m)[Len(q) + 1] = m
    BY AppendAt, LenProperties
  <1>2. CASE Covered(q, c, x, n)
    <2>1. PICK k \in DOMAIN q :
             IsRead(q[k], c) /\ q[k].sector = x /\ n <= Num(q, AllOps, x, k - 1)
      BY <1>2 DEF Covered
    <2>2. k - 1 \in 0 .. Len(q)
      BY <1>1
    <2>3. Num(Append(q, m), AllOps, x, k - 1) = Num(q, AllOps, x, k - 1)
      BY <1>0, <2>2
    <2>4. QED
      BY <1>1, <2>1, <2>3 DEF Covered
  <1>3. CASE IsRead(m, c) /\ m.sector = x /\ n <= Num(q, AllOps, x, Len(q))
    <2>1. Len(q) \in 0 .. Len(q) /\ (Len(q) + 1) - 1 = Len(q)
      BY <1>1
    <2>2. Num(Append(q, m), AllOps, x, Len(q)) = Num(q, AllOps, x, Len(q))
      BY <2>1, NumAppend
    <2>3. QED
      BY <1>1, <1>3, <2>1, <2>2 DEF Covered
  <1>4. QED
    BY <1>2, <1>3

\* The first job of a sector goes: what is behind it is behind one job less.
LEMMA CoveredWithout ==
  ASSUME NEW q \in Seq(Job), NEW r \in Seq(Job), NEW i, Without(q, r, i),
         \A j \in 1 .. i - 1 : q[j].sector # q[i].sector,
         NEW c, NEW x, NEW n \in Nat,
         Covered(q, c, x, IF x = q[i].sector THEN n + 1 ELSE n)
  PROVE  Covered(r, c, x, n)
  <1>1. /\ Len(q) \in Nat /\ i \in 1 .. Len(q) /\ DOMAIN q = 1 .. Len(q)
        /\ Len(r) = Len(q) - 1 /\ DOMAIN r = 1 .. Len(q) - 1
        /\ \A j \in DOMAIN r : r[j] = IF j < i THEN q[j] ELSE q[j + 1]
    BY LenProperties DEF Without
  <1> DEFINE one == IF x = q[i].sector THEN 1 ELSE 0
  <1>2. PICK k \in DOMAIN q :
           IsRead(q[k], c) /\ q[k].sector = x /\ n + one <= Num(q, AllOps, x, k - 1)
    BY DEF Covered
  <1>3. Hit(q[i], AllOps, x) = one
    <2>1. q[i] \in Job
      BY <1>1, ElementOfSeq
    <2>2. QED
      BY <2>1 DEF Hit, AllOps, Job
  <1>4. CASE k < i
    <2>1. k - 1 \in 0 .. i - 1 /\ k \in DOMAIN r /\ r[k] = q[k]
      BY <1>1, <1>4
    <2>2. Num(q, AllOps, x, k - 1) = Num(r, AllOps, x, k - 1)
      BY <2>1, NumWithout
    <2>3. x # q[i].sector
      BY <1>1, <1>2, <1>4
    <2>4. QED
      BY <1>2, <2>1, <2>2, <2>3 DEF Covered
  <1>5. CASE k = i
    <2>1. k - 1 \in Int /\ \A j \in 1 .. k - 1 : q[j].sector # x
      BY <1>1, <1>2, <1>5
    <2>2. Num(q, AllOps, x, k - 1) = 0
      BY <2>1, NumZero
    <2>3. one = 1
      BY <1>2, <1>5
    <2>4. QED
      BY <1>2, <2>2, <2>3
  <1>6. CASE k > i
    <2>1. /\ k - 1 \in i .. Len(q) /\ k - 1 \in DOMAIN r /\ (k - 1) - 1 \in Int
          /\ ~ (k - 1 < i) /\ (k - 1) + 1 = k
      BY <1>1, <1>6
    <2>2. r[k - 1] = q[k]
      BY <1>1, <2>1
    <2>3. Num(q, AllOps, x, k - 1) = Num(r, AllOps, x, (k - 1) - 1) + one
      BY <1>3, <2>1, NumWithout
    <2>4. Num(r, AllOps, x, (k - 1) - 1) \in Nat
      BY <2>1, NumType
    <2>5. n <= Num(r, AllOps, x, (k - 1) - 1)
      BY <1>2, <2>3, <2>4
    <2>6. QED
      BY <1>2, <2>1, <2>2, <2>5 DEF Covered
  <1>7. QED
    BY <1>1, <1>4, <1>5, <1>6

-----------------------------------------------------------------------------
(* The reads that a storage and its PPD hold.                               *)

\* What was sent to the PPD and not forgotten: sendedJobs, and the job a sender
\* has sent and not yet recorded.
Log(s) == IF sender[s].pc = "sent" THEN Append(sended[s], sender[s].job) ELSE sended[s]

\* The reads of sector x that PRAID or the PPD will have to forget a job for:
\* in the hands of the listener, on the way back, all of them.
InHand(s, x) ==
    IF listener[s].pc \in {"reply", "forget"} /\ listener[s].message.sector = x THEN 1 ELSE 0
Back(s, x) == InHand(s, x) + GetsIn(fromPpd[s], x)
Total(s, x) == Back(s, x) + GetsIn(jobs[s], x) + GetsIn(toPpd[s], x)

\* A read of c for sector x has d reads of its sector ahead of it.
Depth(s, c, x, d) ==
    \E n \in Nat :
        \/ ReadAt(fromPpd[s], c, x, n) /\ d = InHand(s, x) + n
        \/ ReadAt(jobs[s], c, x, n) /\ d = Back(s, x) + n
        \/ ReadAt(toPpd[s], c, x, n) /\ d = Back(s, x) + GetsIn(jobs[s], x) + n

\* A connection is found closed once its PPD is gone and all it had sent was
\* taken; what was sent to a PPD is gone with it.
Ended(s) ==
    /\ listener[s].pc \in {"disconnected", "done"} \/ HandingOver(s) =>
          ppdStatus[s] = "dead" /\ fromPpd[s] = <<>>
    /\ ppdStatus[s] # "running" => toPpd[s] = <<>> /\ jobs[s] = <<>>

\* There is a job to forget for every answer that comes, and for every read its
\* own job lies behind those that the answers ahead of it will make forgotten.
Accounted(s) == \A x \in Sector : Total(s, x) <= Num(Log(s), AllOps, x, Len(Log(s)))
Logged(s) ==
    \A c \in Socket, x \in Sector, d \in Nat :
        Depth(s, c, x, d) => Astray(x) \/ Covered(Log(s), c, x, d)

\* What praid_utils_getReadingJobs has passed it has kept.
Scanned(s) ==
    listener[s].pc \in {"collectPending", "collectSended"} =>
        /\ listener[s].scanned <= Len(ScannedQueue(s))
        /\ \A i \in 1 .. listener[s].scanned, c \in Socket, y \in Sector :
              IsOf(ScannedQueue(s)[i], c, y) => Of(listener[s].orphans, c, y)

\* Of a PPD that is gone the listener will still find the job of the read, when
\* it has forgotten one for every answer that is left.
Spare(s, c, y) == Covered(Log(s), c, y, Back(s, y))
Unscanned(s) == ~ Collected(s) \/ listener[s].pc = "collectSended"

ReplyingFor(s, c, y) == Replying(s, c) /\ listener[s].message.sector = y
Kept(s, c, y) ==
    \/ ~ Collected(s) /\ Of(pending[s], c, y)
    \/ ReplyingFor(s, c, y)
    \/ HandingOver(s) /\ Of(listener[s].orphans, c, y)
    \/ Of(toPpd[s], c, y) \/ Of(jobs[s], c, y) \/ Of(fromPpd[s], c, y)
    \/ ppdStatus[s] = "dead" /\ Unscanned(s) /\ Spare(s, c, y)
OffStorage(c, y) ==
    \/ c \in lostReads \/ Of(requests[c], c, y) \/ replies[c] # <<>>
    \/ Reading(c) /\ worker[c].job.sector = y
    \/ Astray(y)
Live(c) ==
    waiting[c] # 0 =>
        OffStorage(c, waiting[c]) \/ \E s \in Storage : Kept(s, c, waiting[c])

StorageInv(s) == Accounted(s) /\ Logged(s) /\ Scanned(s)
AllEnded == \A s \in Storage : Ended(s)
RecoveryInv == (\A s \in Storage : StorageInv(s)) /\ (\A c \in Socket : Live(c))

LEMMA PipeType ==
  ASSUME IInv, NEW s \in Storage
  PROVE  /\ \A x : /\ GetsIn(fromPpd[s], x) \in Nat /\ GetsIn(jobs[s], x) \in Nat
                   /\ GetsIn(toPpd[s], x) \in Nat
                   /\ InHand(s, x) \in Nat /\ Back(s, x) \in Nat /\ Total(s, x) \in Nat
         /\ Log(s) \in Seq(Job)
         /\ \A x : Num(Log(s), AllOps, x, Len(Log(s))) \in Nat
  <1> USE DEF IInv, TypeOK
  <1>1. /\ toPpd[s] \in Seq(Message) /\ jobs[s] \in Seq(Job) /\ fromPpd[s] \in Seq(Message)
        /\ sended[s] \in Seq(Job)
    BY DEF StorageTypeOK, NetworkTypeOK, NodeTypeOK
  <1>2. Log(s) \in Seq(Job)
    BY <1>1, AppendProperties DEF Log, ThreadsHoldJobs
  <1>3. /\ Len(toPpd[s]) \in Int /\ Len(jobs[s]) \in Int /\ Len(fromPpd[s]) \in Int
        /\ Len(Log(s)) \in Int
    BY <1>1, <1>2, LenProperties
  <1>4. \A x : /\ GetsIn(fromPpd[s], x) \in Nat /\ GetsIn(jobs[s], x) \in Nat
               /\ GetsIn(toPpd[s], x) \in Nat
    BY <1>3, NumType DEF GetsIn
  <1>5. \A x : Num(Log(s), AllOps, x, Len(Log(s))) \in Nat
    BY <1>3, NumType
  <1>6. \A x : InHand(s, x) \in Nat
    BY DEF InHand
  <1>7. \A x : Back(s, x) \in Nat
    BY <1>4, <1>6 DEF Back
  <1>8. \A x : Total(s, x) \in Nat
    BY <1>4, <1>7 DEF Total
  <1>9. QED
    BY <1>2, <1>4, <1>5, <1>6, <1>7, <1>8

-----------------------------------------------------------------------------
(* Steps that leave the reads of a storage as they are.                     *)

Alike(old, new) ==
    /\ \A x : GetsIn(new, x) = GetsIn(old, x)
    /\ \A c, x : \A n \in Nat : ReadAt(new, c, x, n) => ReadAt(old, c, x, n)
    /\ \A c, y : Of(old, c, y) => Of(new, c, y)

LEMMA AlikeSame == \A q : Alike(q, q)
  BY DEF Alike

LEMMA GetsType ==
  ASSUME NEW T, NEW q \in Seq(T)
  PROVE  \A x : GetsIn(q, x) \in Nat
  <1>1. Len(q) \in Int
    BY LenProperties
  <1>2. QED
    BY <1>1, NumType DEF GetsIn

LEMMA AlikeAppend ==
  ASSUME NEW T, NEW q \in Seq(T), NEW m \in T, m.op # "get"
  PROVE  Alike(q, Append(q, m))
  <1>1. \A x : Hit(m, Gets, x) = 0 /\ \A c, y : ~ IsOf(m, c, y)
    BY DEF Hit, Gets, IsOf, IsRead
  <1>2. \A x : GetsIn(q, x) \in Nat
    BY GetsType
  <1>3. QED
    BY <1>1, <1>2, ReadAtAppend DEF Alike, IsOf

LEMMA AlikeWithout ==
  ASSUME NEW T, NEW q \in Seq(T), NEW r \in Seq(T), NEW i, Without(q, r, i),
         \A j \in 1 .. i - 1 : q[j].sector # q[i].sector, q[i].op # "get"
  PROVE  Alike(q, r)
  <1>1. \A x : Hit(q[i], Gets, x) = 0 /\ \A c, y : ~ IsOf(q[i], c, y)
    BY DEF Hit, Gets, IsOf, IsRead
  <1>2. \A x : GetsIn(r, x) \in Nat
    BY GetsType
  <1>3. /\ \A x : GetsIn(q, x) = GetsIn(r, x) + Hit(q[i], Gets, x)
        /\ \A c, x : \A n \in Nat :
              ReadAt(r, c, x, n) => ReadAt(q, c, x, n + Hit(q[i], Gets, x))
        /\ \A c, y : Of(q, c, y) => Of(r, c, y) \/ IsOf(q[i], c, y)
    BY ReadAtWithout
  <1>4. \A x : GetsIn(q, x) = GetsIn(r, x)
    BY <1>1, <1>2, <1>3
  <1>5. \A c, x : \A n \in Nat : ReadAt(r, c, x, n) => ReadAt(q, c, x, n)
    <2> SUFFICES ASSUME NEW c, NEW x, NEW n \in Nat, ReadAt(r, c, x, n)
                 PROVE  ReadAt(q, c, x, n)
      OBVIOUS
    <2>1. ReadAt(q, c, x, n + Hit(q[i], Gets, x)) /\ n + 0 = n
      BY <1>3
    <2>2. QED
      BY <1>1, <2>1
  <1>6. QED
    BY <1>1, <1>3, <1>4, <1>5 DEF Alike

LEMMA AlikeTail ==
  ASSUME NEW T, NEW q \in Seq(T), q # <<>>, Head(q).op # "get"
  PROVE  Alike(q, Tail(q))
  <1>1. Without(q, Tail(q), 1) /\ Tail(q) \in Seq(T) /\ Head(q) = q[1]
    BY TailWithout
  <1>2. \A j \in 1 .. 1 - 1 : q[j].sector # q[1].sector
    OBVIOUS
  <1>3. QED
    BY <1>1, <1>2, AlikeWithout

\* What was sent, what is on its way and what the listener holds.
StraysStay == misplaced \subseteq misplaced' /\ dropped \subseteq dropped'

LEMMA StraysSame ==
  ASSUME UNCHANGED nodeVars
  PROVE  StraysStay
  BY DEF nodeVars, StraysStay

LEMMA AstrayStays ==
  ASSUME StraysStay
  PROVE  \A x : Astray(x) => Astray(x)'
  BY DEF StraysStay, Astray

QuietPipe(s) ==
    /\ StraysStay
    /\ Alike(toPpd[s], toPpd'[s]) /\ Alike(jobs[s], jobs'[s]) /\ Alike(fromPpd[s], fromPpd'[s])
    /\ Log(s)' = Log(s)
    /\ \A x : InHand(s, x)' = InHand(s, x)

LEMMA QuietPipeKeeps ==
  ASSUME NEW s \in Storage, QuietPipe(s)
  PROVE  /\ \A x : Back(s, x)' = Back(s, x) /\ Total(s, x)' = Total(s, x)
         /\ Accounted(s) /\ Logged(s) => Accounted(s)' /\ Logged(s)'
  <1>1. \A x : Back(s, x)' = Back(s, x)
    BY DEF QuietPipe, Alike, Back
  <1>2. \A x : Total(s, x)' = Total(s, x)
    BY <1>1 DEF QuietPipe, Alike, Total
  <1>3. \A c, x, d : Depth(s, c, x, d)' => Depth(s, c, x, d)
    BY <1>1 DEF QuietPipe, Alike, Depth
  <1>4. Accounted(s) => Accounted(s)'
    BY <1>2 DEF Accounted, QuietPipe
  <1>5. Logged(s) => Logged(s)'
    BY <1>3, AstrayStays DEF Logged, QuietPipe
  <1>6. QED
    BY <1>1, <1>2, <1>4, <1>5

-----------------------------------------------------------------------------
(* The end of a PPD and what its listener makes of it.                      *)

\* What is sent reaches a PPD that runs.
LEMMA SentToRunning ==
  ASSUME NetworkTypeOK, NEW d, NEW m, SendPpd(d, m)
  PROVE  \A s \in Storage : toPpd'[s] = toPpd[s] \/ ppdStatus[s] = "running"
  BY DEF SendPpd, NetworkTypeOK

LEMMA AcceptorEnded ==
  ASSUME IInv, AllEnded, NEW Quiet, Acceptor(Quiet), UNCHANGED nodeVars
  PROVE  AllEnded'
  <1> USE DEF IInv, TypeOK
  <1>1. \A s \in Storage : toPpd'[s] = toPpd[s] \/ ppdStatus[s] = "running"
    <2>1. toPpd' = toPpd \/ \E d, m : SendPpd(d, m)
      BY DEF Acceptor, DenyPpd, AcceptPpd, AddPpd, ValidateReplication, StartReplication,
         FireSynchronization, AcceptPfs
    <2>2. QED
      BY <2>1, SentToRunning
  <1>2. \A s \in Storage :
           /\ ppdStatus[s] = "running" => ppdStatus'[s] = "running"
           /\ ppdStatus[s] = "dead" => ppdStatus'[s] = "dead"
    BY DEF Acceptor, DenyPpd, AcceptPpd, AddPpd, ValidateReplication, StartReplication,
       FireSynchronization, AcceptPfs, NodeTypeOK
  <1>3. \A s \in Storage : listener'[s] = listener[s] \/ listener'[s].pc = "receive"
    BY DEF Acceptor, DenyPpd, AcceptPpd, AddPpd, ValidateReplication, StartReplication,
       FireSynchronization, AcceptPfs, LaunchSlaveThreads, ListenerMoves, ListenerAt, ThreadTypeOK
  <1>4. UNCHANGED <<fromPpd, jobs>>
    BY DEF Acceptor, DenyPpd, AcceptPpd, AddPpd, ValidateReplication, StartReplication,
       FireSynchronization, AcceptPfs
  <1>5. QED
    BY <1>1, <1>2, <1>3, <1>4 DEF AllEnded, Ended, HandingOver

LEMMA ListenerEnded ==
  ASSUME IInv, AllEnded, NEW s \in Storage, Listener(s), UNCHANGED nodeVars
  PROVE  AllEnded'
  <1> USE DEF IInv, TypeOK
  <1>1. UNCHANGED <<ppdStatus, jobs>>
    BY DEF Listener, ListenerResponse, ListenerReply, ListenerForget, ListenerSyncPut,
       ListenerSyncEnd, ListenerDisconnected, ProcessDisconnection, CollectRead,
       RemoveDisconnected, ChooseCandidate, AssignJob
  <1>2. \A t \in Storage : toPpd'[t] = toPpd[t] \/ ppdStatus[t] = "running"
    <2>1. toPpd' = toPpd \/ \E d, m : SendPpd(d, m)
      BY DEF Listener, ListenerResponse, ListenerReply, ListenerForget, ListenerSyncPut,
         ListenerSyncEnd, ListenerDisconnected, ProcessDisconnection, CollectRead,
         RemoveDisconnected, ChooseCandidate, AssignJob
    <2>2. QED
      BY <2>1, SentToRunning
  <1>3. CASE ListenerDisconnected(s) \/ ProcessDisconnection(s) \/ CollectRead(s)
               \/ RemoveDisconnected(s) \/ ChooseCandidate(s) \/ AssignJob(s)
    <2>1. fromPpd' = fromPpd /\ \A t \in Storage \ {s} : listener'[t] = listener[t]
      BY <1>3 DEF ListenerDisconnected, ProcessDisconnection, CollectRead,
         RemoveDisconnected, ChooseCandidate, AssignJob, ListenerEnds, ListenerMoves, ThreadTypeOK
    <2>2. ppdStatus[s] = "dead" /\ fromPpd[s] = <<>>
      BY <1>3 DEF ListenerDisconnected, ProcessDisconnection, CollectRead,
         RemoveDisconnected, ChooseCandidate, AssignJob, AllEnded, Ended, HandingOver
    <2>3. QED
      BY <1>1, <1>2, <2>1, <2>2 DEF AllEnded, Ended, HandingOver
  <1>4. CASE ListenerResponse(s) \/ ListenerReply(s) \/ ListenerForget(s)
               \/ ListenerSyncPut(s) \/ ListenerSyncEnd(s)
    <2>1. /\ listener'[s].pc \in {"receive", "reply", "forget"}
          /\ \A t \in Storage \ {s} : listener'[t] = listener[t]
      BY <1>4 DEF ListenerResponse, ListenerReply, ListenerForget, ListenerSyncPut,
         ListenerSyncEnd, Receives, ListenerLoops, ListenerMoves, ListenerAt, ThreadTypeOK
    <2>2. \A t \in Storage \ {s} : fromPpd'[t] = fromPpd[t]
      BY <1>4, ReceivesTail DEF ListenerResponse, ListenerReply, ListenerForget,
         ListenerSyncPut, ListenerSyncEnd
    <2>3. QED
      BY <1>1, <1>2, <2>1, <2>2 DEF AllEnded, Ended, HandingOver
  <1>5. QED
    BY <1>3, <1>4 DEF Listener

LEMMA NodeEnded ==
  ASSUME IInv, AllEnded, NEW s \in Storage, NodeWorks(s) \/ NodeDies(s)
  PROVE  AllEnded'
  <1> USE DEF IInv, TypeOK
  <1>1. ppdStatus[s] = "running" /\ listener' = listener
    BY DEF NodeWorks, Node, NodeQueueJob, NodeSyncGet, NodeStream, NodeUnmap, NodeStreamEnd,
       NodeSyncPut, NodeSyncEnd, NodeExecute, NodeLosesJob, NodeDies, Takes
  <1>2. \A t \in Storage \ {s} : /\ ppdStatus'[t] = ppdStatus[t] /\ toPpd'[t] = toPpd[t]
                                 /\ jobs'[t] = jobs[t] /\ fromPpd'[t] = fromPpd[t]
    <2>1. CASE NodeExecute(s)
      <3>1. PICK i \in DOMAIN jobs[s] : Executes(s, i)
        BY <2>1 DEF NodeExecute
      <3>2. QED
        BY <3>1 DEF Executes, Ends, NodeTypeOK, NetworkTypeOK
    <2>2. CASE ~ NodeExecute(s)
      BY <2>2 DEF NodeWorks, Node, NodeQueueJob, QueueInOrder, Misplace, NodeLosesJob,
         NodeSyncGet, NodeStream, NodeUnmap, NodeStreamEnd, NodeSyncPut, NodeSyncEnd, NodeDies,
         Ends, Takes, NodeTypeOK, NetworkTypeOK
    <2>3. QED
      BY <2>1, <2>2
  <1>3. \/ ppdStatus'[s] = "running"
        \/ toPpd'[s] = <<>> /\ jobs'[s] = <<>>
    <2>1. ppdStatus' = ppdStatus \/ Ends(s)
      BY DEF NodeWorks, Node, NodeQueueJob, NodeSyncGet, NodeStream, NodeUnmap, NodeStreamEnd,
         NodeSyncPut, NodeSyncEnd, NodeExecute, NodeLosesJob, Executes, NodeDies
    <2>2. QED
      BY <1>1, <2>1 DEF Ends, NodeTypeOK, NetworkTypeOK
  <1>4. QED
    BY <1>1, <1>2, <1>3 DEF AllEnded, Ended, HandingOver

LEMMA EndedStep ==
  ASSUME IInv, AllEnded, [Next]_vars
  PROVE  AllEnded'
  <1> USE DEF IInv, TypeOK
  <1>1. ASSUME UNCHANGED <<listener, ppdStatus, fromPpd, jobs>>,
               \A s \in Storage : toPpd'[s] = toPpd[s] \/ ppdStatus[s] = "running"
        PROVE  AllEnded'
    BY <1>1 DEF AllEnded, Ended, HandingOver
  <1>2. CASE UNCHANGED vars
    BY <1>1, <1>2 DEF vars
  <1>3. CASE PraidStep
    <2>1. ASSUME NEW c \in Socket, Worker(c), UNCHANGED nodeVars
          PROVE  AllEnded'
      BY <1>1, <2>1 DEF Worker, PfsReceive, IterateStorages, ExecutePut, SelectForGet, EnqueueGet
    <2>2. ASSUME NEW s \in Storage, Sender(s), UNCHANGED nodeVars
          PROVE  AllEnded'
      <3>1. UNCHANGED <<listener, ppdStatus, fromPpd, jobs>>
        BY <2>2 DEF Sender, SenderCheck, SenderSend, SenderExit, SenderRecord, SenderCount
      <3>2. toPpd' = toPpd \/ \E d, m : SendPpd(d, m)
        BY <2>2 DEF Sender, SenderCheck, SenderSend, SenderExit, SenderRecord, SenderCount
      <3>3. QED
        BY <1>1, <3>1, <3>2, SentToRunning
    <2>3. QED
      BY <1>3, <2>1, <2>2, AcceptorEnded, ListenerEnded DEF PraidStep
  <1>4. CASE NodeStep
    BY <1>4, NodeEnded DEF NodeStep, NodeWorks
  <1>5. CASE ClientStep
    BY <1>1, <1>5 DEF ClientStep, ClientGet, ClientPut, ClientReceive
  <1>6. QED
    BY <1>2, <1>3, <1>4, <1>5 DEF Next

LEMMA EndedInit == Init => AllEnded
  BY DEF Init, InitPraid, InitNode, AllEnded, Ended, HandingOver, ListenerAt

-----------------------------------------------------------------------------
(* Steps that take nothing from a storage.                                  *)

\* A job may be queued on the storage, a message that is no read may come or go,
\* a sender may note down what it sent.
PendingGrows(s) ==
    pending'[s] = pending[s] \/ \E job \in Job : pending'[s] = Append(pending[s], job)

QuietStorage(s) ==
    /\ QuietPipe(s)
    /\ PendingGrows(s)
    /\ ppdStatus[s] = "dead" => ppdStatus'[s] = "dead"
    /\ listener'[s] = listener[s] \/ (listener[s].pc = "off" /\ listener'[s].pc = "receive")
    /\ sended'[s] = sended[s] \/ ~ HandingOver(s)

\* A queue that grows keeps what it holds where it is.
LEMMA Grown ==
  ASSUME NEW q \in Seq(Job), NEW r, r = q \/ \E job \in Job : r = Append(q, job)
  PROVE  /\ r \in Seq(Job) /\ Len(q) <= Len(r) /\ \A i \in 1 .. Len(q) : r[i] = q[i]
         /\ \A c, y : Of(q, c, y) => Of(r, c, y)
  <1>1. CASE r = q
    BY <1>1, LenProperties
  <1>2. ASSUME NEW job \in Job, r = Append(q, job)
        PROVE  /\ r \in Seq(Job) /\ Len(q) <= Len(r) /\ \A i \in 1 .. Len(q) : r[i] = q[i]
               /\ \A c, y : Of(q, c, y) => Of(r, c, y)
    BY <1>2, AppendProperties, LenProperties, ReadAtAppend
  <1>3. QED
    BY <1>1, <1>2

LEMMA ScannedKeeps ==
  ASSUME IInv, NEW s \in Storage, Scanned(s), PendingGrows(s), listener'[s] = listener[s],
         sended'[s] = sended[s] \/ ~ HandingOver(s)
  PROVE  Scanned(s)'
  <1> SUFFICES ASSUME listener[s].pc \in {"collectPending", "collectSended"}
               PROVE  Scanned(s)'
    BY DEF Scanned
  <1>1. listener[s].scanned \in Nat
    BY DEF IInv, TypeOK, ThreadTypeOK, ListenerState
  <1>2. pending[s] \in Seq(Job) /\ sended[s] \in Seq(Job)
    BY DEF IInv, TypeOK, StorageTypeOK
  <1>3. HandingOver(s) /\ sended'[s] = sended[s]
    BY DEF HandingOver
  <1>4. /\ Len(pending[s]) <= Len(pending'[s]) /\ Len(pending[s]) \in Nat
        /\ pending'[s] \in Seq(Job)
        /\ \A i \in 1 .. Len(pending[s]) : pending'[s][i] = pending[s][i]
    BY <1>2, Grown, LenProperties DEF PendingGrows
  <1>5. CASE listener[s].pc = "collectPending"
    <2>1. ScannedQueue(s) = pending[s] /\ ScannedQueue(s)' = pending'[s]
      BY <1>5 DEF ScannedQueue
    <2>2. /\ listener[s].scanned <= Len(pending[s])
          /\ \A i \in 1 .. listener[s].scanned, c \in Socket, y \in Sector :
                IsOf(pending[s][i], c, y) => Of(listener[s].orphans, c, y)
      BY <2>1 DEF Scanned
    <2>3. listener[s].scanned <= Len(pending'[s])
      <3>1. Len(pending'[s]) \in Nat
        BY <1>4, LenProperties
      <3>2. QED
        BY <1>1, <1>4, <2>2, <3>1
    <2>4. \A i \in 1 .. listener[s].scanned : i \in 1 .. Len(pending[s])
      BY <1>1, <1>4, <2>2
    <2>5. QED
      BY <1>4, <2>1, <2>2, <2>3, <2>4 DEF Scanned
  <1>6. CASE listener[s].pc # "collectPending"
    <2>1. ScannedQueue(s) = sended[s] /\ ScannedQueue(s)' = sended[s]
      BY <1>3, <1>6 DEF ScannedQueue
    <2>2. QED
      BY <2>1 DEF Scanned
  <1>7. QED
    BY <1>5, <1>6

LEMMA QuietStorageKeeps ==
  ASSUME IInv, NEW s \in Storage, StorageInv(s), QuietStorage(s)
  PROVE  /\ StorageInv(s)'
         /\ \A c, y : Kept(s, c, y) => Kept(s, c, y)'
  <1>1. /\ \A x : Back(s, x)' = Back(s, x)
        /\ Accounted(s)' /\ Logged(s)'
    BY QuietPipeKeeps DEF StorageInv, QuietStorage
  <1>2. Scanned(s)'
    <2>1. CASE listener'[s] = listener[s]
      BY <2>1, ScannedKeeps DEF StorageInv, QuietStorage
    <2>2. CASE listener'[s].pc = "receive"
      BY <2>2 DEF Scanned
    <2>3. QED
      BY <2>1, <2>2 DEF QuietStorage
  <1>3. /\ Collected(s)' <=> Collected(s)
        /\ Unscanned(s)' <=> Unscanned(s)
        /\ HandingOver(s)' <=> HandingOver(s)
        /\ HandingOver(s) => listener'[s].orphans = listener[s].orphans
        /\ \A c, y : ReplyingFor(s, c, y)' <=> ReplyingFor(s, c, y)
    BY DEF QuietStorage, Collected, Unscanned, HandingOver, ReplyingFor, Replying
  <1>4. /\ Log(s)' = Log(s) /\ (ppdStatus[s] = "dead" => ppdStatus'[s] = "dead")
        /\ \A c, y : /\ Of(toPpd[s], c, y) => Of(toPpd'[s], c, y)
                     /\ Of(jobs[s], c, y) => Of(jobs'[s], c, y)
                     /\ Of(fromPpd[s], c, y) => Of(fromPpd'[s], c, y)
    BY DEF QuietStorage, QuietPipe, Alike
  <1>5. \A c, y : Spare(s, c, y)' <=> Spare(s, c, y)
    BY <1>1, <1>4 DEF Spare
  <1>6. \A c, y : Of(pending[s], c, y) => Of(pending'[s], c, y)
    <2>1. pending[s] \in Seq(Job)
      BY DEF IInv, TypeOK, StorageTypeOK
    <2>2. QED
      BY <2>1, Grown DEF QuietStorage, PendingGrows
  <1>7. \A c, y : Kept(s, c, y) => Kept(s, c, y)'
    BY <1>3, <1>4, <1>5, <1>6 DEF Kept
  <1>8. QED
    BY <1>1, <1>2, <1>7 DEF StorageInv

\* A step of which every storage hears nothing.
LEMMA AllStoragesQuiet ==
  ASSUME IInv, RecoveryInv, \A s \in Storage : QuietStorage(s)
  PROVE  /\ \A s \in Storage : StorageInv(s)'
         /\ \A c, y : (\E s \in Storage : Kept(s, c, y)) => \E s \in Storage : Kept(s, c, y)'
  BY QuietStorageKeeps DEF RecoveryInv

\* A read is still alive when wherever it was it still is somewhere.
LEMMA LiveStays ==
  ASSUME IInv, NEW c \in Socket, Live(c), waiting'[c] = waiting[c],
         \A y \in Sector :
            OffStorage(c, y) \/ (\E s \in Storage : Kept(s, c, y))
               => OffStorage(c, y)' \/ \E s \in Storage : Kept(s, c, y)'
  PROVE  Live(c)'
  <1> SUFFICES ASSUME waiting[c] # 0
               PROVE  OffStorage(c, waiting[c])' \/ \E s \in Storage : Kept(s, c, waiting[c])'
    BY DEF Live
  <1>1. PICK y \in Sector : y = waiting[c]
    BY DEF IInv, TypeOK, ClientTypeOK, Sector
  <1>2. OffStorage(c, y) \/ \E s \in Storage : Kept(s, c, y)
    BY <1>1 DEF Live
  <1>3. OffStorage(c, y)' \/ \E s \in Storage : Kept(s, c, y)'
    BY <1>2
  <1>4. QED
    BY <1>1, <1>3

\* A step of PRAID that touches nothing a storage has.
LEMMA UntouchedPipe ==
  ASSUME NEW s \in Storage, StraysStay, toPpd'[s] = toPpd[s], jobs'[s] = jobs[s],
         fromPpd'[s] = fromPpd[s], sended'[s] = sended[s],
         sender'[s] = sender[s], listener'[s] = listener[s]
  PROVE  QuietPipe(s)
  <1>1. Log(s)' = Log(s)
    BY DEF Log
  <1>2. \A x : InHand(s, x)' = InHand(s, x)
    BY DEF InHand
  <1>3. QED
    BY <1>1, <1>2, AlikeSame, StraysSame DEF QuietPipe

LEMMA UntouchedStorage ==
  ASSUME NEW s \in Storage, StraysStay, toPpd'[s] = toPpd[s], jobs'[s] = jobs[s],
         fromPpd'[s] = fromPpd[s], sended'[s] = sended[s], ppdStatus'[s] = ppdStatus[s],
         sender'[s] = sender[s], listener'[s] = listener[s], PendingGrows(s)
  PROVE  QuietStorage(s)
  BY UntouchedPipe DEF QuietStorage

\* A message that is no read.
LEMMA SentQuietly ==
  ASSUME NetworkTypeOK, NEW d, NEW m \in Message, SendPpd(d, m), m.op # "get"
  PROVE  \A t \in Storage : Alike(toPpd[t], toPpd'[t])
  <1>1. \A t \in Storage : toPpd'[t] = toPpd[t] \/ toPpd'[t] = Append(toPpd[t], m)
    BY SendPpdReaches
  <1>2. \A t \in Storage : toPpd[t] \in Seq(Message)
    BY DEF NetworkTypeOK
  <1>3. QED
    BY <1>1, <1>2, AlikeAppend, AlikeSame

LEMMA AcceptorRecovers ==
  ASSUME IInv, RecoveryInv, NEW Quiet, Acceptor(Quiet), UNCHANGED <<nodeVars, clientVars>>
  PROVE  RecoveryInv'
  <1> USE DEF IInv, TypeOK
  <1>1. UNCHANGED <<pending, sended, jobs, fromPpd, requests, replies, lostReads, waiting>>
    BY DEF Acceptor, DenyPpd, AcceptPpd, AddPpd, ValidateReplication, StartReplication,
       FireSynchronization, AcceptPfs
  <1>2. ASSUME NEW t \in Storage
        PROVE  Alike(toPpd[t], toPpd'[t])
    <2>1. CASE toPpd' = toPpd
      BY <2>1, AlikeSame
    <2>2. CASE \E d, op : op \in {"syncGet", "syncEnd"} /\ SendPpd(d, Sync(op, 0))
      <3>1. PICK d, op : op \in {"syncGet", "syncEnd"} /\ SendPpd(d, Sync(op, 0))
        BY <2>2
      <3>2. Sync(op, 0).op # "get" /\ Sync(op, 0) \in Message
        BY <3>1, InitialValues, SyncOp
      <3>3. QED
        BY <3>1, <3>2, SentQuietly
    <2>3. QED
      BY <2>1, <2>2 DEF Acceptor, DenyPpd, AcceptPpd, AddPpd, ValidateReplication,
         StartReplication, FireSynchronization, AcceptPfs
  <1>3. \A t \in Storage :
           \/ listener'[t] = listener[t] /\ sender'[t] = sender[t]
           \/ /\ listener[t].pc = "off" /\ listener'[t].pc = "receive"
              /\ sender[t].pc = "off" /\ sender'[t].pc = "idle"
    <2>1. CASE UNCHANGED <<listener, sender>>
      BY <2>1
    <2>2. CASE acceptor.pc # "accept" /\ LaunchSlaveThreads(acceptor.destiny)
      <3>1. acceptor.destiny \in Storage /\ listener[acceptor.destiny].pc = "off"
            /\ sender[acceptor.destiny].pc = "off"
        BY <2>2 DEF StaysDisconnected
      <3>2. QED
        BY <2>2, <3>1, LaunchedThreads
    <2>3. QED
      BY <2>1, <2>2 DEF Acceptor, DenyPpd, AcceptPpd, AddPpd, ValidateReplication,
         StartReplication, FireSynchronization, AcceptPfs
  <1>4. \A t \in Storage : ppdStatus[t] = "dead" => ppdStatus'[t] = "dead"
    BY DEF Acceptor, DenyPpd, AcceptPpd, AddPpd, ValidateReplication, StartReplication,
       FireSynchronization, AcceptPfs, NodeTypeOK
  <1>5. ASSUME NEW t \in Storage
        PROVE  QuietStorage(t)
    <2>1. Log(t)' = Log(t)
      BY <1>1, <1>3 DEF Log
    <2>2. \A x : InHand(t, x)' = InHand(t, x)
      BY <1>3 DEF InHand
    <2>3. QED
      BY <1>1, <1>2, <1>3, <1>4, <2>1, <2>2, AlikeSame, StraysSame DEF QuietStorage, QuietPipe, PendingGrows
  <1>6. ASSUME NEW c \in Socket, NEW y \in Sector
        PROVE  OffStorage(c, y) => OffStorage(c, y)'
    <2>1. worker'[c] = worker[c] \/ (worker[c].pc = "off" /\ worker'[c].pc = "receive")
      BY DEF Acceptor, DenyPpd, AcceptPpd, AddPpd, ValidateReplication, StartReplication,
         FireSynchronization, AcceptPfs, WorkerLoops, WorkerMoves, WorkerAt, ThreadTypeOK
    <2>2. QED
      BY <1>1, <2>1, StraysSame, AstrayStays DEF OffStorage, Reading
  <1>7. QED
    BY <1>1, <1>5, <1>6, AllStoragesQuiet, LiveStays DEF RecoveryInv

-----------------------------------------------------------------------------
(* The PFS threads, in PRAID and in the file system.                        *)

\* A read that is queued on a storage is kept there, or counted among the lost.
LEMMA QueuedIsKept ==
  ASSUME IInv, NEW s \in Storage, NEW job \in Job, NEW c \in Socket, NEW y \in Sector, IsOf(job, c, y),
         QueueRead(s, job), Collected(s)' => Collected(s)
  PROVE  c \in lostReads' \/ Kept(s, c, y)'
  <1>1. CASE Collected(s)
    BY <1>1 DEF QueueRead, LoseReads, IsOf, IsRead
  <1>2. CASE ~ Collected(s)
    <2>1. pending[s] \in Seq(Job) /\ pending'[s] = Append(pending[s], job)
      BY DEF QueueRead, IInv, TypeOK, StorageTypeOK
    <2>2. Of(pending'[s], c, y)
      BY <2>1, ReadAtAppend
    <2>3. QED
      BY <1>2, <2>2 DEF Kept
  <1>3. QED
    BY <1>1, <1>2

LEMMA WorkerQuiet ==
  ASSUME IInv, JobsInHand, up, NEW d \in Socket, Worker(d), UNCHANGED nodeVars
  PROVE  \A s \in Storage : QuietStorage(s)
  <1> USE DEF IInv, TypeOK
  <1>1. UNCHANGED <<toPpd, jobs, fromPpd, sended, sender, listener, ppdStatus>>
    BY DEF Worker, PfsReceive, IterateStorages, ExecutePut, SelectForGet, EnqueueGet
  <1>2. \A s \in Storage : PendingGrows(s)
    <2>1. CASE ExecutePut(d) \/ EnqueueGet(d)
      <3>1. worker[d].job \in Job
        BY <2>1 DEF ExecutePut, EnqueueGet, ThreadsHoldJobs
      <3>2. pending' = [pending EXCEPT ![worker[d].cursor] = Append(@, worker[d].job)]
        BY <2>1 DEF ExecutePut, EnqueueGet, QueueRead
      <3>3. QED
        BY <3>1, <3>2 DEF PendingGrows, StorageTypeOK
    <2>2. CASE PfsReceive(d) \/ IterateStorages(d) \/ SelectForGet(d)
      BY <2>2 DEF PfsReceive, IterateStorages, SelectForGet, PendingGrows
    <2>3. QED
      BY <2>1, <2>2 DEF Worker
  <1>3. QED
    BY <1>1, <1>2, UntouchedStorage, StraysSame

LEMMA WorkerRecovers ==
  ASSUME IInv, JobsInHand, up, RecoveryInv, NEW d \in Socket, Worker(d),
         UNCHANGED <<nodeVars, clientVars>>
  PROVE  RecoveryInv'
  <1> USE DEF IInv, TypeOK
  <1>1. /\ \A s \in Storage : StorageInv(s)'
        /\ \A c, y : (\E s \in Storage : Kept(s, c, y)) => \E s \in Storage : Kept(s, c, y)'
    BY WorkerQuiet, AllStoragesQuiet
  <1>2. /\ UNCHANGED <<replies, waiting, listener>> /\ lostReads \subseteq lostReads'
        /\ \A c \in Socket \ {d} : requests'[c] = requests[c] /\ worker'[c] = worker[c]
    BY DEF Worker, PfsReceive, IterateStorages, ExecutePut, SelectForGet, EnqueueGet, QueueRead, LoseReads,
       WorkerLoops, WorkerMoves, NetworkTypeOK, ThreadTypeOK
  <1>3. ASSUME NEW y \in Sector, OffStorage(d, y)
        PROVE  OffStorage(d, y)' \/ \E s \in Storage : Kept(s, d, y)'
    <2>1. CASE PfsReceive(d)
      <3>1. requests[d] \in Seq(Job) /\ requests[d] # <<>> /\ requests'[d] = Tail(requests[d])
            /\ worker[d].pc = "receive"
        BY <2>1 DEF PfsReceive, NetworkTypeOK
      <3>2. CASE Of(requests[d], d, y)
        <4>1. Of(Tail(requests[d]), d, y) \/ IsOf(Head(requests[d]), d, y)
          BY <3>1, <3>2, ReadAtTail
        <4>2. CASE IsOf(Head(requests[d]), d, y)
          <5>1. worker'[d].pc = "select" /\ worker'[d].job.sector = y
            BY <2>1, <4>2 DEF PfsReceive, IsOf, IsRead, WorkerMoves, WorkerAt, ThreadTypeOK
          <5>2. QED
            BY <5>1 DEF OffStorage, Reading
        <4>3. QED
          BY <3>1, <4>1, <4>2 DEF OffStorage
      <3>3. QED
        BY <1>2, <1>3, <3>1, <3>2, StraysSame, AstrayStays DEF OffStorage, Reading
    <2>2. CASE ExecutePut(d) \/ IterateStorages(d)
      BY <1>2, <1>3, <2>2, StraysSame, AstrayStays
         DEF ExecutePut, IterateStorages, OffStorage, Reading
    <2>3. CASE SelectForGet(d)
      <3>1. /\ worker[d].pc = "select" /\ worker'[d].pc = "enqueue"
            /\ worker'[d].job = worker[d].job /\ requests' = requests
        BY <2>3 DEF SelectForGet, WorkerMoves, WorkerAt, ThreadTypeOK
      <3>2. QED
        BY <1>2, <1>3, <3>1, StraysSame, AstrayStays DEF OffStorage, Reading
    <2>4. CASE EnqueueGet(d)
      <3>1. /\ worker[d].cursor \in Storage /\ worker[d].job \in Job
            /\ IsRead(worker[d].job, d) /\ QueueRead(worker[d].cursor, worker[d].job)
            /\ Reading(d)
        BY <2>4 DEF EnqueueGet, JobsInHand, WorkerHolds, ThreadsHoldJobs, IsRead, Reading
      <3>2. PICK s \in Storage, job \in Job :
               IsRead(job, d) /\ QueueRead(s, job) /\ job = worker[d].job
        BY <3>1
      <3>3. Collected(s)' => Collected(s)
        BY <1>2 DEF Collected, HandingOver
      <3>4. CASE worker[d].job.sector = y
        <4>1. d \in lostReads' \/ Kept(s, d, y)'
          BY <3>2, <3>3, <3>4, QueuedIsKept DEF IsOf
        <4>2. QED
          BY <4>1 DEF OffStorage
      <3>5. CASE worker[d].job.sector # y
        BY <1>2, <1>3, <2>4, <3>5, StraysSame, AstrayStays DEF EnqueueGet, OffStorage
      <3>6. QED
        BY <3>4, <3>5
    <2>5. QED
      BY <2>1, <2>2, <2>3, <2>4 DEF Worker
  <1>4. \A c \in Socket \ {d}, y \in Sector : OffStorage(c, y) => OffStorage(c, y)'
    BY <1>2, StraysSame, AstrayStays DEF OffStorage, Reading
  <1>5. ASSUME NEW c \in Socket
        PROVE  Live(c)'
    <2>1. ASSUME NEW y \in Sector, OffStorage(c, y) \/ \E s \in Storage : Kept(s, c, y)
          PROVE  OffStorage(c, y)' \/ \E s \in Storage : Kept(s, c, y)'
      <3>1. CASE OffStorage(c, y) /\ c = d
        BY <1>3, <3>1
      <3>2. CASE OffStorage(c, y) /\ c # d
        BY <1>4, <3>2
      <3>3. CASE \E s \in Storage : Kept(s, c, y)
        BY <1>1, <3>3
      <3>4. QED
        BY <2>1, <3>1, <3>2, <3>3
    <2>2. QED
      BY <1>2, <2>1, LiveStays DEF RecoveryInv
  <1>6. QED
    BY <1>1, <1>5 DEF RecoveryInv

LEMMA ClientRecovers ==
  ASSUME IInv, RecoveryInv, ClientStep
  PROVE  RecoveryInv'
  <1> USE DEF IInv, TypeOK
  <1>1. UNCHANGED <<toPpd, jobs, fromPpd, sended, sender, listener, ppdStatus, pending,
                    worker, lostReads>>
    BY DEF ClientStep, ClientGet, ClientPut, ClientReceive
  <1>2. \A s \in Storage : QuietStorage(s)
    <2>1. UNCHANGED nodeVars
      BY DEF ClientStep, ClientGet, ClientPut, ClientReceive
    <2>2. QED
      BY <1>1, <2>1, UntouchedStorage, StraysSame DEF PendingGrows
  <1>3. /\ \A s \in Storage : StorageInv(s)'
        /\ \A c, y : (\E s \in Storage : Kept(s, c, y)) => \E s \in Storage : Kept(s, c, y)'
    BY <1>2, AllStoragesQuiet
  <1>4. ASSUME NEW d \in Socket, NEW x \in Sector, ClientGet(d, x) \/ ClientPut(d, x)
        PROVE  /\ \A c \in Socket, y \in Sector :
                     Of(requests[c], c, y) => Of(requests'[c], c, y)
               /\ \A c \in Socket : \/ waiting'[c] = waiting[c]
                                    \/ Of(requests'[c], c, waiting'[c])
    <2>1. requests[d] \in Seq(Job)
      BY DEF NetworkTypeOK
    <2>2. CASE ClientGet(d, x)
      <3>1. PICK m \in Job : IsOf(m, d, x) /\ requests' = [requests EXCEPT ![d] = Append(@, m)]
        <4>1. [op |-> "get", socket |-> d, sector |-> x, value |-> 0] \in Job
          BY InitialValues DEF Job
        <4>2. QED
          BY <2>2, <4>1 DEF ClientGet, IsOf, IsRead
      <3>2. \A c, y : Of(Append(requests[d], m), c, y) <=> Of(requests[d], c, y) \/ IsOf(m, c, y)
        BY <2>1, <3>1, ReadAtAppend
      <3>3. /\ requests'[d] = Append(requests[d], m) /\ waiting'[d] = x
            /\ \A c \in Socket \ {d} : requests'[c] = requests[c] /\ waiting'[c] = waiting[c]
        BY <2>2, <3>1 DEF ClientGet, NetworkTypeOK, ClientTypeOK
      <3>4. QED
        BY <3>1, <3>2, <3>3
    <2>3. CASE ClientPut(d, x)
      <3>1. [op |-> "put", socket |-> d, sector |-> x, value |-> puts + 1] \in Job
        BY <2>3, PraidAssumption DEF Job, Value, Stale, ClientTypeOK, ClientPut
      <3>2. PICK m \in Job : requests' = [requests EXCEPT ![d] = Append(@, m)]
        BY <2>3, <3>1 DEF ClientPut
      <3>3. /\ requests'[d] = Append(requests[d], m)
            /\ \A c \in Socket \ {d} : requests'[c] = requests[c]
            /\ waiting' = waiting
        BY <2>3, <3>2 DEF ClientPut, NetworkTypeOK
      <3>4. \A y : Of(requests[d], d, y) => Of(Append(requests[d], m), d, y)
        BY <2>1, ReadAtAppend
      <3>5. QED
        BY <3>3, <3>4
    <2>4. QED
      BY <1>4, <2>2, <2>3
  <1>5. ASSUME NEW c \in Socket
        PROVE  Live(c)'
    <2>1. ASSUME NEW d \in Socket, NEW x \in Sector, ClientGet(d, x) \/ ClientPut(d, x)
          PROVE  Live(c)'
      <3>1. replies' = replies /\ UNCHANGED nodeVars
        BY <2>1 DEF ClientGet, ClientPut
      <3>2. CASE Of(requests'[c], c, waiting'[c])
        BY <3>2 DEF Live, OffStorage
      <3>3. CASE waiting'[c] = waiting[c]
        <4>1. \A y \in Sector : OffStorage(c, y) => OffStorage(c, y)'
          BY <1>1, <1>4, <2>1, <3>1, StraysSame, AstrayStays DEF OffStorage, Reading
        <4>2. QED
          BY <1>3, <3>3, <4>1, LiveStays DEF RecoveryInv
      <3>4. QED
        BY <1>4, <2>1, <3>2, <3>3
    <2>2. ASSUME NEW d \in Socket, ClientReceive(d)
          PROVE  Live(c)'
      <3>1. CASE d = c
        BY <2>2, <3>1 DEF ClientReceive, ClientTypeOK, Live
      <3>2. CASE d # c
        <4>1. requests'[c] = requests[c] /\ replies'[c] = replies[c] /\ waiting'[c] = waiting[c]
          BY <2>2, <3>2 DEF ClientReceive, NetworkTypeOK, ClientTypeOK
        <4>2. UNCHANGED nodeVars
          BY <2>2 DEF ClientReceive
        <4>3. \A y \in Sector : OffStorage(c, y) => OffStorage(c, y)'
          BY <1>1, <4>1, <4>2, StraysSame, AstrayStays DEF OffStorage, Reading
        <4>4. QED
          BY <1>3, <4>1, <4>3, LiveStays DEF RecoveryInv
      <3>3. QED
        BY <3>1, <3>2
    <2>3. QED
      BY <2>1, <2>2 DEF ClientStep
  <1>6. QED
    BY <1>3, <1>5 DEF RecoveryInv

-----------------------------------------------------------------------------
(* The threads of a storage.                                                *)

\* What a step of one storage must keep, when the others hear nothing of it and
\* nothing off the storages is taken.
LEMMA OneStorageMoves ==
  ASSUME IInv, RecoveryInv, NEW s \in Storage, StraysStay, StorageInv(s)',
         \A t \in Storage \ {s} : QuietStorage(t),
         UNCHANGED <<requests, worker, waiting>>,
         lostReads \subseteq lostReads', \A c \in Socket : replies[c] # <<>> => replies'[c] # <<>>,
         \A c \in Socket, y \in Sector :
            Kept(s, c, y) => \/ Kept(s, c, y)' \/ c \in lostReads' \/ replies'[c] # <<>>
                             \/ Astray(y)' \/ \E t \in Storage : Kept(t, c, y)'
  PROVE  RecoveryInv'
  <1>1. \A t \in Storage \ {s} : StorageInv(t)' /\ \A c, y : Kept(t, c, y) => Kept(t, c, y)'
    BY QuietStorageKeeps DEF RecoveryInv
  <1>2. ASSUME NEW c \in Socket
        PROVE  Live(c)'
    <2>1. \A y \in Sector : OffStorage(c, y) => OffStorage(c, y)'
      BY AstrayStays DEF OffStorage, Reading
    <2>2. \A y \in Sector : (\E t \in Storage : Kept(t, c, y)) =>
             OffStorage(c, y)' \/ \E t \in Storage : Kept(t, c, y)'
      BY <1>1 DEF OffStorage
    <2>3. QED
      BY <2>1, <2>2, LiveStays DEF RecoveryInv
  <1>3. QED
    BY <1>1, <1>2 DEF RecoveryInv

\* One more job was sent, which another storage does not hear of.
LEMMA CountedAppend ==
  ASSUME IInv, NEW s \in Storage, NEW job \in Job, NEW x
  PROVE  LET log == Append(Log(s), job) IN
         /\ Num(log, AllOps, x, Len(log)) = Num(Log(s), AllOps, x, Len(Log(s))) + Hit(job, AllOps, x)
         /\ Num(log, AllOps, x, Len(log)) \in Nat
         /\ Hit(job, Gets, x) \in Nat /\ Hit(job, AllOps, x) \in Nat
         /\ Hit(job, Gets, x) <= Hit(job, AllOps, x)
  <1>1. Log(s) \in Seq(Job) /\ Num(Log(s), AllOps, x, Len(Log(s))) \in Nat
    BY PipeType
  <1>2. PICK q \in Seq(Job) : q = Log(s)
    BY <1>1
  <1>3. Num(Append(q, job), AllOps, x, Len(q) + 1) = Num(q, AllOps, x, Len(q)) + Hit(job, AllOps, x)
    BY NumAppend
  <1>4. Len(Append(q, job)) = Len(q) + 1
    BY AppendWithout
  <1>5. /\ Hit(job, Gets, x) \in Nat /\ Hit(job, AllOps, x) \in Nat
        /\ Hit(job, Gets, x) <= Hit(job, AllOps, x)
    BY DEF Hit, Gets, AllOps
  <1>6. QED
    BY <1>1, <1>2, <1>3, <1>4, <1>5

\* A sender sends under the lock, before the listener of its storage hands over.
LEMMA SenderSends ==
  ASSUME IInv, NEW s \in Storage, SenderSend(s), UNCHANGED <<nodeVars, clientVars>>
  PROVE  \E job \in Job :
            /\ UNCHANGED <<fromPpd, jobs, listener, sended, ppdStatus, requests, worker,
                           replies, lostReads, waiting>>
            /\ \A t \in Storage \ {s} : QuietStorage(t)
            /\ ~ HandingOver(s) /\ ~ Collected(s) /\ ~ Collected(s)'
            /\ \A c, y : Of(pending[s], c, y) => Of(pending'[s], c, y) \/ IsOf(job, c, y)
            /\ Log(s)' = Append(Log(s), job)
            /\ \A x : InHand(s, x)' = InHand(s, x) /\ Back(s, x)' = Back(s, x)
            /\ toPpd'[s] = IF ppdStatus[s] = "running" THEN Append(toPpd[s], job) ELSE toPpd[s]
            /\ Scanned(s)'
  <1> USE DEF IInv, TypeOK
  <1>1. UNCHANGED <<fromPpd, jobs, listener, sended, ppdStatus, requests, worker, replies,
                    lostReads, waiting>>
    BY DEF SenderSend
  <1>2. /\ sender[s].pc = "cleared" /\ connected[s]
        /\ pending[s] \in Seq(Job) /\ pending[s] # <<>> /\ pending'[s] = Tail(pending[s])
    BY DEF SenderSend, StorageTypeOK, ThreadsHoldJobs
  <1>3. Head(pending[s]) \in Job
    BY <1>2, HeadAndTail
  <1>4. PICK job \in Job : job = Head(pending[s])
    BY <1>3
  <1>5. /\ sender'[s].pc = "sent" /\ sender'[s].job = job
        /\ \A t \in Storage \ {s} : /\ sender'[t] = sender[t] /\ pending'[t] = pending[t]
                                    /\ toPpd'[t] = toPpd[t]
        /\ toPpd'[s] = IF ppdStatus[s] = "running" THEN Append(toPpd[s], job) ELSE toPpd[s]
    BY <1>4 DEF SenderSend, SenderMoves, SenderAt, SendPpd, StorageTypeOK, ThreadTypeOK,
       NetworkTypeOK
  <1>6. \A t \in Storage \ {s} : QuietStorage(t)
    BY <1>1, <1>5, UntouchedStorage, StraysSame DEF PendingGrows
  <1>7. ~ HandingOver(s) /\ ~ Collected(s) /\ ~ Collected(s)'
    BY <1>1, <1>2 DEF StaysDisconnected, Collected, HandingOver
  <1>8. \A c, y : Of(pending[s], c, y) => Of(pending'[s], c, y) \/ IsOf(job, c, y)
    BY <1>2, <1>4, ReadAtTail
  <1>9. Log(s)' = Append(Log(s), job)
    BY <1>1, <1>2, <1>5 DEF Log
  <1>10. \A x : InHand(s, x)' = InHand(s, x)
    BY <1>1 DEF InHand
  <1>11. \A x : Back(s, x)' = Back(s, x)
    BY <1>1, <1>10 DEF Back
  <1>12. Scanned(s)'
    BY <1>1, <1>7 DEF Scanned, HandingOver
  <1>13. QED
    BY <1>1, <1>5, <1>6, <1>7, <1>8, <1>9, <1>10, <1>11, <1>12

\* What was sent to a PPD that runs is on its way there, and that job is behind
\* all the others of its sector.
LEMMA SentIsKept ==
  ASSUME IInv, RecoveryInv, NEW s \in Storage, ppdStatus[s] = "running",
         SenderSend(s), UNCHANGED <<nodeVars, clientVars>>
  PROVE  RecoveryInv'
  <1> USE DEF IInv, TypeOK
  <1>1. PICK job \in Job :
            /\ UNCHANGED <<fromPpd, jobs, listener, sended, ppdStatus, requests, worker,
                           replies, lostReads, waiting>>
            /\ \A t \in Storage \ {s} : QuietStorage(t)
            /\ ~ HandingOver(s) /\ ~ Collected(s) /\ ~ Collected(s)'
            /\ \A c, y : Of(pending[s], c, y) => Of(pending'[s], c, y) \/ IsOf(job, c, y)
            /\ Log(s)' = Append(Log(s), job)
            /\ \A x : InHand(s, x)' = InHand(s, x) /\ Back(s, x)' = Back(s, x)
            /\ toPpd'[s] = Append(toPpd[s], job)
            /\ Scanned(s)'
    BY SenderSends
  <1>2. /\ toPpd[s] \in Seq(Message) /\ job \in Message /\ Log(s) \in Seq(Job)
        /\ \A x : GetsIn(toPpd[s], x) \in Nat /\ GetsIn(jobs[s], x) \in Nat
                  /\ Back(s, x) \in Nat /\ Total(s, x) \in Nat
    BY PipeType DEF NetworkTypeOK, Message
  <1>3. /\ \A x : GetsIn(Append(toPpd[s], job), x) = GetsIn(toPpd[s], x) + Hit(job, Gets, x)
        /\ \A c, x, n : ReadAt(Append(toPpd[s], job), c, x, n) =>
                           \/ ReadAt(toPpd[s], c, x, n)
                           \/ IsRead(job, c) /\ job.sector = x /\ n = GetsIn(toPpd[s], x)
        /\ \A c, y : Of(Append(toPpd[s], job), c, y) <=> Of(toPpd[s], c, y) \/ IsOf(job, c, y)
    BY <1>2, ReadAtAppend
  <1>4. \A x : Num(Log(s), AllOps, x, Len(Log(s))) \in Nat
    BY PipeType
  <1>5. Accounted(s)'
    <2> SUFFICES ASSUME NEW x \in Sector
                 PROVE  Total(s, x)' <= Num(Log(s), AllOps, x, Len(Log(s)))'
      BY PraidAssumption DEF Accounted
    <2>1. Total(s, x)' = Total(s, x) + Hit(job, Gets, x)
      <3>1. /\ Back(s, x)' = Back(s, x) /\ GetsIn(jobs'[s], x) = GetsIn(jobs[s], x)
            /\ GetsIn(toPpd'[s], x) = GetsIn(toPpd[s], x) + Hit(job, Gets, x)
        BY <1>1, <1>3
      <3>2. Hit(job, Gets, x) \in Nat
        BY DEF Hit
      <3>3. QED
        BY <1>2, <3>1, <3>2 DEF Total
    <2>2. Total(s, x) <= Num(Log(s), AllOps, x, Len(Log(s)))
      BY DEF RecoveryInv, StorageInv, Accounted
    <2>3. /\ Num(Log(s), AllOps, x, Len(Log(s)))' =
                Num(Log(s), AllOps, x, Len(Log(s))) + Hit(job, AllOps, x)
          /\ Hit(job, Gets, x) \in Nat /\ Hit(job, AllOps, x) \in Nat
          /\ Hit(job, Gets, x) <= Hit(job, AllOps, x)
      BY <1>1, CountedAppend
    <2>4. QED
      BY <1>2, <1>4, <2>1, <2>2, <2>3
  <1>6. Logged(s)'
    <2> SUFFICES ASSUME NEW c \in Socket, NEW x \in Sector, NEW d \in Nat, Depth(s, c, x, d)'
                 PROVE  Astray(x)' \/ Covered(Log(s), c, x, d)'
      BY DEF Logged
    <2>1. \/ Depth(s, c, x, d)
          \/ IsRead(job, c) /\ job.sector = x /\ d = Total(s, x)
      BY <1>1, <1>3 DEF Depth, Total
    <2>2. \/ Astray(x)'
          \/ Covered(Log(s), c, x, d)
          \/ IsRead(job, c) /\ job.sector = x /\ d <= Num(Log(s), AllOps, x, Len(Log(s)))
      BY <2>1, StraysSame, AstrayStays DEF RecoveryInv, StorageInv, Accounted, Logged
    <2>3. Astray(x)' \/ Covered(Append(Log(s), job), c, x, d)
      BY <1>2, <2>2, CoveredAppend DEF IsOf
    <2>4. QED
      BY <1>1, <2>3
  <1>7. \A c, y : Kept(s, c, y) => Kept(s, c, y)'
    BY <1>1, <1>3 DEF Kept, ReplyingFor, Replying, HandingOver
  <1>8. QED
    BY <1>1, <1>5, <1>6, <1>7, OneStorageMoves, StraysSame DEF StorageInv

\* What was sent to a PPD that is gone will be found in the log.
LEMMA SentIsLogged ==
  ASSUME IInv, AllEnded, RecoveryInv, NEW s \in Storage, ppdStatus[s] # "running",
         SenderSend(s), UNCHANGED <<nodeVars, clientVars>>
  PROVE  RecoveryInv'
  <1> USE DEF IInv, TypeOK
  <1>1. PICK job \in Job :
            /\ UNCHANGED <<fromPpd, jobs, listener, sended, ppdStatus, requests, worker,
                           replies, lostReads, waiting>>
            /\ \A t \in Storage \ {s} : QuietStorage(t)
            /\ ~ HandingOver(s) /\ ~ Collected(s) /\ ~ Collected(s)'
            /\ \A c, y : Of(pending[s], c, y) => Of(pending'[s], c, y) \/ IsOf(job, c, y)
            /\ Log(s)' = Append(Log(s), job)
            /\ \A x : InHand(s, x)' = InHand(s, x) /\ Back(s, x)' = Back(s, x)
            /\ toPpd'[s] = toPpd[s]
            /\ Scanned(s)'
    BY SenderSends
  <1>2. /\ Log(s) \in Seq(Job)
        /\ \A x : Num(Log(s), AllOps, x, Len(Log(s))) \in Nat
        /\ \A x : GetsIn(toPpd[s], x) \in Nat /\ GetsIn(jobs[s], x) \in Nat
                  /\ Back(s, x) \in Nat /\ Total(s, x) \in Nat
    BY PipeType
  <1>3. ppdStatus[s] = "dead"
    BY DEF SenderSend, StaysDisconnected, NodeTypeOK
  <1>4. Accounted(s)'
    <2> SUFFICES ASSUME NEW x \in Sector
                 PROVE  Total(s, x)' <= Num(Log(s), AllOps, x, Len(Log(s)))'
      BY PraidAssumption DEF Accounted
    <2>1. Total(s, x)' = Total(s, x)
      BY <1>1 DEF Total
    <2>2. Total(s, x) <= Num(Log(s), AllOps, x, Len(Log(s)))
      BY DEF RecoveryInv, StorageInv, Accounted
    <2>3. /\ Num(Log(s), AllOps, x, Len(Log(s)))' =
                Num(Log(s), AllOps, x, Len(Log(s))) + Hit(job, AllOps, x)
          /\ Hit(job, AllOps, x) \in Nat
      BY <1>1, CountedAppend
    <2>4. QED
      BY <1>2, <2>1, <2>2, <2>3
  <1>5. Logged(s)'
    <2> SUFFICES ASSUME NEW c \in Socket, NEW x \in Sector, NEW d \in Nat, Depth(s, c, x, d)'
                 PROVE  Astray(x)' \/ Covered(Log(s), c, x, d)'
      BY DEF Logged
    <2>1. Depth(s, c, x, d)
      BY <1>1 DEF Depth
    <2>2. Astray(x)' \/ Covered(Log(s), c, x, d)
      BY <2>1, StraysSame, AstrayStays DEF RecoveryInv, StorageInv, Logged
    <2>3. Astray(x)' \/ Covered(Append(Log(s), job), c, x, d)
      BY <1>2, <2>2, CoveredAppend
    <2>4. QED
      BY <1>1, <2>3
  <1>6. ASSUME NEW c \in Socket, NEW y \in Sector, IsOf(job, c, y) \/ Spare(s, c, y)
        PROVE  Spare(s, c, y)'
    <2>1. Covered(Log(s), c, y, Back(s, y)) \/ (IsRead(job, c) /\ job.sector = y)
      BY <1>6 DEF Spare, IsOf
    <2>2. Back(s, y) <= Num(Log(s), AllOps, y, Len(Log(s)))
      <3>1. Total(s, y) <= Num(Log(s), AllOps, y, Len(Log(s)))
        BY DEF RecoveryInv, StorageInv, Accounted
      <3>2. QED
        BY <1>2, <3>1 DEF Total
    <2>3. Covered(Append(Log(s), job), c, y, Back(s, y))
      BY <1>2, <2>1, <2>2, CoveredAppend
    <2>4. Covered(Log(s), c, y, Back(s, y))'
      BY <1>1, <2>3
    <2>5. QED
      BY <2>4 DEF Spare
  <1>7. ASSUME NEW c \in Socket, NEW y \in Sector, Kept(s, c, y)
        PROVE  Kept(s, c, y)'
    BY <1>1, <1>3, <1>6, <1>7 DEF Kept, ReplyingFor, Replying, HandingOver, Unscanned
  <1>8. QED
    BY <1>1, <1>4, <1>5, <1>7, OneStorageMoves, StraysSame DEF StorageInv

LEMMA SenderRecovers ==
  ASSUME IInv, AllEnded, RecoveryInv, NEW s \in Storage, Sender(s),
         UNCHANGED <<nodeVars, clientVars>>
  PROVE  RecoveryInv'
  <1> USE DEF IInv, TypeOK
  <1>1. CASE SenderSend(s)
    BY <1>1, SentIsKept, SentIsLogged
  <1>2. CASE ~ SenderSend(s)
    <2>1. /\ UNCHANGED <<toPpd, fromPpd, jobs, listener, pending, ppdStatus, requests, worker,
                         replies, lostReads, waiting>>
          /\ \A t \in Storage \ {s} : sender'[t] = sender[t] /\ sended'[t] = sended[t]
      BY <1>2 DEF Sender, SenderCheck, SenderExit, SenderRecord, SenderCount, SenderLoops,
         SenderMoves, ThreadTypeOK, StorageTypeOK
    <2>2. \A t \in Storage \ {s} : QuietStorage(t)
      BY <2>1, UntouchedStorage, StraysSame DEF PendingGrows
    <2>3. Log(s)' = Log(s)
      <3>1. CASE SenderRecord(s)
        <4>1. sender[s].pc = "sent" /\ sender'[s].pc # "sent"
          BY <3>1 DEF SenderRecord, SenderLoops, SenderMoves, SenderAt, ThreadTypeOK
        <4>2. sended'[s] = Append(sended[s], sender[s].job)
          BY <3>1 DEF SenderRecord, StorageTypeOK
        <4>3. QED
          BY <4>1, <4>2 DEF Log
      <3>2. CASE ~ SenderRecord(s)
        <4>1. sender[s].pc # "sent" /\ sender'[s].pc # "sent" /\ sended' = sended
          BY <1>2, <3>2 DEF Sender, SenderCheck, SenderExit, SenderCount, SenderLoops,
             SenderMoves, SenderAt, ThreadTypeOK
        <4>2. QED
          BY <4>1 DEF Log
      <3>3. QED
        BY <3>1, <3>2
    <2>4. sended'[s] = sended[s] \/ ~ HandingOver(s)
      BY <1>2, NoSenderInside DEF Sender, SenderCheck, SenderExit, SenderRecord, SenderCount
    <2>5. \A x : InHand(s, x)' = InHand(s, x)
      BY <2>1 DEF InHand
    <2>6. QuietStorage(s)
      BY <2>1, <2>3, <2>4, <2>5, AlikeSame, StraysSame DEF QuietStorage, QuietPipe, PendingGrows
    <2>7. \A t \in Storage : QuietStorage(t)
      BY <2>2, <2>6
    <2>8. /\ \A t \in Storage : StorageInv(t)'
          /\ \A c, y : (\E t \in Storage : Kept(t, c, y)) => \E t \in Storage : Kept(t, c, y)'
      BY <2>7, AllStoragesQuiet
    <2>9. \A c \in Socket, y \in Sector : OffStorage(c, y) => OffStorage(c, y)'
      BY <2>1, StraysSame, AstrayStays DEF OffStorage, Reading
    <2>10. QED
      BY <2>1, <2>8, <2>9, LiveStays DEF RecoveryInv
  <1>3. QED
    BY <1>1, <1>2

-----------------------------------------------------------------------------
(* A listener that serves its connection.                                   *)

\* What a listener does to the others when it neither sends nor receives.
LEMMA ListenerAlone ==
  ASSUME IInv, NEW s \in Storage, StraysStay,
         UNCHANGED <<toPpd, jobs, fromPpd, sender, ppdStatus>>,
         \A t \in Storage \ {s} : PendingGrows(t) /\ sended'[t] = sended[t]
                                  /\ listener'[t] = listener[t]
  PROVE  \A t \in Storage \ {s} : QuietStorage(t)
  BY UntouchedStorage, StraysSame

\* A listener moves, and what is sent and on its way stays as it is.
LEMMA PipeKept ==
  ASSUME IInv, RecoveryInv, NEW s \in Storage, QuietPipe(s)
  PROVE  /\ Accounted(s)' /\ Logged(s)'
         /\ \A c, y : /\ Spare(s, c, y)' <=> Spare(s, c, y)
                      /\ Of(toPpd[s], c, y) => Of(toPpd'[s], c, y)
                      /\ Of(jobs[s], c, y) => Of(jobs'[s], c, y)
                      /\ Of(fromPpd[s], c, y) => Of(fromPpd'[s], c, y)
  <1>1. \A x : Back(s, x)' = Back(s, x)
    BY QuietPipeKeeps
  <1>2. Accounted(s)' /\ Logged(s)'
    BY QuietPipeKeeps DEF RecoveryInv, StorageInv
  <1>3. \A c, y : Spare(s, c, y)' <=> Spare(s, c, y)
    BY <1>1 DEF Spare, QuietPipe
  <1>4. QED
    BY <1>2, <1>3 DEF QuietPipe, Alike

\* An answer that was on its way is in the hands of the listener.
LEMMA ResponseRecovers ==
  ASSUME IInv, RecoveryInv, NEW s \in Storage, ListenerResponse(s),
         UNCHANGED <<nodeVars, clientVars>>
  PROVE  RecoveryInv'
  <1> USE DEF IInv, TypeOK
  <1>1. UNCHANGED <<pending, sended, sender, toPpd, jobs, ppdStatus, requests, replies, worker,
                    lostReads, waiting>>
    BY DEF ListenerResponse
  <1>2. /\ Receives(s, "get") /\ listener[s].pc = "receive"
        /\ fromPpd[s] \in Seq(Message) /\ fromPpd[s] # <<>>
    BY ReceivesTail DEF ListenerResponse, Receives
  <1>3. PICK m \in Message : m = Head(fromPpd[s]) /\ m.op = "get"
    BY <1>2, ReceivesTail
  <1>4. fromPpd'[s] = Tail(fromPpd[s]) /\ \A t \in Storage \ {s} : fromPpd'[t] = fromPpd[t]
    BY <1>2, ReceivesTail
  <1>5. /\ listener'[s].pc = "reply" /\ listener'[s].message = m
        /\ \A t \in Storage \ {s} : listener'[t] = listener[t]
    BY <1>3 DEF ListenerResponse, ListenerMoves, ListenerAt, ThreadTypeOK
  <1>6. \A t \in Storage \ {s} : QuietStorage(t)
    BY <1>1, <1>4, <1>5, UntouchedStorage, StraysSame DEF PendingGrows
  <1>7. /\ \A x : GetsIn(fromPpd[s], x) = GetsIn(Tail(fromPpd[s]), x) + Hit(m, Gets, x)
        /\ \A c, x : \A n \in Nat :
              ReadAt(Tail(fromPpd[s]), c, x, n) => ReadAt(fromPpd[s], c, x, n + Hit(m, Gets, x))
        /\ \A c, y : Of(fromPpd[s], c, y) => Of(Tail(fromPpd[s]), c, y) \/ IsOf(m, c, y)
    BY <1>2, <1>3, ReadAtTail
  <1>8. \A x : GetsIn(Tail(fromPpd[s]), x) \in Nat
    BY <1>2, HeadAndTail, GetsType
  <1>9. \A x : /\ Hit(m, Gets, x) \in Nat
               /\ InHand(s, x) = 0 /\ InHand(s, x)' = Hit(m, Gets, x)
    BY <1>2, <1>3, <1>5 DEF InHand, Hit, Gets
  <1>10. \A x : Back(s, x)' = Back(s, x)
    BY <1>4, <1>7, <1>8, <1>9 DEF Back
  <1>11. Log(s)' = Log(s)
    BY <1>1 DEF Log
  <1>12. Accounted(s)'
    <2>1. \A x : Total(s, x)' = Total(s, x)
      BY <1>1, <1>10 DEF Total
    <2>2. QED
      BY <1>11, <2>1 DEF RecoveryInv, StorageInv, Accounted
  <1>13. Logged(s)'
    <2> SUFFICES ASSUME NEW c \in Socket, NEW x \in Sector, NEW d \in Nat, Depth(s, c, x, d)'
                 PROVE  Depth(s, c, x, d)
      BY <1>11, StraysSame, AstrayStays DEF RecoveryInv, StorageInv, Logged
    <2>1. PICK n \in Nat :
             \/ ReadAt(Tail(fromPpd[s]), c, x, n) /\ d = Hit(m, Gets, x) + n
             \/ ReadAt(jobs[s], c, x, n) /\ d = Back(s, x) + n
             \/ ReadAt(toPpd[s], c, x, n) /\ d = Back(s, x) + GetsIn(jobs[s], x) + n
      BY <1>1, <1>4, <1>9, <1>10 DEF Depth
    <2>2. CASE ReadAt(Tail(fromPpd[s]), c, x, n) /\ d = Hit(m, Gets, x) + n
      <3>1. ReadAt(fromPpd[s], c, x, n + Hit(m, Gets, x))
        BY <1>7, <2>2
      <3>2. n + Hit(m, Gets, x) = d /\ d = InHand(s, x) + d
        BY <1>9, <2>2
      <3>3. QED
        BY <3>1, <3>2 DEF Depth
    <2>3. QED
      BY <2>1, <2>2 DEF Depth
  <1>14. Scanned(s)'
    BY <1>5 DEF Scanned
  <1>15. \A c, y : Spare(s, c, y)' <=> Spare(s, c, y)
    BY <1>10, <1>11 DEF Spare
  <1>16. ASSUME NEW c \in Socket, NEW y \in Sector, Kept(s, c, y)
         PROVE  Kept(s, c, y)'
    <2>1. /\ ~ HandingOver(s) /\ ~ Collected(s) /\ ~ Collected(s)' /\ ~ ReplyingFor(s, c, y)
      BY <1>2, <1>5 DEF Collected, HandingOver, ReplyingFor, Replying
    <2>2. IsOf(m, c, y) => ReplyingFor(s, c, y)'
      BY <1>5 DEF ReplyingFor, Replying, IsOf, IsRead
    <2>3. QED
      BY <1>1, <1>4, <1>7, <1>15, <1>16, <2>1, <2>2 DEF Kept, Unscanned
  <1>17. QED
    BY <1>1, <1>6, <1>12, <1>13, <1>14, <1>16, OneStorageMoves, StraysSame DEF StorageInv

\* The answer is sent on; its job is yet to be forgotten.
LEMMA ReplyRecovers ==
  ASSUME IInv, JobsInHand, RecoveryInv, NEW s \in Storage, ListenerReply(s),
         UNCHANGED <<nodeVars, clientVars>>
  PROVE  RecoveryInv'
  <1> USE DEF IInv, TypeOK
  <1>1. UNCHANGED <<pending, sended, sender, toPpd, fromPpd, jobs, ppdStatus, requests, worker,
                    lostReads, waiting>>
    BY DEF ListenerReply
  <1>2. /\ listener[s].pc = "reply" /\ listener[s].message \in Job
        /\ listener'[s].pc = "forget" /\ listener'[s].message = listener[s].message
        /\ \A t \in Storage \ {s} : listener'[t] = listener[t]
    BY DEF ListenerReply, ListenerMoves, ListenerAt, ThreadTypeOK, JobsInHand, ListenerHolds
  <1>3. PICK m \in Job : m = listener[s].message
    BY <1>2
  <1>4. /\ m.socket \in Socket /\ m \in Message
        /\ \A c \in Socket : replies[c] \in Seq(Message)
    BY DEF Job, Message, NetworkTypeOK
  <1>5. /\ replies'[m.socket] = Append(replies[m.socket], m)
        /\ \A d \in Socket \ {m.socket} : replies'[d] = replies[d]
    BY <1>3, <1>4 DEF ListenerReply, NetworkTypeOK
  <1>6. replies'[m.socket] # <<>>
    BY <1>4, <1>5, AppendProperties
  <1>7. \A t \in Storage \ {s} : QuietStorage(t)
    BY <1>1, <1>2, ListenerAlone, StraysSame DEF PendingGrows
  <1>8. QuietPipe(s)
    <2>1. Log(s)' = Log(s)
      BY <1>1 DEF Log
    <2>2. \A x : InHand(s, x)' = InHand(s, x)
      BY <1>2 DEF InHand
    <2>3. QED
      BY <1>1, <2>1, <2>2, AlikeSame, StraysSame DEF QuietPipe
  <1>9. StorageInv(s)'
    <2>1. Scanned(s)'
      BY <1>2 DEF Scanned
    <2>2. QED
      BY <1>8, <2>1, PipeKept DEF StorageInv
  <1>10. \A c \in Socket : replies[c] # <<>> => replies'[c] # <<>>
    BY <1>5, <1>6
  <1>11. ASSUME NEW c \in Socket, NEW y \in Sector, Kept(s, c, y)
         PROVE  Kept(s, c, y)' \/ replies'[c] # <<>>
    <2>1. ~ HandingOver(s) /\ ~ Collected(s) /\ ~ Collected(s)'
      BY <1>2 DEF Collected, HandingOver
    <2>2. ReplyingFor(s, c, y) => replies'[c] # <<>>
      BY <1>3, <1>6 DEF ReplyingFor, Replying
    <2>3. Spare(s, c, y)' <=> Spare(s, c, y)
      BY <1>8, PipeKept
    <2>4. QED
      BY <1>1, <1>11, <2>1, <2>2, <2>3 DEF Kept, Unscanned
  <1>12. QED
    BY <1>1, <1>7, <1>9, <1>10, <1>11, OneStorageMoves, StraysSame

\* What comes and goes with a replication are no reads.
LEMMA SyncRecovers ==
  ASSUME IInv, RecoveryInv, NEW s \in Storage, ListenerSyncPut(s) \/ ListenerSyncEnd(s),
         UNCHANGED <<nodeVars, clientVars>>
  PROVE  RecoveryInv'
  <1> USE DEF IInv, TypeOK
  <1>1. UNCHANGED <<pending, sended, sender, listener, jobs, ppdStatus, requests, replies,
                    worker, lostReads, waiting>>
    BY DEF ListenerSyncPut, ListenerSyncEnd
  <1>2. PICK op \in {"syncPut", "syncEnd"} : Receives(s, op)
    BY DEF ListenerSyncPut, ListenerSyncEnd
  <1>3. /\ fromPpd[s] \in Seq(Message) /\ fromPpd[s] # <<>>
        /\ Head(fromPpd[s]) \in Message /\ Head(fromPpd[s]).op = op
        /\ fromPpd'[s] = Tail(fromPpd[s])
        /\ \A t \in Storage \ {s} : fromPpd'[t] = fromPpd[t]
    BY <1>2, ReceivesTail
  <1>4. Head(fromPpd[s]).op # "get"
    BY <1>3
  <1>5. \A t \in Storage : Alike(fromPpd[t], fromPpd'[t])
    BY <1>3, <1>4, AlikeTail, AlikeSame
  <1>6. \A t \in Storage : Alike(toPpd[t], toPpd'[t])
    <2>1. CASE ListenerSyncPut(s)
      BY <1>3, <1>4, <2>1, SentQuietly DEF ListenerSyncPut
    <2>2. CASE ListenerSyncEnd(s)
      <3>1. Sync("syncEnd", 0).op # "get" /\ Sync("syncEnd", 0) \in Message
        BY InitialValues, SyncOp
      <3>2. QED
        BY <2>2, <3>1, SentQuietly DEF ListenerSyncEnd
    <2>3. QED
      BY <2>1, <2>2
  <1>7. ASSUME NEW t \in Storage
        PROVE  QuietStorage(t)
    <2>1. Log(t)' = Log(t)
      BY <1>1 DEF Log
    <2>2. \A x : InHand(t, x)' = InHand(t, x)
      BY <1>1 DEF InHand
    <2>3. QED
      BY <1>1, <1>5, <1>6, <2>1, <2>2, AlikeSame, StraysSame DEF QuietStorage, QuietPipe, PendingGrows
  <1>8. /\ \A t \in Storage : StorageInv(t)'
        /\ \A c, y : (\E t \in Storage : Kept(t, c, y)) => \E t \in Storage : Kept(t, c, y)'
    BY <1>7, AllStoragesQuiet
  <1>9. \A c \in Socket, y \in Sector : OffStorage(c, y) => OffStorage(c, y)'
    BY <1>1, StraysSame, AstrayStays DEF OffStorage, Reading
  <1>10. QED
    BY <1>1, <1>8, <1>9, LiveStays DEF RecoveryInv

\* The first sent job of a sector is the first of its sector in the log.
LEMMA LogWithout ==
  ASSUME NEW q \in Seq(Job), NEW r \in Seq(Job), NEW i, Without(q, r, i), NEW m \in Job
  PROVE  /\ Without(Append(q, m), Append(r, m), i)
         /\ \A j \in 1 .. i : Append(q, m)[j] = q[j]
  <1>1. /\ Len(q) \in Nat /\ i \in 1 .. Len(q) /\ DOMAIN q = 1 .. Len(q)
        /\ Len(r) = Len(q) - 1 /\ DOMAIN r = 1 .. Len(q) - 1
        /\ \A j \in DOMAIN r : r[j] = IF j < i THEN q[j] ELSE q[j + 1]
    BY LenProperties DEF Without
  <1>2. /\ Len(Append(q, m)) = Len(q) + 1 /\ DOMAIN Append(q, m) = 1 .. Len(q) + 1
        /\ \A j \in DOMAIN q : Append(q, m)[j] = q[j]
        /\ Append(q, m)[Len(q) + 1] = m
    BY <1>1, AppendAt, AppendWithout
  <1>3. /\ Len(Append(r, m)) = Len(q) /\ DOMAIN Append(r, m) = 1 .. Len(q)
        /\ \A j \in DOMAIN r : Append(r, m)[j] = r[j]
        /\ Append(r, m)[Len(q)] = m
    <2>1. /\ Len(Append(r, m)) = Len(r) + 1 /\ DOMAIN Append(r, m) = DOMAIN r \cup {Len(r) + 1}
          /\ \A j \in DOMAIN r : Append(r, m)[j] = r[j]
          /\ Append(r, m)[Len(r) + 1] = m
      BY AppendAt, AppendWithout
    <2>2. Len(r) + 1 = Len(q)
      BY <1>1
    <2>3. QED
      BY <1>1, <2>1, <2>2
  <1>4. ASSUME NEW j \in 1 .. Len(q)
        PROVE  Append(r, m)[j] = IF j < i THEN Append(q, m)[j] ELSE Append(q, m)[j + 1]
    <2>1. CASE j = Len(q)
      <3>1. Append(r, m)[j] = m /\ Append(q, m)[j + 1] = m
        BY <1>2, <1>3, <2>1
      <3>2. ~ (j < i)
        BY <1>1, <2>1
      <3>3. QED
        BY <3>1, <3>2
    <2>2. CASE j # Len(q)
      <3>0. j \in 1 .. Len(q) - 1 /\ j + 1 \in 1 .. Len(q)
        <4>1. \A n \in Nat : \A k \in 1 .. n : k # n => k \in 1 .. n - 1 /\ k + 1 \in 1 .. n
          OBVIOUS
        <4>2. Len(q) \in Nat
          BY <1>1
        <4>3. QED
          BY <2>2, <4>1, <4>2, Zenon
      <3>1. j \in DOMAIN r /\ j \in DOMAIN q /\ j + 1 \in DOMAIN q
        BY <1>1, <3>0
      <3>2. QED
        BY <1>1, <1>2, <1>3, <3>1
    <2>3. QED
      BY <2>1, <2>2
  <1>5. QED
    BY <1>1, <1>2, <1>3, <1>4 DEF Without

\* What forgetting does to the log, and to what has to be forgotten.
LEMMA Forgets ==
  ASSUME IInv, JobsInHand, NEW s \in Storage, ListenerForget(s), UNCHANGED <<nodeVars, clientVars>>
  PROVE  \E x0 \in Sector :
            /\ \A x : InHand(s, x)' = 0 /\ InHand(s, x) = (IF x = x0 THEN 1 ELSE 0)
            /\ Log(s) \in Seq(Job) /\ Log(s)' \in Seq(Job)
            /\ \/ Log(s)' = Log(s)
               \/ \E i : /\ Without(Log(s), Log(s)', i) /\ Log(s)[i].sector = x0
                         /\ \A j \in 1 .. i - 1 : Log(s)[j].sector # Log(s)[i].sector
  <1> USE DEF IInv, TypeOK
  <1>1. /\ listener[s].pc = "forget" /\ listener[s].message \in Job
        /\ listener'[s].pc = "receive" /\ sender' = sender
        /\ sended'[s] = RemoveFirstOf(sended[s], listener[s].message.sector)
    BY DEF ListenerForget, ListenerLoops, ListenerMoves, ListenerAt, ThreadTypeOK, StorageTypeOK,
       JobsInHand, ListenerHolds
  <1>2. PICK x0 \in Sector : x0 = listener[s].message.sector
    BY <1>1 DEF Job
  <1>3. \A x : InHand(s, x)' = 0 /\ InHand(s, x) = (IF x = x0 THEN 1 ELSE 0)
    BY <1>1, <1>2 DEF InHand
  <1>4. sended[s] \in Seq(Job) /\ sended'[s] \in Seq(Job)
    BY <1>1, RemoveFirstOfType DEF StorageTypeOK
  <1>5. sender[s].pc = "sent" => sender[s].job \in Job
    BY DEF ThreadsHoldJobs
  <1>6. Log(s) \in Seq(Job) /\ Log(s)' \in Seq(Job)
    BY <1>1, <1>4, <1>5, AppendProperties DEF Log
  <1>7. CASE sended'[s] = sended[s]
    BY <1>1, <1>2, <1>3, <1>6, <1>7 DEF Log
  <1>8. CASE sended'[s] # sended[s]
    <2>1. PICK i \in DOMAIN sended[s] : IsFirst(sended[s], x0, i)
                                        /\ sended'[s] = RemoveAt(sended[s], i)
      BY <1>1, <1>2, <1>8 DEF RemoveFirstOf
    <2>2. Without(sended[s], sended'[s], i)
      BY <1>4, <2>1, RemoveAtWithout
    <2>3. sended[s][i].sector = x0 /\ \A j \in 1 .. i - 1 : sended[s][j].sector # x0
      BY <2>1 DEF IsFirst
    <2>4. CASE sender[s].pc = "sent"
      <3>1. Log(s) = Append(sended[s], sender[s].job) /\ Log(s)' = Append(sended'[s], sender[s].job)
        BY <1>1, <2>4 DEF Log
      <3>2. /\ Without(Append(sended[s], sender[s].job), Append(sended'[s], sender[s].job), i)
            /\ \A j \in 1 .. i : Append(sended[s], sender[s].job)[j] = sended[s][j]
        BY <1>4, <1>5, <2>2, <2>4, LogWithout
      <3>3. i \in 1 .. i /\ 1 .. i - 1 \subseteq 1 .. i
        BY <1>4, <2>1, LenProperties
      <3>4. Log(s)[i].sector = x0 /\ \A j \in 1 .. i - 1 : Log(s)[j].sector # x0
        BY <2>3, <3>1, <3>2, <3>3
      <3>5. Without(Log(s), Log(s)', i)
        BY <3>1, <3>2
      <3>6. QED
        BY <1>3, <1>6, <3>4, <3>5
    <2>5. CASE sender[s].pc # "sent"
      <3>1. Log(s) = sended[s] /\ Log(s)' = sended'[s]
        BY <1>1, <2>5 DEF Log
      <3>2. QED
        BY <1>3, <1>6, <2>2, <2>3, <3>1
    <2>6. QED
      BY <2>4, <2>5
  <1>9. QED
    BY <1>7, <1>8

\* One answer less to come, and at most one job less in the log: the first of the
\* sector of the answer, whoever sent it.
LEMMA ForgetKeepsLog ==
  ASSUME IInv, JobsInHand, RecoveryInv, NEW s \in Storage, ListenerForget(s),
         UNCHANGED <<nodeVars, clientVars>>
  PROVE  /\ Accounted(s)' /\ Logged(s)'
         /\ \A c \in Socket, y \in Sector : Spare(s, c, y) => Spare(s, c, y)'
  <1> USE DEF IInv, TypeOK
  <1>1. UNCHANGED <<toPpd, fromPpd, jobs>>
    BY DEF ListenerForget
  <1>2. PICK x0 \in Sector :
            /\ \A x : InHand(s, x)' = 0 /\ InHand(s, x) = (IF x = x0 THEN 1 ELSE 0)
            /\ Log(s) \in Seq(Job) /\ Log(s)' \in Seq(Job)
            /\ \/ Log(s)' = Log(s)
               \/ \E i : /\ Without(Log(s), Log(s)', i) /\ Log(s)[i].sector = x0
                         /\ \A j \in 1 .. i - 1 : Log(s)[j].sector # Log(s)[i].sector
    BY Forgets
  <1>3. \A x : /\ GetsIn(fromPpd[s], x) \in Nat /\ GetsIn(jobs[s], x) \in Nat
               /\ GetsIn(toPpd[s], x) \in Nat
    BY PipeType
  <1>4. \A x : /\ Back(s, x)' \in Nat
               /\ Back(s, x) = (IF x = x0 THEN Back(s, x)' + 1 ELSE Back(s, x)')
    BY <1>1, <1>2, <1>3 DEF Back
  <1>5. \A x : /\ Total(s, x)' \in Nat
               /\ Total(s, x) = (IF x = x0 THEN Total(s, x)' + 1 ELSE Total(s, x)')
    BY <1>1, <1>3, <1>4 DEF Total
  <1>6. ASSUME NEW c, NEW x, NEW d \in Nat, Depth(s, c, x, d)'
        PROVE  Depth(s, c, x, IF x = x0 THEN d + 1 ELSE d)
    <2>1. PICK n \in Nat :
             \/ ReadAt(fromPpd[s], c, x, n) /\ d = 0 + n
             \/ ReadAt(jobs[s], c, x, n) /\ d = Back(s, x)' + n
             \/ ReadAt(toPpd[s], c, x, n) /\ d = Back(s, x)' + GetsIn(jobs[s], x) + n
      BY <1>1, <1>2, <1>6 DEF Depth
    <2>2. CASE ReadAt(fromPpd[s], c, x, n) /\ d = 0 + n
      <3>1. InHand(s, x) + n = IF x = x0 THEN d + 1 ELSE d
        BY <1>2, <2>2
      <3>2. QED
        BY <2>2, <3>1 DEF Depth
    <2>3. CASE ReadAt(jobs[s], c, x, n) /\ d = Back(s, x)' + n
      <3>1. Back(s, x) + n = IF x = x0 THEN d + 1 ELSE d
        BY <1>4, <2>3
      <3>2. QED
        BY <2>3, <3>1 DEF Depth
    <2>4. CASE ReadAt(toPpd[s], c, x, n) /\ d = Back(s, x)' + GetsIn(jobs[s], x) + n
      <3>1. Back(s, x) + GetsIn(jobs[s], x) + n = IF x = x0 THEN d + 1 ELSE d
        BY <1>3, <1>4, <2>4
      <3>2. QED
        BY <2>4, <3>1 DEF Depth
    <2>5. QED
      BY <2>1, <2>2, <2>3, <2>4
  <1>7. ASSUME NEW c, NEW x, NEW n \in Nat, Covered(Log(s), c, x, IF x = x0 THEN n + 1 ELSE n)
        PROVE  Covered(Log(s)', c, x, n)
    <2>1. CASE Log(s)' = Log(s)
      <3>1. (IF x = x0 THEN n + 1 ELSE n) \in Nat /\ n <= (IF x = x0 THEN n + 1 ELSE n)
        OBVIOUS
      <3>2. Covered(Log(s), c, x, n)
        BY <1>2, <1>7, <3>1, CoveredLess
      <3>3. QED
        BY <2>1, <3>2
    <2>2. CASE Log(s)' # Log(s)
      <3>1. PICK q \in Seq(Job), r \in Seq(Job) : q = Log(s) /\ r = Log(s)'
        BY <1>2
      <3>2. PICK i : /\ Without(q, r, i) /\ q[i].sector = x0
                     /\ \A j \in 1 .. i - 1 : q[j].sector # q[i].sector
        BY <1>2, <2>2, <3>1
      <3>3. Covered(q, c, x, IF x = q[i].sector THEN n + 1 ELSE n)
        BY <1>7, <3>1, <3>2
      <3>4. Covered(r, c, x, n)
        BY <3>2, <3>3, CoveredWithout
      <3>5. QED
        BY <3>1, <3>4
    <2>3. QED
      BY <2>1, <2>2
  <1>8. ASSUME NEW x \in Sector
        PROVE  Total(s, x)' <= Num(Log(s), AllOps, x, Len(Log(s)))'
    <2>1. Total(s, x) <= Num(Log(s), AllOps, x, Len(Log(s)))
      BY DEF RecoveryInv, StorageInv, Accounted
    <2>2. CASE Log(s)' = Log(s)
      <3>1. Num(Log(s), AllOps, x, Len(Log(s))) \in Nat
        BY PipeType
      <3>2. QED
        BY <1>5, <2>1, <2>2, <3>1
    <2>3. CASE Log(s)' # Log(s)
      <3>1. PICK q \in Seq(Job), r \in Seq(Job) : q = Log(s) /\ r = Log(s)'
        BY <1>2
      <3>2. PICK i : Without(q, r, i) /\ q[i].sector = x0
        BY <1>2, <2>3, <3>1
      <3>3. /\ Len(q) \in Nat /\ i \in 1 .. Len(q) /\ Len(r) = Len(q) - 1 /\ q[i] \in Job
        BY <3>2, LenProperties, ElementOfSeq DEF Without
      <3>4. Num(q, AllOps, x, Len(q)) = Num(r, AllOps, x, Len(q) - 1) + Hit(q[i], AllOps, x)
        <4>1. Len(q) \in i .. Len(q)
          BY <3>3
        <4>2. QED
          BY <3>2, <4>1, NumWithout
      <3>5. Hit(q[i], AllOps, x) = IF x = x0 THEN 1 ELSE 0
        BY <3>2, <3>3 DEF Hit, AllOps, Job
      <3>6. Num(r, AllOps, x, Len(r)) \in Nat
        <4>1. Len(r) \in Int
          BY <3>3
        <4>2. QED
          BY <4>1, NumType
      <3>7. Total(s, x) <= Num(r, AllOps, x, Len(r)) + (IF x = x0 THEN 1 ELSE 0)
        BY <2>1, <3>1, <3>3, <3>4, <3>5
      <3>8. Total(s, x)' <= Num(r, AllOps, x, Len(r))
        BY <1>5, <3>6, <3>7
      <3>9. QED
        BY <3>1, <3>8
    <2>4. QED
      BY <2>2, <2>3
  <1>9. Accounted(s)'
    BY <1>8, PraidAssumption DEF Accounted
  <1>10. Logged(s)'
    <2> SUFFICES ASSUME NEW c \in Socket, NEW x \in Sector, NEW d \in Nat, Depth(s, c, x, d)'
                 PROVE  Astray(x)' \/ Covered(Log(s)', c, x, d)
      BY DEF Logged
    <2>1. (IF x = x0 THEN d + 1 ELSE d) \in Nat
      OBVIOUS
    <2>2. Astray(x)' \/ Covered(Log(s), c, x, IF x = x0 THEN d + 1 ELSE d)
      BY <1>6, <2>1, StraysSame, AstrayStays DEF RecoveryInv, StorageInv, Logged
    <2>3. QED
      BY <1>7, <2>2
  <1>11. ASSUME NEW c \in Socket, NEW y \in Sector, Spare(s, c, y)
         PROVE  Spare(s, c, y)'
    <2>1. Covered(Log(s), c, y, Back(s, y))
      BY <1>11 DEF Spare
    <2>2. Covered(Log(s)', c, y, Back(s, y)')
      BY <1>4, <1>7, <2>1
    <2>3. Covered(Log(s), c, y, Back(s, y))'
      BY <2>2
    <2>4. QED
      BY <2>3 DEF Spare
  <1>12. QED
    BY <1>9, <1>10, <1>11

LEMMA ForgetRecovers ==
  ASSUME IInv, JobsInHand, RecoveryInv, NEW s \in Storage, ListenerForget(s),
         UNCHANGED <<nodeVars, clientVars>>
  PROVE  RecoveryInv'
  <1> USE DEF IInv, TypeOK
  <1>1. UNCHANGED <<pending, sender, toPpd, fromPpd, jobs, ppdStatus, requests, replies, worker,
                    lostReads, waiting>>
    BY DEF ListenerForget
  <1>2. /\ listener[s].pc = "forget" /\ listener'[s].pc = "receive"
        /\ \A t \in Storage \ {s} : listener'[t] = listener[t] /\ sended'[t] = sended[t]
    BY DEF ListenerForget, ListenerLoops, ListenerMoves, ListenerAt, ThreadTypeOK, StorageTypeOK
  <1>3. \A t \in Storage \ {s} : QuietStorage(t)
    BY <1>1, <1>2, ListenerAlone, StraysSame DEF PendingGrows
  <1>4. /\ Accounted(s)' /\ Logged(s)'
        /\ \A c \in Socket, y \in Sector : Spare(s, c, y) => Spare(s, c, y)'
    BY ForgetKeepsLog
  <1>5. Scanned(s)'
    BY <1>2 DEF Scanned
  <1>6. ASSUME NEW c \in Socket, NEW y \in Sector, Kept(s, c, y)
        PROVE  Kept(s, c, y)'
    <2>1. ~ HandingOver(s) /\ ~ Collected(s) /\ ~ Collected(s)' /\ ~ ReplyingFor(s, c, y)
      BY <1>2 DEF Collected, HandingOver, ReplyingFor, Replying
    <2>2. QED
      BY <1>1, <1>4, <1>6, <2>1 DEF Kept, Unscanned
  <1>7. QED
    BY <1>1, <1>3, <1>4, <1>5, <1>6, OneStorageMoves, StraysSame DEF StorageInv

-----------------------------------------------------------------------------
(* A listener that hands the reads of its storage over.                     *)

\* Before the hand-over, nothing is moved.
LEMMA DisconnectionRecovers ==
  ASSUME IInv, RecoveryInv, NEW s \in Storage,
         ListenerDisconnected(s) \/ ProcessDisconnection(s), UNCHANGED <<nodeVars, clientVars>>
  PROVE  RecoveryInv'
  <1> USE DEF IInv, TypeOK
  <1>1. UNCHANGED <<pending, sended, sender, toPpd, fromPpd, jobs, ppdStatus, requests, replies,
                    worker, lostReads, waiting>>
    BY DEF ListenerDisconnected, ProcessDisconnection
  <1>2. /\ listener[s].pc \in {"receive", "disconnected"}
        /\ listener'[s].pc \in {"disconnected", "collectPending"}
        /\ listener'[s].scanned = 0
        /\ \A t \in Storage \ {s} : listener'[t] = listener[t]
    BY DEF ListenerDisconnected, ProcessDisconnection, ListenerMoves, ListenerAt, HandoverAt,
       ThreadTypeOK
  <1>3. \A t \in Storage \ {s} : QuietStorage(t)
    BY <1>1, <1>2, ListenerAlone, StraysSame DEF PendingGrows
  <1>4. QuietPipe(s)
    <2>1. Log(s)' = Log(s)
      BY <1>1 DEF Log
    <2>2. \A x : InHand(s, x)' = InHand(s, x)
      BY <1>2 DEF InHand
    <2>3. QED
      BY <1>1, <2>1, <2>2, AlikeSame, StraysSame DEF QuietPipe
  <1>5. Scanned(s)'
    <2>1. Len(pending'[s]) \in Nat /\ Len(sended'[s]) \in Nat
      BY <1>1, LenProperties DEF StorageTypeOK
    <2>2. Len(ScannedQueue(s)') \in Nat
      BY <2>1 DEF ScannedQueue
    <2>3. QED
      BY <1>2, <2>2 DEF Scanned
  <1>6. ASSUME NEW c \in Socket, NEW y \in Sector, Kept(s, c, y)
        PROVE  Kept(s, c, y)'
    <2>1. ~ HandingOver(s) /\ ~ Collected(s) /\ ~ Collected(s)' /\ ~ ReplyingFor(s, c, y)
      BY <1>2 DEF Collected, HandingOver, ReplyingFor, Replying
    <2>2. Spare(s, c, y)' <=> Spare(s, c, y)
      BY <1>4, PipeKept
    <2>3. QED
      BY <1>1, <1>6, <2>1, <2>2 DEF Kept, Unscanned
  <1>7. QED
    BY <1>1, <1>3, <1>4, <1>5, <1>6, PipeKept, OneStorageMoves, StraysSame DEF StorageInv

\* What a listener that hands over leaves alone.
LEMMA HandoverAlone ==
  ASSUME IInv, AllEnded, RecoveryInv, NEW s \in Storage, StraysStay, HandingOver(s),
         HandingOver(s)' \/ listener'[s].pc = "done",
         UNCHANGED <<sended, sender, toPpd, fromPpd, jobs, ppdStatus, requests, replies, worker,
                     waiting>>,
         \A t \in Storage : PendingGrows(t),
         \A t \in Storage \ {s} : listener'[t] = listener[t],
         lostReads \subseteq lostReads', Scanned(s)',
         \A c \in Socket, y \in Sector :
            \/ /\ ~ Collected(s) /\ Of(pending[s], c, y)
            \/ Of(listener[s].orphans, c, y)
            \/ Unscanned(s) /\ Spare(s, c, y)
            => \/ c \in lostReads'
               \/ ~ Collected(s)' /\ Of(pending'[s], c, y)
               \/ HandingOver(s)' /\ Of(listener'[s].orphans, c, y)
               \/ Unscanned(s)' /\ Spare(s, c, y)'
               \/ \E t \in Storage : Kept(t, c, y)'
  PROVE  RecoveryInv'
  <1> USE DEF IInv, TypeOK
  <1>1. \A t \in Storage \ {s} : QuietStorage(t)
    BY ListenerAlone, StraysSame
  <1>2. QuietPipe(s)
    <2>1. Log(s)' = Log(s)
      BY DEF Log
    <2>2. \A x : InHand(s, x)' = InHand(s, x)
      BY DEF InHand, HandingOver
    <2>3. QED
      BY <2>1, <2>2, AlikeSame, StraysSame DEF QuietPipe
  <1>3. StorageInv(s)'
    BY <1>2, PipeKept DEF StorageInv
  <1>4. ASSUME NEW c \in Socket, NEW y \in Sector, Kept(s, c, y)
        PROVE  Kept(s, c, y)' \/ c \in lostReads' \/ \E t \in Storage : Kept(t, c, y)'
    <2>1. ~ ReplyingFor(s, c, y)
      BY DEF HandingOver, ReplyingFor, Replying
    <2>2. CASE Of(toPpd[s], c, y) \/ Of(jobs[s], c, y) \/ Of(fromPpd[s], c, y)
      BY <2>2 DEF Kept
    <2>3. CASE \/ ~ Collected(s) /\ Of(pending[s], c, y)
               \/ Of(listener[s].orphans, c, y)
               \/ Unscanned(s) /\ Spare(s, c, y)
      <3>1. ppdStatus'[s] = "dead"
        BY DEF AllEnded, Ended
      <3>2. \/ c \in lostReads'
            \/ ~ Collected(s)' /\ Of(pending'[s], c, y)
            \/ HandingOver(s)' /\ Of(listener'[s].orphans, c, y)
            \/ Unscanned(s)' /\ Spare(s, c, y)'
            \/ \E t \in Storage : Kept(t, c, y)'
        BY <2>3
      <3>3. QED
        BY <3>1, <3>2 DEF Kept
    <2>5. QED
      BY <1>4, <2>1, <2>2, <2>3 DEF Kept
  <1>5. QED
    BY <1>1, <1>3, <1>4, OneStorageMoves, StraysSame

\* A queue that is scanned to its end leaves no read behind.
LEMMA ScannedAll ==
  ASSUME IInv, NEW s \in Storage, Scanned(s),
         listener[s].pc \in {"collectPending", "collectSended"},
         ~ (listener[s].scanned + 1 <= Len(ScannedQueue(s)))
  PROVE  \A c \in Socket, y \in Sector : Of(ScannedQueue(s), c, y) => Of(listener[s].orphans, c, y)
  <1> USE DEF IInv, TypeOK
  <1>1. ScannedQueue(s) \in Seq(Job)
    BY DEF ScannedQueue, StorageTypeOK
  <1>2. PICK q \in Seq(Job) : q = ScannedQueue(s)
    BY <1>1
  <1>3. Len(q) \in Nat /\ DOMAIN q = 1 .. Len(q) /\ listener[s].scanned \in Nat
    BY LenProperties DEF ThreadTypeOK, ListenerState
  <1>4. 1 .. Len(q) \subseteq 1 .. listener[s].scanned
    BY <1>2, <1>3
  <1>5. \A i \in 1 .. listener[s].scanned, c \in Socket, y \in Sector :
           IsOf(q[i], c, y) => Of(listener[s].orphans, c, y)
    BY <1>2 DEF Scanned
  <1>6. \A c \in Socket, y \in Sector : Of(q, c, y) => Of(listener[s].orphans, c, y)
    BY <1>3, <1>4, <1>5 DEF Of, IsOf
  <1>7. QED
    BY <1>2, <1>6

\* One more job of the queue is looked at.
LEMMA CollectsOne ==
  ASSUME IInv, AllEnded, RecoveryInv, NEW s \in Storage, CollectRead(s),
         listener[s].scanned + 1 <= Len(ScannedQueue(s)), UNCHANGED <<nodeVars, clientVars>>
  PROVE  RecoveryInv'
  <1> USE DEF IInv, TypeOK
  <1>1. UNCHANGED <<pending, sended, sender, toPpd, fromPpd, jobs, ppdStatus, requests, replies,
                    worker, lostReads, waiting>>
    BY DEF CollectRead
  <1>2. PICK q \in Seq(Job) : q = ScannedQueue(s)
    BY DEF ScannedQueue, StorageTypeOK
  <1>3. PICK i \in Nat : i = listener[s].scanned
    BY DEF ThreadTypeOK, ListenerState
  <1>4. PICK reads \in Seq(Job) : reads = listener[s].orphans
    BY DEF ThreadTypeOK, ListenerState
  <1>5. /\ i + 1 <= Len(q) /\ Len(q) \in Nat /\ q[i + 1] \in Job
        /\ \A j \in 1 .. i + 1 : j \in 1 .. i \/ j = i + 1
    <2>1. i + 1 <= Len(q) /\ Len(q) \in Nat
      BY <1>2, <1>3, LenProperties
    <2>2. i + 1 \in DOMAIN q
      BY <2>1, LenProperties
    <2>3. QED
      BY <2>1, <2>2, ElementOfSeq, LenProperties
  <1>6. /\ listener[s].pc \in {"collectPending", "collectSended"}
        /\ listener'[s].pc = listener[s].pc /\ listener'[s].scanned = i + 1
        /\ listener'[s].orphans = AddRead(reads, q[i + 1])
        /\ \A t \in Storage \ {s} : listener'[t] = listener[t]
    BY <1>2, <1>3, <1>4 DEF CollectRead, ListenerMoves, HandoverAt, ThreadTypeOK
  <1>7. \A c, y : Of(AddRead(reads, q[i + 1]), c, y) <=> Of(reads, c, y) \/ IsOf(q[i + 1], c, y)
    <2>1. CASE q[i + 1].op = "get"
      BY <1>5, <2>1, ReadAtAppend DEF AddRead
    <2>2. CASE q[i + 1].op # "get"
      BY <2>2 DEF AddRead, IsOf, IsRead
    <2>3. QED
      BY <2>1, <2>2
  <1>8. Scanned(s)'
    <2>1. ScannedQueue(s)' = q
      BY <1>1, <1>2, <1>6 DEF ScannedQueue
    <2>2. \A j \in 1 .. i, c \in Socket, y \in Sector : IsOf(q[j], c, y) => Of(reads, c, y)
      BY <1>2, <1>3, <1>4, <1>6 DEF RecoveryInv, StorageInv, Scanned
    <2>3. QED
      BY <1>5, <1>6, <1>7, <2>1, <2>2 DEF Scanned
  <1>9. /\ HandingOver(s) /\ HandingOver(s)' /\ (Collected(s)' <=> Collected(s))
        /\ (Unscanned(s)' <=> Unscanned(s))
    BY <1>6 DEF HandingOver, Collected, Unscanned
  <1>10. \A c, y : Spare(s, c, y)' <=> Spare(s, c, y)
    <2>1. Log(s)' = Log(s)
      BY <1>1 DEF Log
    <2>2. \A x : InHand(s, x)' = InHand(s, x)
      BY <1>6 DEF InHand
    <2>3. \A x : Back(s, x)' = Back(s, x)
      BY <1>1, <2>2 DEF Back
    <2>4. QED
      BY <2>1, <2>3 DEF Spare
  <1>11. QED
    BY <1>1, <1>4, <1>6, <1>7, <1>8, <1>9, <1>10, HandoverAlone, StraysSame DEF PendingGrows

\* The end of pendingJobs: its reads are kept, and those in the log are next.
LEMMA PendingCollected ==
  ASSUME IInv, AllEnded, RecoveryInv, NEW s \in Storage, CollectRead(s),
         listener[s].pc = "collectPending",
         ~ (listener[s].scanned + 1 <= Len(ScannedQueue(s))), UNCHANGED <<nodeVars, clientVars>>
  PROVE  RecoveryInv'
  <1> USE DEF IInv, TypeOK
  <1>1. UNCHANGED <<pending, sended, sender, toPpd, fromPpd, jobs, ppdStatus, requests, replies,
                    worker, lostReads, waiting>>
    BY DEF CollectRead
  <1>2. /\ listener'[s].pc = "collectSended" /\ listener'[s].scanned = 0
        /\ listener'[s].orphans = listener[s].orphans
        /\ \A t \in Storage \ {s} : listener'[t] = listener[t]
    BY DEF CollectRead, ListenerMoves, HandoverAt, ThreadTypeOK, AfterQueue
  <1>3. \A c \in Socket, y \in Sector : Of(pending[s], c, y) => Of(listener[s].orphans, c, y)
    BY ScannedAll DEF RecoveryInv, StorageInv, ScannedQueue
  <1>4. Scanned(s)'
    <2>1. ScannedQueue(s)' = sended[s] /\ Len(sended[s]) \in Nat
      BY <1>1, <1>2, LenProperties DEF ScannedQueue, StorageTypeOK
    <2>2. QED
      BY <1>2, <2>1 DEF Scanned
  <1>5. HandingOver(s) /\ HandingOver(s)' /\ Unscanned(s)'
    BY <1>2 DEF HandingOver, Unscanned
  <1>6. \A c, y : Spare(s, c, y)' <=> Spare(s, c, y)
    <2>1. Log(s)' = Log(s)
      BY <1>1 DEF Log
    <2>2. \A x : InHand(s, x)' = InHand(s, x)
      BY <1>2 DEF InHand
    <2>3. \A x : Back(s, x)' = Back(s, x)
      BY <1>1, <2>2 DEF Back
    <2>4. QED
      BY <2>1, <2>3 DEF Spare
  <1>7. QED
    BY <1>1, <1>2, <1>3, <1>4, <1>5, <1>6, HandoverAlone, StraysSame DEF PendingGrows

\* The end of sendedJobs, which is by now the whole log.
LEMMA SendedCollected ==
  ASSUME IInv, AllEnded, RecoveryInv, NEW s \in Storage, CollectRead(s),
         listener[s].pc = "collectSended",
         ~ (listener[s].scanned + 1 <= Len(ScannedQueue(s))), UNCHANGED <<nodeVars, clientVars>>
  PROVE  RecoveryInv'
  <1> USE DEF IInv, TypeOK
  <1>1. UNCHANGED <<pending, sended, sender, toPpd, fromPpd, jobs, ppdStatus, requests, replies,
                    worker, lostReads, waiting>>
    BY DEF CollectRead
  <1>2. /\ listener'[s].pc = "remove"
        /\ listener'[s].orphans = listener[s].orphans
        /\ \A t \in Storage \ {s} : listener'[t] = listener[t]
    BY DEF CollectRead, ListenerMoves, HandoverAt, ThreadTypeOK, AfterQueue
  <1>3. HandingOver(s) /\ HandingOver(s)' /\ Collected(s)
    BY <1>2 DEF HandingOver, Collected
  <1>4. Log(s) = sended[s]
    BY <1>3, NoSenderInside DEF Log
  <1>5. \A c \in Socket, y \in Sector : Of(sended[s], c, y) => Of(listener[s].orphans, c, y)
    BY ScannedAll DEF RecoveryInv, StorageInv, ScannedQueue
  <1>6. \A c \in Socket, y \in Sector : Spare(s, c, y) => Of(listener[s].orphans, c, y)
    BY <1>4, <1>5 DEF Spare, Covered, Of, IsOf
  <1>7. Scanned(s)'
    BY <1>2 DEF Scanned
  <1>8. QED
    BY <1>1, <1>2, <1>3, <1>6, <1>7, HandoverAlone, StraysSame DEF PendingGrows

\* The storage leaves the list.
LEMMA RemovalRecovers ==
  ASSUME IInv, AllEnded, RecoveryInv, NEW s \in Storage, RemoveDisconnected(s),
         UNCHANGED <<nodeVars, clientVars>>
  PROVE  RecoveryInv'
  <1> USE DEF IInv, TypeOK
  <1>1. UNCHANGED <<pending, sended, sender, toPpd, fromPpd, jobs, ppdStatus, requests, replies,
                    worker, lostReads, waiting>>
    BY DEF RemoveDisconnected
  <1>2. /\ listener[s].pc = "remove"
        /\ \/ listener[s].orphans = <<>> /\ listener'[s].pc = "done"
           \/ /\ listener'[s].pc = "redistribute"
              /\ listener'[s].orphans = listener[s].orphans
        /\ \A t \in Storage \ {s} : listener'[t] = listener[t]
    BY DEF RemoveDisconnected, ListenerEnds, ListenerMoves, ListenerAt, HandoverAt, ThreadTypeOK
  <1>3. /\ HandingOver(s) /\ Collected(s) /\ ~ Unscanned(s) /\ Scanned(s)'
        /\ HandingOver(s)' \/ listener'[s].pc = "done"
    BY <1>2 DEF HandingOver, Collected, Unscanned, Scanned
  <1>4. \A c, y : ~ Of(<<>>, c, y)
    BY NoneOf
  <1>5. \A c \in Socket, y \in Sector : Of(listener[s].orphans, c, y) =>
                             HandingOver(s)' /\ Of(listener'[s].orphans, c, y)
    BY <1>2, <1>4 DEF HandingOver
  <1>6. QED
    BY <1>1, <1>2, <1>3, <1>5, HandoverAlone, StraysSame DEF PendingGrows

\* A storage is found for the next read, or all that are left are lost.
LEMMA ChoiceRecovers ==
  ASSUME IInv, AllEnded, RecoveryInv, NEW s \in Storage, ChooseCandidate(s),
         UNCHANGED <<nodeVars, clientVars>>
  PROVE  RecoveryInv'
  <1> USE DEF IInv, TypeOK
  <1>1. UNCHANGED <<pending, sended, sender, toPpd, fromPpd, jobs, ppdStatus, requests, replies,
                    worker, waiting>>
    BY DEF ChooseCandidate
  <1>2. /\ listener[s].pc \in {"choose", "redistribute"} /\ lostReads \subseteq lostReads'
        /\ \/ /\ listener'[s].pc = "done"
              /\ { job.socket : job \in ToSet(listener[s].orphans) } \subseteq lostReads'
           \/ /\ listener'[s].pc = "assign"
              /\ listener'[s].orphans = listener[s].orphans
        /\ \A t \in Storage \ {s} : listener'[t] = listener[t]
    BY DEF ChooseCandidate, LoseReads, ListenerEnds, ListenerMoves, ListenerAt, HandoverAt,
       ThreadTypeOK
  <1>3. /\ HandingOver(s) /\ Collected(s) /\ ~ Unscanned(s) /\ Scanned(s)'
        /\ HandingOver(s)' \/ listener'[s].pc = "done"
    BY <1>2 DEF HandingOver, Collected, Unscanned, Scanned
  <1>4. ASSUME NEW c \in Socket, NEW y \in Sector, Of(listener[s].orphans, c, y)
        PROVE  \/ c \in lostReads'
               \/ HandingOver(s)' /\ Of(listener'[s].orphans, c, y)
    <2>1. CASE listener'[s].pc = "done"
      <3>1. PICK i \in DOMAIN listener[s].orphans : listener[s].orphans[i].socket = c
        BY <1>4 DEF Of, IsOf, IsRead
      <3>2. listener[s].orphans[i] \in ToSet(listener[s].orphans)
        BY DEF ToSet
      <3>3. QED
        BY <1>2, <2>1, <3>1, <3>2
    <2>2. CASE listener'[s].pc # "done"
      BY <1>2, <1>4, <2>2 DEF HandingOver
    <2>3. QED
      BY <2>1, <2>2
  <1>5. QED
    BY <1>1, <1>2, <1>3, <1>4, HandoverAlone, StraysSame DEF PendingGrows

\* A read is queued on the storage that was chosen for it, or is lost there.
LEMMA AssignmentRecovers ==
  ASSUME IInv, JobsInHand, AllEnded, RecoveryInv, NEW s \in Storage, AssignJob(s),
         UNCHANGED <<nodeVars, clientVars>>
  PROVE  RecoveryInv'
  <1> USE DEF IInv, TypeOK
  <1>1. UNCHANGED <<sended, sender, toPpd, fromPpd, jobs, ppdStatus, requests, replies, worker,
                    waiting>>
    BY DEF AssignJob
  <1>2. PICK q \in Seq(Job) : q = listener[s].orphans /\ q # <<>>
    BY DEF AssignJob, ThreadTypeOK, ListenerState, ThreadsHoldJobs
  <1>3. PICK target \in Storage : target = listener[s].target
    BY DEF AssignJob, JobsInHand, ListenerHolds
  <1>4. PICK job \in Job : job = Head(q)
    BY <1>2, HeadAndTail
  <1>5. QueueRead(target, job)
    BY <1>2, <1>3, <1>4 DEF AssignJob
  <1>6. /\ listener[s].pc = "assign" /\ lostReads \subseteq lostReads'
        /\ \/ Len(q) = 1 /\ listener'[s].pc = "done"
           \/ listener'[s].pc = "choose" /\ listener'[s].orphans = Tail(q)
        /\ \A t \in Storage \ {s} : listener'[t] = listener[t]
    <2>1. listener[s].pc = "assign" /\ lostReads \subseteq lostReads'
      BY <1>5 DEF AssignJob, QueueRead, LoseReads
    <2>2. \/ Len(q) = 1 /\ ListenerEnds(s)
          \/ ListenerMoves(s, HandoverAt("choose", 0, Tail(q), Nil))
      BY <1>2 DEF AssignJob
    <2>3. QED
      BY <2>1, <2>2 DEF ListenerEnds, ListenerMoves, ListenerAt, HandoverAt, ThreadTypeOK
  <1>7. /\ HandingOver(s) /\ Collected(s) /\ ~ Unscanned(s) /\ Scanned(s)'
        /\ HandingOver(s)' \/ listener'[s].pc = "done"
    BY <1>6 DEF HandingOver, Collected, Unscanned, Scanned
  <1>8. \A t \in Storage : PendingGrows(t)
    BY <1>5 DEF QueueRead, PendingGrows, StorageTypeOK
  <1>9. Collected(target)' => Collected(target)
    BY <1>6, <1>7 DEF Collected, HandingOver
  <1>10. ASSUME NEW c \in Socket, NEW y \in Sector, Of(listener[s].orphans, c, y)
         PROVE  \/ c \in lostReads'
                \/ HandingOver(s)' /\ Of(listener'[s].orphans, c, y)
                \/ \E t \in Storage : Kept(t, c, y)'
    <2>1. Of(Tail(q), c, y) \/ IsOf(job, c, y)
      BY <1>2, <1>4, <1>10, ReadAtTail
    <2>2. CASE IsOf(job, c, y)
      BY <1>5, <1>9, <2>2, QueuedIsKept
    <2>3. CASE Of(Tail(q), c, y)
      <3>1. Len(q) # 1
        <4>1. Len(q) = 1 => DOMAIN Tail(q) = {}
          BY <1>2, TailAt
        <4>2. QED
          BY <2>3, <4>1 DEF Of, IsOf
      <3>2. QED
        BY <1>6, <2>3, <3>1 DEF HandingOver
    <2>4. QED
      BY <2>1, <2>2, <2>3
  <1>11. QED
    BY <1>1, <1>6, <1>7, <1>8, <1>10, HandoverAlone, StraysSame

LEMMA ListenerRecovers ==
  ASSUME IInv, JobsInHand, AllEnded, RecoveryInv, NEW s \in Storage, Listener(s),
         UNCHANGED <<nodeVars, clientVars>>
  PROVE  RecoveryInv'
  <1>1. CASE CollectRead(s)
    <2>1. listener[s].pc \in {"collectPending", "collectSended"}
      BY <1>1 DEF CollectRead
    <2>2. QED
      BY <1>1, <2>1, CollectsOne, PendingCollected, SendedCollected
  <1>2. CASE ~ CollectRead(s)
    BY <1>2, ResponseRecovers, ReplyRecovers, ForgetRecovers, SyncRecovers, DisconnectionRecovers,
       RemovalRecovers, ChoiceRecovers, AssignmentRecovers DEF Listener
  <1>3. QED
    BY <1>1, <1>2

-----------------------------------------------------------------------------
(* The PPDs.                                                                *)

\* Only reads have a sector and a depth.
LEMMA ReadInSector ==
  ASSUME NEW q \in Seq(Message), NEW c, NEW x, NEW n, ReadAt(q, c, x, n)
  PROVE  x \in Sector /\ n \in Nat
  <1>1. PICK i \in DOMAIN q : /\ IsRead(q[i], c) /\ q[i].sector = x
                              /\ Num(q, Gets, x, i - 1) = n
    BY DEF ReadAt
  <1>2. q[i] \in Message /\ i - 1 \in Int
    BY ElementOfSeq, LenProperties
  <1>3. x \in Sector
    BY <1>1, <1>2 DEF IsRead, Message, Job, SyncMessage
  <1>4. Num(q, Gets, x, i - 1) \in Nat
    BY <1>2, NumType
  <1>5. QED
    BY <1>1, <1>3, <1>4

LEMMA JobsAreMessages == \A q \in Seq(Job) : q \in Seq(Message)
  BY DEF Message

\* What a PPD that goes on does to the others, when the reads it has it keeps.
LEMMA NodeMoves ==
  ASSUME IInv, AllEnded, RecoveryInv, NEW s \in Storage, StraysStay, ppdStatus[s] = "running",
         UNCHANGED <<praidVars, requests, replies, waiting>>,
         \A t \in Storage \ {s} : /\ toPpd'[t] = toPpd[t] /\ jobs'[t] = jobs[t]
                                  /\ fromPpd'[t] = fromPpd[t] /\ ppdStatus'[t] = ppdStatus[t],
         Accounted(s)', Logged(s)',
         \A c \in Socket, y \in Sector : Of(toPpd[s], c, y) \/ Of(jobs[s], c, y) \/ Of(fromPpd[s], c, y) =>
            \/ Of(toPpd'[s], c, y) \/ Of(jobs'[s], c, y) \/ Of(fromPpd'[s], c, y)
            \/ ppdStatus'[s] = "dead" /\ Unscanned(s)' /\ Spare(s, c, y)'
            \/ Astray(y)'
  PROVE  RecoveryInv'
  <1>1. \A t \in Storage \ {s} : QuietStorage(t)
    BY UntouchedStorage, StraysSame DEF PendingGrows
  <1>2. Scanned(s)'
    <2>1. Scanned(s)
      BY DEF RecoveryInv, StorageInv
    <2>2. QED
      BY <2>1 DEF Scanned, ScannedQueue
  <1>3. ASSUME NEW c \in Socket, NEW y \in Sector, Kept(s, c, y)
        PROVE  Kept(s, c, y)' \/ Astray(y)'
    <2>1. ppdStatus[s] # "dead"
      OBVIOUS
    <2>2. CASE Of(toPpd[s], c, y) \/ Of(jobs[s], c, y) \/ Of(fromPpd[s], c, y)
      BY <2>2 DEF Kept
    <2>3. CASE ~ (Of(toPpd[s], c, y) \/ Of(jobs[s], c, y) \/ Of(fromPpd[s], c, y))
      BY <1>3, <2>1, <2>3 DEF Kept, Collected, HandingOver, ReplyingFor, Replying
    <2>4. QED
      BY <2>2, <2>3
  <1>4. QED
    BY <1>1, <1>2, <1>3, OneStorageMoves, StraysSame DEF StorageInv

LEMMA NodeQuiet ==
  ASSUME IInv, RecoveryInv, StraysStay, UNCHANGED <<praidVars, requests, replies, waiting, ppdStatus>>,
         \A t \in Storage : /\ Alike(toPpd[t], toPpd'[t]) /\ Alike(jobs[t], jobs'[t])
                            /\ Alike(fromPpd[t], fromPpd'[t])
  PROVE  RecoveryInv'
  <1>1. ASSUME NEW t \in Storage
        PROVE  QuietStorage(t)
    <2>1. Log(t)' = Log(t)
      BY DEF Log
    <2>2. \A x : InHand(t, x)' = InHand(t, x)
      BY DEF InHand
    <2>3. QED
      BY <2>1, <2>2 DEF QuietStorage, QuietPipe, PendingGrows
  <1>2. /\ \A t \in Storage : StorageInv(t)'
        /\ \A c, y : (\E t \in Storage : Kept(t, c, y)) => \E t \in Storage : Kept(t, c, y)'
    BY <1>1, AllStoragesQuiet
  <1>3. \A c \in Socket, y \in Sector : OffStorage(c, y) => OffStorage(c, y)'
    BY AstrayStays DEF OffStorage, Reading
  <1>4. QED
    BY <1>2, <1>3, LiveStays DEF RecoveryInv

\* Log and hands stay as they are when PRAID does nothing.
LEMMA PraidWaits ==
  ASSUME UNCHANGED praidVars, NEW s \in Storage
  PROVE  Log(s)' = Log(s) /\ \A x : InHand(s, x)' = InHand(s, x)
  BY DEF Log, InHand

\* A job is taken from the connection and queued.
LEMMA QueuedJobRecovers ==
  ASSUME IInv, AllEnded, RecoveryInv, NEW s \in Storage, NodeQueueJob(s), UNCHANGED clientVars
  PROVE  RecoveryInv'
  <1> USE DEF IInv, TypeOK
  <1>1. UNCHANGED <<praidVars, requests, replies, waiting, fromPpd, ppdStatus>>
        /\ ppdStatus[s] = "running"
    BY DEF NodeQueueJob, Takes
  <1>2. Takes(s, {"get", "put"})
    BY DEF NodeQueueJob
  <1>3. /\ toPpd[s] \in Seq(Message) /\ toPpd[s] # <<>> /\ toPpd'[s] = Tail(toPpd[s])
        /\ \A t \in Storage \ {s} : toPpd'[t] = toPpd[t]
        /\ Head(toPpd[s]) \in Message /\ Head(toPpd[s]).op \in {"get", "put"}
    BY <1>2, TakesTail
  <1>4. PICK job \in Job, k \in Nat :
           /\ job = Head(toPpd[s])
           /\ jobs[s] \in Seq(Job) /\ jobs'[s] \in Seq(Job)
           /\ Without(jobs'[s], jobs[s], k) /\ jobs'[s][k] = job
           /\ jobs'[s] = Append(jobs[s], job) \/ job.sector \in misplaced'
           /\ misplaced \subseteq misplaced'
           /\ \A t \in Storage \ {s} : jobs'[t] = jobs[t]
    BY QueuedJob
  <1>5. StraysStay
    BY <1>4 DEF NodeQueueJob, StraysStay
  <1>6. /\ \A x : GetsIn(toPpd[s], x) = GetsIn(toPpd'[s], x) + Hit(job, Gets, x)
        /\ \A c, x : \A n \in Nat :
              ReadAt(toPpd'[s], c, x, n) => ReadAt(toPpd[s], c, x, n + Hit(job, Gets, x))
        /\ \A c : IsRead(job, c) => ReadAt(toPpd[s], c, job.sector, 0)
        /\ \A c, y : Of(toPpd[s], c, y) => Of(toPpd'[s], c, y) \/ IsOf(job, c, y)
    BY <1>3, <1>4, ReadAtTail
  <1>7. /\ \A x : GetsIn(jobs'[s], x) = GetsIn(jobs[s], x) + Hit(job, Gets, x)
        /\ \A c, x, n : ReadAt(jobs'[s], c, x, n) =>
                           \/ ReadAt(jobs[s], c, x, n)
                           \/ IsRead(job, c) /\ job.sector = x /\ n = GetsIn(jobs[s], x)
                           \/ Astray(x)'
        /\ \A c, y : Of(jobs'[s], c, y) <=> Of(jobs[s], c, y) \/ IsOf(job, c, y)
    <2> DEFINE q == jobs[s]
               r == jobs'[s]
    <2> HIDE DEF q, r
    <2>1. q \in Seq(Job) /\ r \in Seq(Job) /\ Without(r, q, k) /\ r[k] = job
      BY <1>4 DEF q, r
    <2>2. /\ \A x : GetsIn(r, x) = GetsIn(q, x) + Hit(job, Gets, x)
          /\ \A c, y : Of(r, c, y) <=> Of(q, c, y) \/ IsOf(job, c, y)
          /\ \A c, x, n : x # job.sector => (ReadAt(r, c, x, n) <=> ReadAt(q, c, x, n))
      BY <2>1, OtherSectors
    <2>3. CASE r = Append(q, job)
      <3>1. \A c, x, n : ReadAt(r, c, x, n) =>
                           \/ ReadAt(q, c, x, n)
                           \/ IsRead(job, c) /\ job.sector = x /\ n = GetsIn(q, x)
        BY <2>1, <2>3, ReadAtAppend
      <3>2. QED
        BY <2>2, <3>1 DEF q, r
    <2>4. CASE job.sector \in misplaced'
      <3>1. Astray(job.sector)'
        BY <2>4 DEF Astray
      <3>2. \A c, x, n : ReadAt(r, c, x, n) => ReadAt(q, c, x, n) \/ Astray(x)'
        BY <2>2, <3>1
      <3>3. QED
        BY <2>2, <3>2 DEF q, r
    <2>5. QED
      BY <1>4, <2>3, <2>4 DEF q, r
  <1>8. /\ \A x : /\ GetsIn(jobs[s], x) \in Nat /\ Back(s, x) \in Nat
                  /\ GetsIn(toPpd[s], x) \in Nat /\ Hit(job, Gets, x) \in Nat
        /\ \A x : GetsIn(toPpd'[s], x) \in Nat
    <2>1. \A x : GetsIn(toPpd'[s], x) \in Nat
      BY <1>3, HeadAndTail, GetsType
    <2>2. QED
      BY <2>1, PipeType DEF Hit
  <1>9. Log(s)' = Log(s) /\ \A x : InHand(s, x)' = InHand(s, x)
    BY <1>1, PraidWaits
  <1>10. \A x : Back(s, x)' = Back(s, x)
    BY <1>1, <1>9 DEF Back
  <1>11. Accounted(s)'
    <2>1. \A x : Total(s, x)' = Total(s, x)
      BY <1>6, <1>7, <1>8, <1>10 DEF Total
    <2>2. QED
      BY <1>9, <2>1 DEF RecoveryInv, StorageInv, Accounted
  <1>12. Logged(s)'
    <2> SUFFICES ASSUME NEW c \in Socket, NEW x \in Sector, NEW d \in Nat, Depth(s, c, x, d)'
                 PROVE  Depth(s, c, x, d) \/ Astray(x)'
      BY <1>5, <1>9, AstrayStays DEF RecoveryInv, StorageInv, Logged
    <2>1. PICK n \in Nat :
             \/ ReadAt(fromPpd[s], c, x, n) /\ d = InHand(s, x) + n
             \/ ReadAt(jobs'[s], c, x, n) /\ d = Back(s, x) + n
             \/ ReadAt(toPpd'[s], c, x, n) /\ d = Back(s, x) + GetsIn(jobs'[s], x) + n
      BY <1>1, <1>9, <1>10 DEF Depth
    <2>2. CASE ReadAt(jobs'[s], c, x, n) /\ d = Back(s, x) + n
      <3>1. CASE ReadAt(jobs[s], c, x, n)
        BY <2>2, <3>1 DEF Depth
      <3>2. CASE IsRead(job, c) /\ job.sector = x /\ n = GetsIn(jobs[s], x)
        <4>1. ReadAt(toPpd[s], c, x, 0) /\ d = Back(s, x) + GetsIn(jobs[s], x) + 0
          BY <1>6, <1>8, <2>2, <3>2
        <4>2. QED
          BY <4>1 DEF Depth
      <3>3. QED
        BY <1>7, <2>2, <3>1, <3>2
    <2>3. CASE ReadAt(toPpd'[s], c, x, n) /\ d = Back(s, x) + GetsIn(jobs'[s], x) + n
      <3>1. ReadAt(toPpd[s], c, x, n + Hit(job, Gets, x))
        BY <1>6, <2>3
      <3>2. d = Back(s, x) + GetsIn(jobs[s], x) + (n + Hit(job, Gets, x))
        BY <1>7, <1>8, <2>3
      <3>3. n + Hit(job, Gets, x) \in Nat
        BY <1>8
      <3>4. QED
        BY <3>1, <3>2, <3>3 DEF Depth
    <2>4. QED
      BY <2>1, <2>2, <2>3 DEF Depth
  <1>13. QED
    BY <1>1, <1>3, <1>4, <1>5, <1>6, <1>7, <1>11, <1>12, NodeMoves

\* A job falls off the list of jobs: its sector is astray from now on.
LEMMA LostJobRecovers ==
  ASSUME IInv, AllEnded, RecoveryInv, NEW s \in Storage, NodeLosesJob(s), UNCHANGED clientVars
  PROVE  RecoveryInv'
  <1> USE DEF IInv, TypeOK
  <1>1. /\ UNCHANGED <<praidVars, requests, replies, waiting, toPpd, fromPpd, ppdStatus>>
        /\ ppdStatus[s] = "running"
    BY DEF NodeLosesJob
  <1>2. PICK job \in Job, i \in DOMAIN jobs[s] :
           /\ job = jobs[s][i]
           /\ jobs[s] \in Seq(Job) /\ jobs'[s] \in Seq(Job)
           /\ Without(jobs[s], jobs'[s], i)
           /\ dropped' = dropped \cup {job.sector}
           /\ \A t \in Storage \ {s} : jobs'[t] = jobs[t]
    BY LostJob
  <1>3. StraysStay /\ Astray(job.sector)'
    BY <1>2 DEF NodeLosesJob, StraysStay, Astray
  <1>4. /\ \A x : GetsIn(jobs[s], x) = GetsIn(jobs'[s], x) + Hit(job, Gets, x)
        /\ \A c, y : Of(jobs[s], c, y) => Of(jobs'[s], c, y) \/ Astray(y)'
        /\ \A c, x, n : ReadAt(jobs'[s], c, x, n) => ReadAt(jobs[s], c, x, n) \/ Astray(x)'
    <2> DEFINE q == jobs[s]
               r == jobs'[s]
    <2> HIDE DEF q, r
    <2>1. q \in Seq(Job) /\ r \in Seq(Job) /\ Without(q, r, i) /\ q[i] = job
      BY <1>2 DEF q, r
    <2>2. /\ \A x : GetsIn(q, x) = GetsIn(r, x) + Hit(job, Gets, x)
          /\ \A c, y : Of(q, c, y) <=> Of(r, c, y) \/ IsOf(job, c, y)
          /\ \A c, x, n : x # job.sector => (ReadAt(q, c, x, n) <=> ReadAt(r, c, x, n))
      BY <2>1, OtherSectors
    <2>3. /\ \A c, y : Of(q, c, y) => Of(r, c, y) \/ Astray(y)'
          /\ \A c, x, n : ReadAt(r, c, x, n) => ReadAt(q, c, x, n) \/ Astray(x)'
      BY <1>3, <2>2 DEF IsOf
    <2>4. QED
      BY <2>2, <2>3 DEF q, r
  <1>5. /\ \A x : /\ GetsIn(jobs[s], x) \in Nat /\ Back(s, x) \in Nat /\ Total(s, x) \in Nat
                  /\ GetsIn(toPpd[s], x) \in Nat /\ Hit(job, Gets, x) \in Nat
                  /\ Num(Log(s), AllOps, x, Len(Log(s))) \in Nat
        /\ \A x : GetsIn(jobs'[s], x) \in Nat
    <2>1. \A x : GetsIn(jobs'[s], x) \in Nat
      BY <1>2, GetsType
    <2>2. QED
      BY <2>1, PipeType DEF Hit
  <1>6. Log(s)' = Log(s) /\ \A x : InHand(s, x)' = InHand(s, x)
    BY <1>1, PraidWaits
  <1>7. \A x : Back(s, x)' = Back(s, x)
    BY <1>1, <1>6 DEF Back
  <1>8. Accounted(s)'
    <2>1. \A x : Total(s, x)' <= Total(s, x) /\ Total(s, x)' \in Nat
      BY <1>1, <1>4, <1>5, <1>7 DEF Total
    <2>2. QED
      BY <1>5, <1>6, <2>1 DEF RecoveryInv, StorageInv, Accounted
  <1>9. Logged(s)'
    <2> SUFFICES ASSUME NEW c \in Socket, NEW x \in Sector, NEW d \in Nat, Depth(s, c, x, d)'
                 PROVE  Depth(s, c, x, d) \/ Astray(x)'
      BY <1>3, <1>6, AstrayStays DEF RecoveryInv, StorageInv, Logged
    <2>1. PICK n \in Nat :
             \/ ReadAt(fromPpd[s], c, x, n) /\ d = InHand(s, x) + n
             \/ ReadAt(jobs'[s], c, x, n) /\ d = Back(s, x) + n
             \/ ReadAt(toPpd[s], c, x, n) /\ d = Back(s, x) + GetsIn(jobs'[s], x) + n
      BY <1>1, <1>6, <1>7 DEF Depth
    <2>2. CASE x = job.sector
      BY <1>3, <2>2
    <2>3. CASE x # job.sector
      <3>1. GetsIn(jobs'[s], x) = GetsIn(jobs[s], x)
        BY <1>4, <1>5, <2>3 DEF Hit
      <3>2. QED
        BY <1>4, <2>1, <3>1 DEF Depth
    <2>4. QED
      BY <2>2, <2>3
  <1>10. QED
    BY <1>1, <1>2, <1>3, <1>4, <1>8, <1>9, NodeMoves

\* A read is executed: the first of its sector, whose answer is the last.
LEMMA ExecutedReadRecovers ==
  ASSUME IInv, AllEnded, RecoveryInv, NEW s \in Storage, NEW i \in DOMAIN jobs[s],
         ppdStatus[s] = "running", Executable(s, i), jobs[s][i].op = "get",
         NEW m \in Message, m.op = "get", m.socket = jobs[s][i].socket,
         m.sector = jobs[s][i].sector,
         jobs' = [jobs EXCEPT ![s] = RemoveAt(@, i)],
         fromPpd' = [fromPpd EXCEPT ![s] = Append(@, m)],
         UNCHANGED <<praidVars, requests, replies, waiting, toPpd, ppdStatus>>, StraysStay
  PROVE  RecoveryInv'
  <1> USE DEF IInv, TypeOK
  <1>1. /\ jobs[s] \in Seq(Job) /\ fromPpd[s] \in Seq(Message)
        /\ jobs'[s] = RemoveAt(jobs[s], i) /\ fromPpd'[s] = Append(fromPpd[s], m)
        /\ \A t \in Storage \ {s} : jobs'[t] = jobs[t] /\ fromPpd'[t] = fromPpd[t]
    BY DEF NodeTypeOK, NetworkTypeOK
  <1>2. jobs'[s] \in Seq(Job) /\ Without(jobs[s], jobs'[s], i)
    BY <1>1, RemoveAtWithout
  <1>3. \A j \in 1 .. i - 1 : jobs[s][j].sector # jobs[s][i].sector
    BY DEF Executable
  <1>4. \A x : Hit(jobs[s][i], Gets, x) = Hit(m, Gets, x)
    BY DEF Hit
  <1>5. \A c, y : IsOf(jobs[s][i], c, y) <=> IsOf(m, c, y)
    BY DEF IsOf, IsRead
  <1>6. /\ \A x : GetsIn(jobs[s], x) = GetsIn(jobs'[s], x) + Hit(jobs[s][i], Gets, x)
        /\ \A c, x : \A n \in Nat :
              ReadAt(jobs'[s], c, x, n) => ReadAt(jobs[s], c, x, n + Hit(jobs[s][i], Gets, x))
        /\ \A c : IsRead(jobs[s][i], c) => ReadAt(jobs[s], c, jobs[s][i].sector, 0)
        /\ \A c, y : Of(jobs[s], c, y) => Of(jobs'[s], c, y) \/ IsOf(jobs[s][i], c, y)
    BY <1>1, <1>2, <1>3, ReadAtWithout
  <1>7. /\ \A x : GetsIn(fromPpd'[s], x) = GetsIn(fromPpd[s], x) + Hit(m, Gets, x)
        /\ \A c, x, n : ReadAt(fromPpd'[s], c, x, n) =>
                           \/ ReadAt(fromPpd[s], c, x, n)
                           \/ IsRead(m, c) /\ m.sector = x /\ n = GetsIn(fromPpd[s], x)
        /\ \A c, y : Of(fromPpd'[s], c, y) <=> Of(fromPpd[s], c, y) \/ IsOf(m, c, y)
    BY <1>1, ReadAtAppend
  <1>8. /\ \A x : /\ GetsIn(jobs[s], x) \in Nat /\ GetsIn(fromPpd[s], x) \in Nat
                  /\ GetsIn(toPpd[s], x) \in Nat /\ Hit(m, Gets, x) \in Nat
                  /\ InHand(s, x) \in Nat /\ Back(s, x) \in Nat
        /\ \A x : GetsIn(jobs'[s], x) \in Nat
    <2>1. \A x : GetsIn(jobs'[s], x) \in Nat
      BY <1>2, GetsType
    <2>2. QED
      BY <2>1, PipeType DEF Hit
  <1>9. Log(s)' = Log(s) /\ \A x : InHand(s, x)' = InHand(s, x)
    BY PraidWaits
  <1>10. \A x : Back(s, x)' = Back(s, x) + Hit(m, Gets, x)
    BY <1>7, <1>8, <1>9 DEF Back
  <1>11. Accounted(s)'
    <2>1. \A x : Total(s, x)' = Total(s, x)
      BY <1>4, <1>6, <1>8, <1>10 DEF Total
    <2>2. QED
      BY <1>9, <2>1 DEF RecoveryInv, StorageInv, Accounted
  <1>12. Logged(s)'
    <2> SUFFICES ASSUME NEW c \in Socket, NEW x \in Sector, NEW d \in Nat, Depth(s, c, x, d)'
                 PROVE  Depth(s, c, x, d)
      BY <1>9, AstrayStays DEF RecoveryInv, StorageInv, Logged
    <2>1. PICK n \in Nat :
             \/ ReadAt(fromPpd'[s], c, x, n) /\ d = InHand(s, x) + n
             \/ ReadAt(jobs'[s], c, x, n) /\ d = Back(s, x)' + n
             \/ ReadAt(toPpd[s], c, x, n) /\ d = Back(s, x)' + GetsIn(jobs'[s], x) + n
      BY <1>9 DEF Depth
    <2>2. CASE ReadAt(fromPpd'[s], c, x, n) /\ d = InHand(s, x) + n
      <3>1. CASE ReadAt(fromPpd[s], c, x, n)
        BY <2>2, <3>1 DEF Depth
      <3>2. CASE IsRead(m, c) /\ m.sector = x /\ n = GetsIn(fromPpd[s], x)
        <4>1. ReadAt(jobs[s], c, x, 0)
          <5>1. IsRead(jobs[s][i], c) /\ jobs[s][i].sector = x
            BY <3>2 DEF IsRead
          <5>2. QED
            BY <1>6, <5>1
        <4>2. d = Back(s, x) + 0
          BY <1>8, <2>2, <3>2 DEF Back
        <4>3. QED
          BY <4>1, <4>2 DEF Depth
      <3>3. QED
        BY <1>7, <2>2, <3>1, <3>2
    <2>3. CASE ReadAt(jobs'[s], c, x, n) /\ d = Back(s, x)' + n
      <3>1. ReadAt(jobs[s], c, x, n + Hit(m, Gets, x))
        BY <1>4, <1>6, <2>3
      <3>2. d = Back(s, x) + (n + Hit(m, Gets, x)) /\ n + Hit(m, Gets, x) \in Nat
        BY <1>8, <1>10, <2>3
      <3>3. QED
        BY <3>1, <3>2 DEF Depth
    <2>4. CASE ReadAt(toPpd[s], c, x, n) /\ d = Back(s, x)' + GetsIn(jobs'[s], x) + n
      <3>1. d = Back(s, x) + GetsIn(jobs[s], x) + n
        BY <1>4, <1>6, <1>8, <1>10, <2>4
      <3>2. QED
        BY <2>4, <3>1 DEF Depth
    <2>5. QED
      BY <2>1, <2>2, <2>3, <2>4
  <1>13. QED
    BY <1>1, <1>5, <1>6, <1>7, <1>11, <1>12, NodeMoves

LEMMA NothingRead == \A x : GetsIn(<<>>, x) = 0 /\ \A c, n : ~ ReadAt(<<>>, c, x, n)
  <1>1. Len(<<>>) = 0 /\ DOMAIN <<>> = {} /\ 0 \in Int
    OBVIOUS
  <1>2. \A x : Num(<<>>, Gets, x, 0) = 0
    <2> TAKE x
    <2>1. \A j \in 1 .. 0 : <<>>[j].sector # x
      OBVIOUS
    <2>2. QED
      BY <1>1, <2>1, NumZero
  <1>3. QED
    BY <1>1, <1>2 DEF GetsIn, ReadAt

\* A PPD ends: the log has what it had not answered.
LEMMA EndRecovers ==
  ASSUME IInv, AllEnded, RecoveryInv, NEW s \in Storage, ppdStatus[s] = "running", Ends(s),
         UNCHANGED <<praidVars, requests, replies, waiting, fromPpd, misplaced, dropped>>
  PROVE  RecoveryInv'
  <1> USE DEF IInv, TypeOK
  <1>0. StraysStay
    BY DEF StraysStay
  <1>1. /\ ppdStatus'[s] = "dead" /\ toPpd'[s] = <<>> /\ jobs'[s] = <<>>
        /\ \A t \in Storage \ {s} : /\ toPpd'[t] = toPpd[t] /\ jobs'[t] = jobs[t]
                                    /\ ppdStatus'[t] = ppdStatus[t]
    BY DEF Ends, NodeTypeOK, NetworkTypeOK
  <1>2. /\ toPpd[s] \in Seq(Message) /\ jobs[s] \in Seq(Job) /\ jobs[s] \in Seq(Message)
    BY JobsAreMessages DEF NodeTypeOK, NetworkTypeOK
  <1>3. \A x : GetsIn(<<>>, x) = 0 /\ \A c, n : ~ ReadAt(<<>>, c, x, n)
    BY NothingRead
  <1>4. \A x : /\ GetsIn(jobs[s], x) \in Nat /\ GetsIn(toPpd[s], x) \in Nat
               /\ Back(s, x) \in Nat /\ Total(s, x) \in Nat
               /\ Num(Log(s), AllOps, x, Len(Log(s))) \in Nat
    BY PipeType
  <1>5. Log(s)' = Log(s) /\ \A x : InHand(s, x)' = InHand(s, x)
    BY PraidWaits
  <1>6. \A x : Back(s, x)' = Back(s, x)
    BY <1>5 DEF Back
  <1>7. Accounted(s)'
    <2>1. \A x : Total(s, x)' <= Total(s, x) /\ Total(s, x)' \in Nat
      <3>1. \A x : Total(s, x)' = Back(s, x) + 0 + 0
        BY <1>1, <1>3, <1>6 DEF Total
      <3>2. QED
        BY <1>4, <3>1 DEF Total
    <2>2. QED
      BY <1>4, <1>5, <2>1 DEF RecoveryInv, StorageInv, Accounted
  <1>8. Logged(s)'
    <2>1. \A c, x, d : Depth(s, c, x, d)' => Depth(s, c, x, d)
      BY <1>1, <1>3, <1>5 DEF Depth
    <2>2. QED
      BY <1>0, <1>5, <2>1, AstrayStays DEF RecoveryInv, StorageInv, Logged
  <1>9. ASSUME NEW c \in Socket, NEW y \in Sector, Of(toPpd[s], c, y) \/ Of(jobs[s], c, y)
        PROVE  (Unscanned(s)' /\ Spare(s, c, y)') \/ Astray(y)'
    <2>1. ~ Collected(s)
      BY DEF AllEnded, Ended, Collected
    <2>2. Unscanned(s)'
      BY <2>1 DEF Unscanned, Collected, HandingOver
    <2>3. PICK n \in Nat : ReadAt(toPpd[s], c, y, n) \/ ReadAt(jobs[s], c, y, n)
      BY <1>2, <1>9, ReadAtOf
    <2>4. PICK d \in Nat : Depth(s, c, y, d) /\ Back(s, y) <= d
      <3>1. CASE ReadAt(jobs[s], c, y, n)
        <4>1. Back(s, y) + n \in Nat /\ Back(s, y) <= Back(s, y) + n
          BY <1>4
        <4>2. QED
          BY <3>1, <4>1 DEF Depth
      <3>2. CASE ReadAt(toPpd[s], c, y, n)
        <4>1. /\ Back(s, y) + GetsIn(jobs[s], y) + n \in Nat
              /\ Back(s, y) <= Back(s, y) + GetsIn(jobs[s], y) + n
          BY <1>4
        <4>2. QED
          BY <3>2, <4>1 DEF Depth
      <3>3. QED
        BY <2>3, <3>1, <3>2
    <2>5. CASE Astray(y)
      BY <1>0, <2>5, AstrayStays
    <2>6. CASE Covered(Log(s), c, y, d)
      <3>1. Log(s) \in Seq(Job) /\ Back(s, y) \in Nat
        BY PipeType
      <3>2. Covered(Log(s), c, y, Back(s, y))
        BY <2>4, <2>6, <3>1, CoveredLess
      <3>3. Spare(s, c, y)'
        BY <1>5, <1>6, <3>2 DEF Spare
      <3>4. QED
        BY <2>2, <3>3
    <2>7. QED
      BY <2>4, <2>5, <2>6 DEF RecoveryInv, StorageInv, Logged
  <1>10. QED
    BY <1>0, <1>1, <1>7, <1>8, <1>9, NodeMoves

LEMMA ExecutionRecovers ==
  ASSUME IInv, AllEnded, RecoveryInv, NEW s \in Storage, NodeExecute(s), UNCHANGED clientVars
  PROVE  RecoveryInv'
  <1> USE DEF IInv, TypeOK
  <1>1. /\ UNCHANGED <<praidVars, requests, replies, waiting, misplaced, dropped>>
        /\ ppdStatus[s] = "running" /\ StraysStay
    BY DEF NodeExecute, StraysStay
  <1>2. PICK i \in DOMAIN jobs[s] : Executable(s, i) /\ Executes(s, i)
    BY DEF NodeExecute
  <1>3. jobs[s] \in Seq(Job) /\ disk[s] \in Seq(Value)
    BY DEF NodeTypeOK
  <1>4. PICK job \in Job : job = jobs[s][i]
    BY <1>3, ElementOfSeq, LenProperties
  <1>5. CASE ~ (mapped[s] /\ job.sector \in DOMAIN disk[s])
    BY <1>1, <1>2, <1>4, <1>5, EndRecovers DEF Executes
  <1>6. CASE mapped[s] /\ job.sector \in DOMAIN disk[s] /\ job.op = "put"
    <2>1. /\ UNCHANGED <<toPpd, fromPpd, ppdStatus>>
          /\ jobs' = [jobs EXCEPT ![s] = RemoveAt(@, i)]
      BY <1>2, <1>4, <1>6 DEF Executes
    <2>2. jobs'[s] = RemoveAt(jobs[s], i) /\ \A t \in Storage \ {s} : jobs'[t] = jobs[t]
      BY <2>1 DEF NodeTypeOK
    <2>3. jobs'[s] \in Seq(Job) /\ Without(jobs[s], jobs'[s], i)
      BY <1>3, <2>2, RemoveAtWithout
    <2>4. jobs[s][i].op # "get" /\ \A j \in 1 .. i - 1 : jobs[s][j].sector # jobs[s][i].sector
      BY <1>2, <1>4, <1>6 DEF Executable
    <2>5. Alike(jobs[s], jobs'[s])
      BY <1>3, <2>3, <2>4, AlikeWithout
    <2>6. \A t \in Storage : /\ Alike(toPpd[t], toPpd'[t]) /\ Alike(jobs[t], jobs'[t])
                             /\ Alike(fromPpd[t], fromPpd'[t])
      BY <2>1, <2>2, <2>5, AlikeSame
    <2>7. QED
      BY <1>1, <2>1, <2>6, NodeQuiet
  <1>7. CASE mapped[s] /\ job.sector \in DOMAIN disk[s] /\ job.op # "put"
    <2>1. PICK m \in Job : m = [job EXCEPT !.value = disk[s][job.sector]]
      <3>1. disk[s][job.sector] \in Value
        BY <1>3, <1>7, ElementOfSeq, LenProperties
      <3>2. QED
        BY <3>1 DEF Job
    <2>2. /\ m \in Message /\ m.op = "get" /\ m.socket = job.socket /\ m.sector = job.sector
          /\ job.op = "get"
      BY <1>7, <2>1 DEF Job, Message
    <2>3. /\ UNCHANGED <<toPpd, ppdStatus>>
          /\ jobs' = [jobs EXCEPT ![s] = RemoveAt(@, i)]
          /\ fromPpd' = [fromPpd EXCEPT ![s] = Append(@, m)]
      BY <1>2, <1>4, <1>7, <2>1 DEF Executes
    <2>4. QED
      BY <1>1, <1>2, <1>4, <2>2, <2>3, ExecutedReadRecovers
  <1>8. QED
    BY <1>5, <1>6, <1>7

LEMMA NodeRecovers ==
  ASSUME IInv, AllEnded, RecoveryInv, NEW s \in Storage,
         Node(s) \/ NodeLosesJob(s) \/ NodeDies(s), UNCHANGED clientVars
  PROVE  RecoveryInv'
  <1> USE DEF IInv, TypeOK
  <1>1. CASE Ends(s) /\ (NodeSyncGet(s) \/ NodeDies(s))
    <2>1. /\ UNCHANGED <<praidVars, requests, replies, waiting, fromPpd, misplaced, dropped>>
          /\ ppdStatus[s] = "running"
      BY <1>1 DEF NodeSyncGet, NodeDies, Takes
    <2>2. QED
      BY <1>1, <2>1, EndRecovers
  <1>2. CASE (NodeSyncGet(s) /\ ~ Ends(s)) \/ NodeSyncPut(s) \/ NodeSyncEnd(s)
    <2>1. /\ UNCHANGED <<praidVars, requests, replies, waiting, jobs, fromPpd, ppdStatus>>
          /\ StraysStay
      BY <1>2 DEF NodeSyncGet, NodeSyncPut, NodeSyncEnd, StraysStay
    <2>2. PICK op \in {"syncGet", "syncPut", "syncEnd"} : Takes(s, {op})
      BY <1>2 DEF NodeSyncGet, NodeSyncPut, NodeSyncEnd
    <2>3. /\ toPpd[s] \in Seq(Message) /\ toPpd[s] # <<>>
          /\ Head(toPpd[s]).op = op /\ toPpd'[s] = Tail(toPpd[s])
          /\ \A t \in Storage \ {s} : toPpd'[t] = toPpd[t]
      BY <2>2, TakesTail
    <2>4. \A t \in Storage : Alike(toPpd[t], toPpd'[t])
      BY <2>3, AlikeTail, AlikeSame
    <2>5. QED
      BY <2>1, <2>4, NodeQuiet, AlikeSame
  <1>3. CASE NodeStream(s) \/ NodeStreamEnd(s)
    <2>1. /\ UNCHANGED <<praidVars, requests, replies, waiting, jobs, toPpd, ppdStatus>>
          /\ StraysStay
      BY <1>3 DEF NodeStream, NodeStreamEnd, StraysStay
    <2>2. PICK m \in Message : m.op # "get" /\ fromPpd' = [fromPpd EXCEPT ![s] = Append(@, m)]
      <3>1. CASE NodeStream(s)
        <4>1. disk[s][stream[s]] \in Value
          BY <3>1, ElementOfSeq, LenProperties DEF NodeStream, NodeTypeOK
        <4>2. QED
          BY <3>1, <4>1, SyncOp DEF NodeStream
      <3>2. CASE NodeStreamEnd(s)
        BY <3>2, InitialValues, SyncOp DEF NodeStreamEnd
      <3>3. QED
        BY <1>3, <3>1, <3>2
    <2>3. \A t \in Storage : fromPpd[t] \in Seq(Message)
                /\ (fromPpd'[t] = fromPpd[t] \/ fromPpd'[t] = Append(fromPpd[t], m))
      BY <2>2 DEF NetworkTypeOK
    <2>4. \A t \in Storage : Alike(fromPpd[t], fromPpd'[t])
      BY <2>2, <2>3, AlikeSame, AlikeAppend
    <2>5. QED
      BY <2>1, <2>4, NodeQuiet, AlikeSame
  <1>4. CASE NodeUnmap(s)
    BY <1>4, NodeQuiet, AlikeSame DEF NodeUnmap, StraysStay
  <1>5. QED
    <2>1. NodeDies(s) => Ends(s)
      BY DEF NodeDies
    <2>2. QED
      BY <1>1, <1>2, <1>3, <1>4, <2>1, QueuedJobRecovers, LostJobRecovers, ExecutionRecovers
         DEF Node

-----------------------------------------------------------------------------
(* Every step, and the theorems.                                            *)

LEMMA RecoveryStep ==
  ASSUME IInv, JobsInHand, AllEnded, RecoveryInv, [Next]_vars
  PROVE  RecoveryInv'
  <1>1. CASE UNCHANGED vars
    <2>1. /\ UNCHANGED <<praidVars, requests, replies, waiting, ppdStatus, toPpd, jobs, fromPpd>>
          /\ StraysStay
      BY <1>1, StraysSame DEF vars
    <2>2. QED
      BY <2>1, NodeQuiet, AlikeSame
  <1>2. CASE up /\ PraidStep
    <2>1. UNCHANGED <<nodeVars, clientVars>>
      BY <1>2 DEF PraidStep
    <2>2. \/ Acceptor(Drained)
          \/ \E c \in Socket : Worker(c)
          \/ \E s \in Storage : Sender(s) \/ Listener(s)
      BY <1>2 DEF PraidStep
    <2>3. QED
      BY <1>2, <2>1, <2>2, AcceptorRecovers, WorkerRecovers, SenderRecovers, ListenerRecovers
  <1>3. CASE NodeStep
    BY <1>3, NodeRecovers DEF NodeStep
  <1>4. CASE ClientStep
    BY <1>4, ClientRecovers
  <1>5. QED
    BY <1>1, <1>2, <1>3, <1>4 DEF Next

\* Nothing is sent or asked for at the start.
LEMMA RecoveryInit == Init => RecoveryInv
  <1> SUFFICES ASSUME Init
               PROVE  RecoveryInv
    OBVIOUS
  <1>1. IInv
    BY InitInvariant
  <1>2. ASSUME NEW s \in Storage
        PROVE  /\ toPpd[s] = <<>> /\ jobs[s] = <<>> /\ fromPpd[s] = <<>>
               /\ listener[s].pc \in {"off", "receive"}
    BY DEF Init, InitPraid, InitNode, ListenerAt
  <1>3. ASSUME NEW s \in Storage
        PROVE  StorageInv(s)
    <2>1. \A x : InHand(s, x) = 0 /\ GetsIn(<<>>, x) = 0 /\ \A c, n : ~ ReadAt(<<>>, c, x, n)
      BY <1>2, NothingRead DEF InHand
    <2>2. Accounted(s)
      <3>1. \A x : Total(s, x) = 0
        BY <1>2, <2>1 DEF Total, Back
      <3>2. \A x : Num(Log(s), AllOps, x, Len(Log(s))) \in Nat
        BY <1>1, PipeType
      <3>3. QED
        BY <3>1, <3>2 DEF Accounted
    <2>3. Logged(s)
      BY <1>2, <2>1 DEF Logged, Depth
    <2>4. Scanned(s)
      BY <1>2 DEF Scanned
    <2>5. QED
      BY <2>2, <2>3, <2>4 DEF StorageInv
  <1>4. \A c \in Socket : Live(c)
    BY DEF Init, InitClient, Live
  <1>5. QED
    BY <1>3, <1>4 DEF RecoveryInv

\* In every reachable state each storage has a job to forget for every answer
\* that is still to come, the job of a read lies in the log behind those that the
\* answers ahead of it will make forgotten (of a sector that is not astray), and no read that is not answered is
\* outside the queues and the hands it can be recovered from
\* (praid_ppd_thread_sender, praid_ppd_thread_listener, praid_utils_getReadingJobs,
\* praid_balancer_redistributeJobs).
THEOREM RaidRecovery == Spec => [](AllEnded /\ RecoveryInv)
  <1>1. Init => AllEnded /\ RecoveryInv
    BY EndedInit, RecoveryInit
  <1>2. IInv /\ JobsInHand /\ AllEnded /\ RecoveryInv /\ [Next]_vars =>
           AllEnded' /\ RecoveryInv'
    BY EndedStep, RecoveryStep
  <1>3. Spec => []JobsInHand
    BY RaidReads, PTL
  <1>4. QED
    BY <1>1, <1>2, <1>3, RaidInvariant, PTL DEF Spec

\* A job of the log is in sendedJobs, or in the hands of the sender.
LEMMA LoggedIsRecoverable ==
  ASSUME IInv, NEW s \in Storage, NEW c \in Socket, NEW y \in Sector, Unscanned(s), Of(Log(s), c, y)
  PROVE  Recoverable(c)
  <1> USE DEF IInv, TypeOK
  <1>1. CASE sender[s].pc = "sent"
    <2>1. ~ Collected(s)
      BY <1>1, NoSenderInside DEF Collected
    <2>2. sended[s] \in Seq(Job) /\ sender[s].job \in Job
      BY <1>1 DEF StorageTypeOK, ThreadsHoldJobs
    <2>3. Log(s) = Append(sended[s], sender[s].job)
      BY <1>1 DEF Log
    <2>4. Of(sended[s], c, y) \/ IsOf(sender[s].job, c, y)
      BY <2>2, <2>3, ReadAtAppend
    <2>5. QED
      BY <1>1, <2>1, <2>4 DEF Recoverable, Holds, Reads, Of, IsOf, IsRead
  <1>2. CASE sender[s].pc # "sent"
    BY <1>2 DEF Log, Recoverable, Unscanned, Holds, Reads, Of, IsOf
  <1>3. QED
    BY <1>1, <1>2

\* A read with jobs of its sector ahead of it is in the log.
LEMMA SentIsInLog ==
  ASSUME IInv, NEW s \in Storage, Logged(s), NEW c \in Socket, NEW y \in Sector,
         Of(toPpd[s], c, y) \/ Of(jobs[s], c, y) \/ Of(fromPpd[s], c, y)
  PROVE  Of(Log(s), c, y) \/ Astray(y)
  <1> USE DEF IInv, TypeOK
  <1>1. /\ toPpd[s] \in Seq(Message) /\ fromPpd[s] \in Seq(Message)
        /\ jobs[s] \in Seq(Job) /\ jobs[s] \in Seq(Message)
    BY JobsAreMessages DEF NodeTypeOK, NetworkTypeOK
  <1>2. PICK n \in Nat :
           ReadAt(toPpd[s], c, y, n) \/ ReadAt(jobs[s], c, y, n) \/ ReadAt(fromPpd[s], c, y, n)
    BY <1>1, ReadAtOf
  <1>3. InHand(s, y) \in Nat /\ Back(s, y) \in Nat /\ GetsIn(jobs[s], y) \in Nat
    BY PipeType
  <1>4. \E d \in Nat : Depth(s, c, y, d)
    <2>1. CASE ReadAt(fromPpd[s], c, y, n)
      <3>1. InHand(s, y) + n \in Nat
        BY <1>3
      <3>2. QED
        BY <2>1, <3>1 DEF Depth
    <2>2. CASE ReadAt(jobs[s], c, y, n)
      <3>1. Back(s, y) + n \in Nat
        BY <1>3
      <3>2. QED
        BY <2>2, <3>1 DEF Depth
    <2>3. CASE ReadAt(toPpd[s], c, y, n)
      <3>1. Back(s, y) + GetsIn(jobs[s], y) + n \in Nat
        BY <1>3
      <3>2. QED
        BY <2>3, <3>1 DEF Depth
    <2>4. QED
      BY <1>2, <2>1, <2>2, <2>3
  <1>5. Astray(y) \/ \E d \in Nat : Covered(Log(s), c, y, d)
    BY <1>4 DEF Logged
  <1>6. QED
    BY <1>5 DEF Covered, Of, IsOf

\* Whatever PPDs end, and whenever, a read that is not answered is recoverable,
\* unless it was lost in one of the two known ways or a PPD has reordered or lost
\* jobs of its sector.
THEOREM RaidReadsAreRecoverable == Spec => []ReadsAreRecoverable
  <1>1. IInv /\ AllEnded /\ RecoveryInv => ReadsAreRecoverable
    <2> SUFFICES ASSUME IInv, AllEnded, RecoveryInv, NEW c \in Socket, waiting[c] # 0
                 PROVE  Recoverable(c) \/ c \in lostReads \/ Astray(waiting[c])
      BY DEF ReadsAreRecoverable
    <2> DEFINE y == waiting[c]
    <2>0. y \in Sector
      BY DEF IInv, TypeOK, ClientTypeOK, Sector
    <2>1. CASE OffStorage(c, y)
      BY <2>1 DEF OffStorage, Recoverable, Reading, Holds, Reads, Of, IsOf
    <2>2. CASE \E s \in Storage : Kept(s, c, y)
      <3> HIDE DEF y
      <3>1. PICK s \in Storage : Kept(s, c, y)
        BY <2>2
      <3>2. CASE \/ ~ Collected(s) /\ Of(pending[s], c, y)
                 \/ ReplyingFor(s, c, y)
                 \/ Of(listener[s].orphans, c, y)
        BY <3>2 DEF Recoverable, ReplyingFor, Holds, Reads, Of, IsOf
      <3>3. CASE Of(toPpd[s], c, y) \/ Of(jobs[s], c, y) \/ Of(fromPpd[s], c, y)
        <4>1. Of(Log(s), c, y) \/ Astray(y)
          BY <2>0, <3>3, SentIsInLog DEF RecoveryInv, StorageInv
        <4>2. ~ Of(<<>>, c, y)
          BY NoneOf
        <4>3. ~ Collected(s)
          BY <3>3, <4>2 DEF AllEnded, Ended, Collected
        <4>4. Recoverable(c) \/ Astray(y)
          BY <2>0, <4>1, <4>3, LoggedIsRecoverable DEF Unscanned
        <4>5. QED
          BY <4>4 DEF y
      <3>4. CASE Unscanned(s) /\ Spare(s, c, y)
        <4>1. Of(Log(s), c, y)
          BY <3>4 DEF Spare, Covered, Of, IsOf
        <4>2. QED
          BY <2>0, <3>4, <4>1, LoggedIsRecoverable
      <3>5. QED
        BY <3>1, <3>2, <3>3, <3>4 DEF Kept
    <2>3. QED
      BY <2>1, <2>2 DEF RecoveryInv, Live
  <1>2. QED
    BY <1>1, RaidInvariant, RaidRecovery, PTL
=============================================================================
