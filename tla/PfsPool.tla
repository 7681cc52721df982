------------------------------- MODULE PfsPool -------------------------------
(***************************************************************************)
(* The pool of connections through which the threads of the file system     *)
(* client (grage-pfs) talk to PRAID: pfs-connection-pool.c, and the three   *)
(* ways its callers use it.  A sector is read or written on one connection; *)
(* a block is read on BlockConnections of them, taken one after the other,  *)
(* so that its sectors travel at once.  The peer answers each read once;    *)
(* it may answer two reads of one connection in either order.               *)
(***************************************************************************)
EXTENDS Integers, Sequences, FiniteSets

CONSTANTS
    Thread,             \* the threads of FUSE
    MaxConnections,     \* max.connections
    BlockConnections,   \* sectors in a block, 8 in the code
    MaxOperations       \* bound on the operations each thread performs

ASSUME PoolAssumption ==
    /\ MaxConnections \in Nat \ {0}
    /\ BlockConnections \in Nat \ {0}
    /\ MaxOperations \in Nat

\* Connections are numbered in the order in which they are built.
Connection == 1 .. MaxConnections

\* A request: who sent it, and the place of its sector in the operation.
Request == [thread : Thread, index : Nat]

VARIABLES
    running,      \* the process has not ended on a refused handshake
    size,         \* connections in the pool
    active,       \* conn->active
    pc, op,       \* where each thread stands, in which operation
    need,         \* the connections its operation takes
    held,         \* the connections it has taken, in the order of conns[]
    next,         \* the next of them to use
    operations,   \* operations started
    asked,        \* reads sent on a connection and not answered
    answered      \* answers in transit on a connection

threadVars == <<pc, op, need, held, next, operations>>
poolVars == <<size, active>>
wireVars == <<asked, answered>>
vars == <<running, threadVars, poolVars, wireVars>>

\* FUSE starts once the launcher has read the boot sector on a connection of
\* its own making, the first of the pool.
Init ==
    /\ running = TRUE
    /\ size = 1
    /\ active = [c \in Connection |-> FALSE]
    /\ pc = [t \in Thread |-> "idle"]
    /\ op = [t \in Thread |-> "get"]
    /\ need = [t \in Thread |-> 1]
    /\ held = [t \in Thread |-> <<>>]
    /\ next = [t \in Thread |-> 1]
    /\ operations = [t \in Thread |-> 0]
    /\ asked = [c \in Connection |-> {}]
    /\ answered = [c \in Connection |-> <<>>]

-----------------------------------------------------------------------------
\* A thread of FUSE reads a sector, writes one, or reads a block.
Start(t) ==
    /\ pc[t] = "idle"
    /\ operations[t] < MaxOperations
    /\ operations' = [operations EXCEPT ![t] = @ + 1]
    /\ \E kind \in {<<"get", 1>>, <<"put", 1>>, <<"get", BlockConnections>>} :
          /\ op' = [op EXCEPT ![t] = kind[1]]
          /\ need' = [need EXCEPT ![t] = kind[2]]
    /\ pc' = [pc EXCEPT ![t] = "acquire"]
    /\ UNCHANGED <<running, held, next, poolVars, wireVars>>

\* What pfs_pool_getConection returned goes to the thread.
Acquired(t, c) ==
    /\ active' = [active EXCEPT ![c] = TRUE]
    /\ held' = [held EXCEPT ![t] = Append(@, c)]
    /\ next' = [next EXCEPT ![t] = 1]
    /\ pc' = [pc EXCEPT ![t] = IF Len(held[t]) + 1 = need[t] THEN "send" ELSE @]

Inactive == { c \in 1 .. size : ~ active[c] }

\* A faulty TakeInactive: the connection is looked for with no lock held, and
\* may have been taken since.
TakeUnlocked(t) ==
    /\ pc[t] = "acquire"
    /\ \E c \in 1 .. size : Acquired(t, c)
    /\ UNCHANGED <<running, op, need, operations, size, wireVars>>

\* pfs_pool_getPooledConnection, under poolingConnectionsMutex: the list is
\* ordered newest first, and its first inactive connection is taken.
TakeInactive(t) ==
    /\ pc[t] = "acquire"
    /\ \E c \in Inactive : (\A d \in Inactive : d <= c) /\ Acquired(t, c)
    /\ UNCHANGED <<running, op, need, operations, size, wireVars>>

\* A faulty BuildConnection: the limit is reached one connection too late.
BuildBeyond(t) ==
    /\ pc[t] = "acquire"
    /\ Inactive = {}
    /\ size <= MaxConnections
    /\ size' = size + 1
    /\ Acquired(t, size + 1)
    /\ UNCHANGED <<running, op, need, operations, wireVars>>

\* All of them are active and the limit is not reached: a handshake with PRAID,
\* made with the mutex held, adds one, or is refused and ends the process.  At
\* the limit the thread sleeps and tries again.
BuildConnection(t) ==
    /\ pc[t] = "acquire"
    /\ Inactive = {}
    /\ size < MaxConnections
    /\ size' = size + 1
    /\ Acquired(t, size + 1)
    /\ UNCHANGED <<running, op, need, operations, wireVars>>

HandshakeDenied(t) ==
    /\ pc[t] = "acquire"
    /\ Inactive = {}
    /\ size < MaxConnections
    /\ running' = FALSE
    /\ UNCHANGED <<threadVars, poolVars, wireVars>>

\* pfs_endpoint_buildAndSendGet and bulidAndSendPut up to the send; for a
\* block, pfs_endpoint_blocks_callExecuteGetSector on each connection in turn.
Send(t) ==
    /\ pc[t] = "send"
    /\ asked' = IF op[t] = "get"
                THEN [asked EXCEPT ![held[t][next[t]]] =
                         @ \cup {[thread |-> t, index |-> next[t]]}]
                ELSE asked
    /\ IF next[t] < need[t]
       THEN next' = [next EXCEPT ![t] = @ + 1] /\ UNCHANGED pc
       ELSE /\ next' = [next EXCEPT ![t] = 1]
            /\ pc' = [pc EXCEPT ![t] = IF op[t] = "get" THEN "receive" ELSE "release"]
    /\ UNCHANGED <<running, op, need, held, operations, poolVars, answered>>

\* The peer answers.
Answer(c) ==
    \E request \in asked[c] :
        /\ asked' = [asked EXCEPT ![c] = @ \ {request}]
        /\ answered' = [answered EXCEPT ![c] = Append(@, request)]
        /\ UNCHANGED <<running, threadVars, poolVars>>

\* A faulty Receive: one answer short, the block is taken for complete.
ReceiveShort(t) ==
    /\ pc[t] = "receive"
    /\ LET c == held[t][next[t]] IN
       /\ answered[c] # <<>>
       /\ answered' = [answered EXCEPT ![c] = Tail(@)]
    /\ IF next[t] + 1 < need[t]
       THEN next' = [next EXCEPT ![t] = @ + 1] /\ UNCHANGED pc
       ELSE next' = [next EXCEPT ![t] = 1] /\ pc' = [pc EXCEPT ![t] = "release"]
    /\ UNCHANGED <<running, op, need, held, operations, poolVars, asked>>

\* The next message on the connection is the answer, whatever it says.
Receive(t) ==
    /\ pc[t] = "receive"
    /\ LET c == held[t][next[t]] IN
       /\ answered[c] # <<>>
       /\ answered' = [answered EXCEPT ![c] = Tail(@)]
    /\ IF next[t] < need[t]
       THEN next' = [next EXCEPT ![t] = @ + 1] /\ UNCHANGED pc
       ELSE next' = [next EXCEPT ![t] = 1] /\ pc' = [pc EXCEPT ![t] = "release"]
    /\ UNCHANGED <<running, op, need, held, operations, poolVars, asked>>

\* pfs_pool_releaseConnection, on each connection in turn.  A faulty form
\* forgets the connections of a block.
ReleaseSingle(t) ==
    /\ pc[t] = "release"
    /\ active' = IF Len(held[t]) = 1 THEN [active EXCEPT ![Head(held[t])] = FALSE] ELSE active
    /\ held' = [held EXCEPT ![t] = <<>>]
    /\ pc' = [pc EXCEPT ![t] = "idle"]
    /\ UNCHANGED <<running, op, need, next, operations, size, wireVars>>

Release(t) ==
    /\ pc[t] = "release"
    /\ active' = [active EXCEPT ![Head(held[t])] = FALSE]
    /\ held' = [held EXCEPT ![t] = Tail(@)]
    /\ pc' = [pc EXCEPT ![t] = IF Len(held[t]) = 1 THEN "idle" ELSE @]
    /\ UNCHANGED <<running, op, need, next, operations, size, wireVars>>

Step(t) ==
    \/ TakeInactive(t) \/ BuildConnection(t) \/ HandshakeDenied(t)
    \/ Send(t) \/ Receive(t) \/ Release(t)

Next ==
    /\ running
    /\ \/ \E t \in Thread : Start(t) \/ Step(t)
       \/ \E c \in Connection : Answer(c)

Spec == Init /\ [][Next]_vars

\* Threads keep running, sleep(1) returns, and the peer answers.
FairSpec ==
    /\ Spec
    /\ \A t \in Thread : WF_vars(running /\ Step(t))
    /\ \A c \in Connection : WF_vars(running /\ Answer(c))

-----------------------------------------------------------------------------
TypeOK ==
    /\ running \in BOOLEAN
    /\ size \in 1 .. MaxConnections
    /\ active \in [Connection -> BOOLEAN]
    /\ pc \in [Thread -> {"idle", "acquire", "send", "receive", "release"}]
    /\ op \in [Thread -> {"get", "put"}]
    /\ need \in [Thread -> Nat \ {0}]
    /\ held \in [Thread -> Seq(Connection)]
    /\ next \in [Thread -> Nat \ {0}]
    /\ operations \in [Thread -> Nat]
    /\ asked \in [Connection -> SUBSET Request]
    /\ answered \in [Connection -> Seq(Request)]

\* A connection is active exactly while one thread holds it, in one place of
\* its operation: two threads never share a socket, and no connection leaks
\* out of the pool (pfs_pool_getPooledConnection, pfs_pool_releaseConnection).
HoldersAreExclusive ==
    /\ \A t, u \in Thread : \A i \in DOMAIN held[t], j \in DOMAIN held[u] :
          held[t][i] = held[u][j] => t = u /\ i = j
    /\ \A c \in Connection :
          active[c] <=> \E t \in Thread : \E i \in DOMAIN held[t] : held[t][i] = c

\* Every read or answer on a connection belongs to the thread that holds it
\* now, which has asked for that sector and not received it yet: the next
\* message on the connection is the answer to the last request, although
\* neither pfs_endpoint_buildAndSendGet nor the block read looks at its sector
\* number.
Owns(request, c) ==
    LET t == request.thread
        i == request.index
    IN /\ op[t] = "get"
       /\ i \in DOMAIN held[t]
       /\ held[t][i] = c
       /\ \/ pc[t] = "send" /\ i < next[t]
          \/ pc[t] = "receive" /\ i >= next[t]

Outstanding(c) == asked[c] \cup { answered[c][i] : i \in DOMAIN answered[c] }

AnswersAreOwn == \A c \in Connection : \A request \in Outstanding(c) : Owns(request, c)

\* Every operation ends, as long as the threads are too few for all of them to
\* wait for a last connection at once: a block read that lacks a connection
\* keeps those it has.
OperationsEnd ==
    \A t \in Thread : pc[t] # "idle" ~> (pc[t] = "idle" \/ ~ running)

=============================================================================
