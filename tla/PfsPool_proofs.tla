---------------------------- MODULE PfsPool_proofs ----------------------------
(***************************************************************************)
(* Proofs about PfsPool, for any set of threads, any limit of the pool and  *)
(* any number of sectors in a block.                                       *)
(***************************************************************************)
EXTENDS PfsPool, SequenceTheorems, TLAPS

\* What each thread holds at each point of its operation.
Shape ==
    \A t \in Thread :
        /\ pc[t] = "idle" => held[t] = <<>>
        /\ pc[t] = "acquire" => Len(held[t]) < need[t]
        /\ pc[t] \in {"send", "receive"} => Len(held[t]) = need[t] /\ next[t] <= need[t]
        /\ pc[t] = "release" => held[t] # <<>>

\* Only connections of the pool are active.
ActiveInPool == \A c \in Connection : active[c] => c <= size

\* A connection carries one request or one answer at a time.
OneOutstanding ==
    \A c \in Connection :
        /\ Len(answered[c]) <= 1
        /\ asked[c] = {} \/ answered[c] = <<>>
        /\ \A q, r \in asked[c] : q = r

\* HoldersAreExclusive and AnswersAreOwn are not inductive alone: a thread may
\* release a connection only because no request of its own is left on it.
IInv ==
    /\ TypeOK
    /\ Shape
    /\ ActiveInPool
    /\ HoldersAreExclusive
    /\ AnswersAreOwn
    /\ OneOutstanding

-----------------------------------------------------------------------------
\* The initial state satisfies the invariant: no thread holds anything.
LEMMA InitInvariant == Init => IInv
  <1> SUFFICES ASSUME Init PROVE IInv
    OBVIOUS
  <1> USE PoolAssumption DEF Init, Connection
  <1>1. TypeOK
    BY DEF TypeOK, Request
  <1>2. Shape
    BY DEF Shape
  <1>3. ActiveInPool /\ HoldersAreExclusive
    BY DEF ActiveInPool, HoldersAreExclusive
  <1>4. AnswersAreOwn /\ OneOutstanding
    BY DEF AnswersAreOwn, Outstanding, OneOutstanding
  <1>5. QED
    BY <1>1, <1>2, <1>3, <1>4 DEF IInv

\* A sequence of one element has an empty tail.
LEMMA TailOfOne ==
  ASSUME NEW S, NEW q \in Seq(S), q # <<>>, Len(q) <= 1
  PROVE  Tail(q) = <<>>
  <1>1. Len(q) \in Nat /\ Len(q) # 0
    BY EmptySeq, LenProperties
  <1>2. Len(q) = 1
    BY <1>1
  <1>3. Tail(q) \in Seq(S) /\ Len(Tail(q)) = 0
    BY <1>2, HeadTailProperties
  <1>4. QED
    BY <1>3, EmptySeq

\* What is on a connection is a request of some thread.
LEMMA OutstandingType ==
  ASSUME TypeOK, NEW c \in Connection, NEW request \in Outstanding(c)
  PROVE  request \in Request /\ request.thread \in Thread /\ request.index \in Nat
  <1>1. asked[c] \subseteq Request /\ answered[c] \in Seq(Request)
    BY DEF TypeOK
  <1>2. request \in Request
    BY <1>1 DEF Outstanding
  <1>3. QED
    BY <1>2 DEF Request

\* A thread starts an operation with nothing in its hands.
LEMMA StartInvariant ==
  ASSUME IInv, NEW t \in Thread, Start(t)
  PROVE  IInv'
  <1> USE PoolAssumption DEF IInv, Start, poolVars, wireVars
  <1>1. TypeOK'
    BY DEF TypeOK
  <1>2. Shape'
    BY DEF TypeOK, Shape
  <1>3. ActiveInPool' /\ HoldersAreExclusive'
    BY DEF ActiveInPool, HoldersAreExclusive
  <1>4. AnswersAreOwn'
    <2> SUFFICES ASSUME NEW d \in Connection, NEW request \in Outstanding(d)'
                 PROVE  Owns(request, d)'
      BY DEF AnswersAreOwn
    <2>1. request \in Outstanding(d) /\ request.thread \in Thread
      BY OutstandingType DEF Outstanding
    <2>2. Owns(request, d)
      BY <2>1 DEF AnswersAreOwn
    <2>3. request.thread # t
      BY <2>2 DEF Owns
    <2>4. QED
      BY <2>1, <2>2, <2>3 DEF Owns, TypeOK
  <1>5. OneOutstanding'
    BY DEF OneOutstanding
  <1>6. QED
    BY <1>1, <1>2, <1>3, <1>4, <1>5

\* A connection that is not active may be handed to any thread: this is all
\* that TakeInactive and BuildConnection have in common.
LEMMA AcquiredInvariant ==
  ASSUME IInv, NEW t \in Thread, pc[t] = "acquire",
         NEW c \in Connection, ~ active[c], Acquired(t, c),
         size' \in size .. MaxConnections, c <= size',
         UNCHANGED <<running, op, need, operations, wireVars>>
  PROVE  IInv'
  <1> USE PoolAssumption DEF IInv, Acquired, wireVars
  <1>1. TypeOK'
    BY DEF TypeOK
  <1>2. Shape'
    BY DEF TypeOK, Shape
  <1>3. ActiveInPool'
    BY DEF TypeOK, ActiveInPool, Connection
  <1>4. HoldersAreExclusive'
    <2>1. \A u \in Thread : held[u] \in Seq(Connection)
      BY DEF TypeOK
    <2>2. \A u \in Thread : \A i \in DOMAIN held[u] : held[u][i] # c
      BY DEF HoldersAreExclusive
    <2>3. \A u \in Thread : \A i \in DOMAIN held'[u] :
            \/ i \in DOMAIN held[u] /\ held'[u][i] = held[u][i]
            \/ u = t /\ i = Len(held[t]) + 1 /\ held'[u][i] = c
      BY <2>1 DEF TypeOK
    <2>4. /\ \A u \in Thread : \A i \in DOMAIN held[u] :
                i \in DOMAIN held'[u] /\ held'[u][i] = held[u][i]
          /\ Len(held[t]) + 1 \in DOMAIN held'[t]
          /\ held'[t][Len(held[t]) + 1] = c
      BY <2>1 DEF TypeOK
    <2>5. \A d \in Connection : active'[d] <=> active[d] \/ d = c
      BY DEF TypeOK
    <2>6. \A u, v \in Thread : \A i \in DOMAIN held'[u], j \in DOMAIN held'[v] :
            held'[u][i] = held'[v][j] => u = v /\ i = j
      BY <2>2, <2>3 DEF HoldersAreExclusive
    <2>7. ASSUME NEW d \in Connection
          PROVE  active'[d] <=> \E u \in Thread : \E i \in DOMAIN held'[u] : held'[u][i] = d
      <3>1. CASE d = c
        BY <3>1, <2>4, <2>5
      <3>2. CASE d # c
        BY <3>2, <2>3, <2>4, <2>5 DEF HoldersAreExclusive
      <3>3. QED
        BY <3>1, <3>2
    <2>8. QED
      BY <2>6, <2>7 DEF HoldersAreExclusive
  <1>5. AnswersAreOwn'
    <2> SUFFICES ASSUME NEW d \in Connection, NEW request \in Outstanding(d)'
                 PROVE  Owns(request, d)'
      BY DEF AnswersAreOwn
    <2>1. request \in Outstanding(d) /\ request.thread \in Thread
      BY OutstandingType DEF Outstanding
    <2>2. Owns(request, d)
      BY <2>1 DEF AnswersAreOwn
    <2>3. request.thread # t
      BY <2>2 DEF Owns
    <2>4. QED
      BY <2>1, <2>2, <2>3 DEF Owns, TypeOK
  <1>6. OneOutstanding'
    BY DEF OneOutstanding
  <1>7. QED
    BY <1>1, <1>2, <1>3, <1>4, <1>5, <1>6

\* A step that leaves threads, pool and connections alone.
LEMMA Untouched ==
  ASSUME IInv, running' \in BOOLEAN, UNCHANGED <<threadVars, poolVars, wireVars>>
  PROVE  IInv'
  BY DEF IInv, TypeOK, Shape, ActiveInPool, HoldersAreExclusive, AnswersAreOwn,
         Outstanding, Owns, OneOutstanding, threadVars, poolVars, wireVars

\* A request leaves on a connection that carries nothing: whatever was on it
\* would be a request of the same thread for a sector it has yet to ask for.
LEMMA SendInvariant ==
  ASSUME IInv, NEW t \in Thread, Send(t)
  PROVE  IInv'
  <1> USE PoolAssumption DEF IInv, Send, poolVars
  <1> DEFINE n == next[t]
             c == held[t][n]
             sent == [thread |-> t, index |-> n]
  <1>0. n \in DOMAIN held[t] /\ c \in Connection /\ sent \in Request
    BY DEF TypeOK, Shape, Request
  <1>1. TypeOK'
    <2>1. asked' \in [Connection -> SUBSET Request]
      BY <1>0 DEF TypeOK
    <2>2. pc' \in [Thread -> {"idle", "acquire", "send", "receive", "release"}]
      BY DEF TypeOK
    <2>3. next' \in [Thread -> Nat \ {0}]
      <3>1. next \in [Thread -> Nat \ {0}] /\ next[t] + 1 \in Nat \ {0}
        BY DEF TypeOK
      <3>2. next' = [next EXCEPT ![t] = next[t] + 1] \/ next' = [next EXCEPT ![t] = 1]
        OBVIOUS
      <3>3. QED
        BY <3>1, <3>2
    <2>4. QED
      BY <2>1, <2>2, <2>3 DEF TypeOK
  <1>2. Shape'
    BY DEF TypeOK, Shape
  <1>3. ActiveInPool' /\ HoldersAreExclusive'
    BY DEF ActiveInPool, HoldersAreExclusive
  <1>4. Outstanding(c) = {}
    <2>1. SUFFICES ASSUME NEW request \in Outstanding(c) PROVE FALSE
      OBVIOUS
    <2>2. Owns(request, c) /\ request.thread \in Thread
      BY <1>0, OutstandingType DEF AnswersAreOwn
    <2>3. request.thread = t /\ request.index = n
      BY <2>2, <1>0 DEF HoldersAreExclusive, Owns
    <2>4. QED
      BY <2>2, <2>3 DEF Owns, TypeOK
  <1>5. AnswersAreOwn'
    <2> SUFFICES ASSUME NEW d \in Connection, NEW request \in Outstanding(d)'
                 PROVE  Owns(request, d)'
      BY DEF AnswersAreOwn
    <2>1. CASE request \in Outstanding(d)
      <3>1. Owns(request, d) /\ request.thread \in Thread /\ request.index \in Nat
        BY <2>1, OutstandingType DEF AnswersAreOwn
      <3>2. CASE request.thread # t
        BY <3>1, <3>2 DEF Owns, TypeOK
      <3>3. CASE request.thread = t
        BY <3>1, <3>3 DEF Owns, TypeOK, Shape
      <3>4. QED
        BY <3>2, <3>3
    <2>2. CASE request \notin Outstanding(d)
      <3>1. op[t] = "get" /\ d = c /\ request = sent
        BY <2>2, <1>0 DEF Outstanding, TypeOK
      <3>2. request.thread = t /\ request.index = n
        BY <3>1
      <3>3. QED
        BY <3>1, <3>2, <1>0 DEF Owns, TypeOK
    <2>3. QED
      BY <2>1, <2>2
  <1>6. OneOutstanding'
    <2>1. asked[c] = {} /\ DOMAIN answered[c] = {}
      BY <1>4, SMTT(60) DEF Outstanding
    <2>2. answered[c] \in Seq(Request)
      BY <1>0 DEF TypeOK
    <2>3. answered[c] = <<>>
      <3>1. Len(answered[c]) \in Nat /\ DOMAIN answered[c] = 1 .. Len(answered[c])
        BY <2>2, LenProperties
      <3>2. 1 \notin DOMAIN answered[c]
        BY <2>1
      <3>3. Len(answered[c]) = 0
        BY <3>1, <3>2
      <3>4. QED
        BY <3>3, <2>2, EmptySeq
    <2>4. QED
      BY <2>1, <2>3, <1>0 DEF OneOutstanding, TypeOK
  <1>7. QED
    BY <1>1, <1>2, <1>3, <1>5, <1>6

\* The peer moves a request from one side of the connection to the other.
LEMMA AnswerInvariant ==
  ASSUME IInv, NEW c \in Connection, Answer(c)
  PROVE  IInv'
  <1> USE PoolAssumption DEF IInv, Answer, threadVars, poolVars
  <1>1. TypeOK'
    BY DEF TypeOK
  <1>2. Shape'
    BY DEF Shape
  <1>3. ActiveInPool' /\ HoldersAreExclusive'
    BY DEF ActiveInPool, HoldersAreExclusive
  <1>4. AnswersAreOwn'
    <2> SUFFICES ASSUME NEW d \in Connection, NEW request \in Outstanding(d)'
                 PROVE  Owns(request, d)'
      BY DEF AnswersAreOwn
    <2>1. request \in Outstanding(d)
      BY DEF Outstanding, TypeOK
    <2>2. QED
      BY <2>1 DEF AnswersAreOwn, Owns
  <1>5. OneOutstanding'
    BY DEF TypeOK, OneOutstanding
  <1>6. QED
    BY <1>1, <1>2, <1>3, <1>4, <1>5

\* The only message on the connection is consumed, so nothing of the thread is
\* left behind when it receives the last one.
LEMMA ReceiveInvariant ==
  ASSUME IInv, NEW t \in Thread, Receive(t)
  PROVE  IInv'
  <1> USE PoolAssumption DEF IInv, Receive, poolVars
  <1> DEFINE n == next[t]
             c == held[t][n]
  <1>0. n \in DOMAIN held[t] /\ c \in Connection
    BY DEF TypeOK, Shape
  <1>1. TypeOK'
    <2>1. answered' \in [Connection -> Seq(Request)]
      BY <1>0 DEF TypeOK
    <2>2. pc' \in [Thread -> {"idle", "acquire", "send", "receive", "release"}]
      BY DEF TypeOK
    <2>3. next' \in [Thread -> Nat \ {0}]
      <3>1. next \in [Thread -> Nat \ {0}] /\ next[t] + 1 \in Nat \ {0}
        BY DEF TypeOK
      <3>2. next' = [next EXCEPT ![t] = next[t] + 1] \/ next' = [next EXCEPT ![t] = 1]
        OBVIOUS
      <3>3. QED
        BY <3>1, <3>2
    <2>4. QED
      BY <2>1, <2>2, <2>3 DEF TypeOK
  <1>2. Shape'
    BY SMTT(60) DEF TypeOK, Shape
  <1>3. ActiveInPool' /\ HoldersAreExclusive'
    BY DEF ActiveInPool, HoldersAreExclusive
  <1>4. asked'[c] = {} /\ answered'[c] = <<>>
    <2>1. answered[c] \in Seq(Request) /\ answered[c] # <<>> /\ Len(answered[c]) <= 1
      BY <1>0 DEF OneOutstanding, TypeOK
    <2>2. Tail(answered[c]) = <<>>
      BY <2>1, TailOfOne
    <2>3. QED
      BY <1>0, <2>1, <2>2 DEF OneOutstanding, TypeOK
  <1>5. AnswersAreOwn'
    <2> SUFFICES ASSUME NEW d \in Connection, NEW request \in Outstanding(d)'
                 PROVE  Owns(request, d)'
      BY DEF AnswersAreOwn
    <2>1. d # c
      BY <1>4 DEF Outstanding
    <2>2. request \in Outstanding(d)
      BY <2>1, <1>0 DEF Outstanding, TypeOK
    <2>3. Owns(request, d) /\ request.thread \in Thread /\ request.index \in Nat
      BY <2>2, OutstandingType DEF AnswersAreOwn
    <2>4. CASE request.thread # t
      BY <2>3, <2>4 DEF Owns, TypeOK
    <2>5. CASE request.thread = t
      <3>1. request.index # n /\ request.index > n /\ request.index <= need[t]
        BY <2>1, <2>3, <2>5 DEF Owns, TypeOK, Shape
      <3>2. n < need[t]
        BY <3>1, <2>3 DEF TypeOK
      <3>3. next'[t] = n + 1 /\ pc'[t] = "receive"
        BY <3>2 DEF TypeOK
      <3>4. QED
        BY <2>3, <2>5, <3>1, <3>3 DEF Owns, TypeOK
    <2>6. QED
      BY <2>4, <2>5
  <1>6. OneOutstanding'
    BY <1>0 DEF TypeOK, OneOutstanding
  <1>7. QED
    BY <1>1, <1>2, <1>3, <1>5, <1>6

\* A connection is given back: nothing is left on it, for its holder has no
\* request of its own any more.
LEMMA ReleaseInvariant ==
  ASSUME IInv, NEW t \in Thread, Release(t)
  PROVE  IInv'
  <1> USE PoolAssumption DEF IInv, Release, wireVars
  <1> DEFINE c == Head(held[t])
  <1>0. /\ \A u \in Thread : held[u] \in Seq(Connection)
        /\ held[t] # <<>> /\ 1 \in DOMAIN held[t] /\ c = held[t][1] /\ c \in Connection
    BY DEF TypeOK, Shape
  <1>1. TypeOK'
    BY <1>0 DEF TypeOK
  <1>2. Shape'
    <2> SUFFICES ASSUME NEW u \in Thread
                 PROVE  /\ pc'[u] = "idle" => held'[u] = <<>>
                        /\ pc'[u] = "acquire" => Len(held'[u]) < need[u]
                        /\ pc'[u] \in {"send", "receive"} =>
                              Len(held'[u]) = need[u] /\ next[u] <= need[u]
                        /\ pc'[u] = "release" => held'[u] # <<>>
      BY DEF Shape
    <2>1. CASE u # t
      BY <2>1 DEF Shape, TypeOK
    <2>2. CASE u = t
      <3>1. held'[t] = Tail(held[t]) /\ Len(held'[t]) = Len(held[t]) - 1
        BY <1>0 DEF TypeOK
      <3>2. held'[t] \in Seq(Connection)
        BY <3>1, <1>0
      <3>3. CASE Len(held[t]) = 1
        <4>1. held'[t] = <<>>
          BY <3>1, <3>2, <3>3, EmptySeq
        <4>2. pc'[t] = "idle"
          BY <3>3 DEF TypeOK
        <4>3. QED
          BY <4>1, <4>2, <2>2
      <3>4. CASE Len(held[t]) # 1
        <4>1. held'[t] # <<>>
          <5>1. Len(held'[t]) # 0
            BY <3>1, <3>4
          <5>2. QED
            BY <5>1, EmptySeq
        <4>2. pc'[t] = "release"
          BY <3>4 DEF TypeOK
        <4>3. QED
          BY <4>1, <4>2, <2>2
      <3>5. QED
        BY <3>3, <3>4
    <2>3. QED
      BY <2>1, <2>2
  <1>3. ActiveInPool'
    BY DEF TypeOK, ActiveInPool
  <1>4. HoldersAreExclusive'
    <2>1. \A i \in DOMAIN held'[t] : i + 1 \in DOMAIN held[t] /\ held'[t][i] = held[t][i + 1]
      BY <1>0 DEF TypeOK
    <2>2. \A i \in DOMAIN held[t] :
            i # 1 => i - 1 \in DOMAIN held'[t] /\ held'[t][i - 1] = held[t][i]
      BY <1>0 DEF TypeOK
    <2>3. \A u \in Thread \ {t} : held'[u] = held[u]
      BY DEF TypeOK
    <2>4. \A d \in Connection : active'[d] <=> active[d] /\ d # c
      BY DEF TypeOK
    <2>5. ASSUME NEW u \in Thread, NEW v \in Thread,
                 NEW i \in DOMAIN held'[u], NEW j \in DOMAIN held'[v],
                 held'[u][i] = held'[v][j]
          PROVE  u = v /\ i = j
      <3>1. i \in Nat /\ j \in Nat
        BY <1>0, <2>1, <2>3
      <3>2. CASE u = t /\ v = t
        BY <2>5, <2>1, <3>1, <3>2 DEF HoldersAreExclusive
      <3>3. CASE u # t /\ v = t
        BY <2>5, <2>1, <2>3, <3>3 DEF HoldersAreExclusive
      <3>4. CASE u = t /\ v # t
        BY <2>5, <2>1, <2>3, <3>4 DEF HoldersAreExclusive
      <3>5. CASE u # t /\ v # t
        BY <2>5, <2>3, <3>5 DEF HoldersAreExclusive
      <3>6. QED
        BY <3>2, <3>3, <3>4, <3>5
    <2>6. ASSUME NEW d \in Connection, active'[d]
          PROVE  \E u \in Thread : \E i \in DOMAIN held'[u] : held'[u][i] = d
      <3>1. PICK u \in Thread : \E i \in DOMAIN held[u] : held[u][i] = d
        BY <2>4, <2>6 DEF HoldersAreExclusive
      <3>2. PICK i \in DOMAIN held[u] : held[u][i] = d
        BY <3>1
      <3>3. CASE u = t
        <4>1. i # 1
          BY <3>2, <3>3, <2>4, <2>6, <1>0
        <4>2. i - 1 \in DOMAIN held'[t] /\ held'[t][i - 1] = d
          BY <4>1, <3>2, <3>3, <2>2
        <4>3. QED
          BY <4>2
      <3>4. CASE u # t
        BY <3>2, <3>4, <2>3
      <3>5. QED
        BY <3>3, <3>4
    <2>7. ASSUME NEW d \in Connection,
                 NEW u \in Thread, NEW i \in DOMAIN held'[u], held'[u][i] = d
          PROVE  active'[d]
      <3>1. CASE u = t
        <4>1. i + 1 \in DOMAIN held[t] /\ held[t][i + 1] = d /\ i + 1 # 1
          BY <2>1, <2>7, <3>1, <1>0
        <4>2. active[d] /\ d # c
          BY <4>1, <1>0 DEF HoldersAreExclusive
        <4>3. QED
          BY <4>2, <2>4
      <3>2. CASE u # t
        <4>1. i \in DOMAIN held[u] /\ held[u][i] = d
          BY <2>3, <2>7, <3>2
        <4>2. active[d] /\ d # c
          BY <4>1, <3>2, <1>0 DEF HoldersAreExclusive
        <4>3. QED
          BY <4>2, <2>4
      <3>3. QED
        BY <3>1, <3>2
    <2>8. QED
      BY <2>5, <2>6, <2>7 DEF HoldersAreExclusive
  <1>5. AnswersAreOwn'
    <2> SUFFICES ASSUME NEW d \in Connection, NEW request \in Outstanding(d)'
                 PROVE  Owns(request, d)'
      BY DEF AnswersAreOwn
    <2>1. request \in Outstanding(d) /\ request.thread \in Thread
      BY OutstandingType DEF Outstanding
    <2>2. Owns(request, d)
      BY <2>1 DEF AnswersAreOwn
    <2>3. request.thread # t
      BY <2>2 DEF Owns
    <2>4. QED
      BY <2>1, <2>2, <2>3 DEF Owns, TypeOK
  <1>6. OneOutstanding'
    BY DEF OneOutstanding
  <1>7. QED
    BY <1>1, <1>2, <1>3, <1>4, <1>5, <1>6

-----------------------------------------------------------------------------
\* Every step preserves the invariant; one case per action of Next.
LEMMA NextInvariant == IInv /\ [Next]_vars => IInv'
  <1> SUFFICES ASSUME IInv, [Next]_vars PROVE IInv'
    OBVIOUS
  <1>1. ASSUME NEW t \in Thread, Start(t) PROVE IInv'
    BY <1>1, StartInvariant
  <1>2. ASSUME NEW t \in Thread, TakeInactive(t) PROVE IInv'
    <2>1. PICK c \in Inactive : Acquired(t, c)
      BY <1>2 DEF TakeInactive
    <2>2. c \in Connection /\ ~ active[c] /\ c <= size /\ size \in size .. MaxConnections
      BY <2>1, PoolAssumption DEF Inactive, IInv, TypeOK, Connection
    <2>3. QED
      BY <1>2, <2>1, <2>2, AcquiredInvariant DEF TakeInactive
  <1>3. ASSUME NEW t \in Thread, BuildConnection(t) PROVE IInv'
    <2>1. size + 1 \in Connection /\ size' \in size .. MaxConnections /\ size + 1 <= size'
      BY <1>3, PoolAssumption DEF BuildConnection, IInv, TypeOK, Connection
    <2>2. ~ active[size + 1]
      BY <2>1 DEF IInv, TypeOK, ActiveInPool
    <2>3. QED
      BY <1>3, <2>1, <2>2, AcquiredInvariant DEF BuildConnection
  <1>4. ASSUME NEW t \in Thread, HandshakeDenied(t) PROVE IInv'
    BY <1>4, Untouched DEF HandshakeDenied
  <1>5. ASSUME NEW t \in Thread, Send(t) PROVE IInv'
    BY <1>5, SendInvariant
  <1>6. ASSUME NEW t \in Thread, Receive(t) PROVE IInv'
    BY <1>6, ReceiveInvariant
  <1>7. ASSUME NEW t \in Thread, Release(t) PROVE IInv'
    BY <1>7, ReleaseInvariant
  <1>8. ASSUME NEW c \in Connection, Answer(c) PROVE IInv'
    BY <1>8, AnswerInvariant
  <1>9. CASE UNCHANGED vars
    BY <1>9, Untouched DEF vars, IInv, TypeOK
  <1>10. QED
    BY <1>1, <1>2, <1>3, <1>4, <1>5, <1>6, <1>7, <1>8, <1>9 DEF Next, Step

\* The invariant holds in every state.
LEMMA PoolInvariant == Spec => []IInv
  BY InitInvariant, NextInvariant, PTL DEF Spec

\* The pool never holds more connections than max.connections, and every
\* variable keeps its type.
THEOREM PoolTypeOK == Spec => []TypeOK
  <1>1. IInv => TypeOK
    BY DEF IInv
  <1>2. QED
    BY <1>1, PoolInvariant, PTL

\* However many threads there are and however large a block is, two threads
\* never use one connection at a time and no connection leaks out of the pool.
THEOREM PoolExclusive == Spec => []HoldersAreExclusive
  <1>1. IInv => HoldersAreExclusive
    BY DEF IInv
  <1>2. QED
    BY <1>1, PoolInvariant, PTL

\* The next message on a connection is the answer to what its holder asked.
THEOREM PoolAnswersAreOwn == Spec => []AnswersAreOwn
  <1>1. IInv => AnswersAreOwn
    BY DEF IInv
  <1>2. QED
    BY <1>1, PoolInvariant, PTL

=============================================================================
