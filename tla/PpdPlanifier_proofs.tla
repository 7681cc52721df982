------------------------ MODULE PpdPlanifier_proofs ------------------------
(***************************************************************************)
(* Proofs about PpdPlanifier, for any set of connections, any disk and any  *)
(* number of jobs and traces: it implements DiskService, and a list whose   *)
(* head stays loses no job.                                                *)
(***************************************************************************)
EXTENDS PpdPlanifier, SequenceTheorems, FiniteSetTheorems, TLAPS

-----------------------------------------------------------------------------
(* The list *)

\* What the place of a new node does to a list: the first `kept' nodes stay,
\* the new one follows, `cut' nodes are skipped and the rest stays.
PlacedBetween(old, new, result, kept, cut) ==
    /\ kept \in Nat /\ cut \in Nat /\ kept + cut <= Len(old)
    /\ result \in Seq(Job)
    /\ Len(result) = Len(old) + 1 - cut
    /\ \A i \in 1 .. Len(result) :
           result[i] = IF i <= kept THEN old[i]
                       ELSE IF i = kept + 1 THEN new ELSE old[i - 1 + cut]

\* InsertAt puts a node between two others.
LEMMA InsertBetween ==
  ASSUME NEW q \in Seq(Job), NEW k \in 1 .. Len(q), NEW new \in Job
  PROVE  PlacedBetween(q, new, InsertAt(q, k + 1, new), k, 0)
  <1> DEFINE left == SubSeq(q, 1, k)
             right == SubSeq(q, k + 1, Len(q))
  <1>0. Len(q) \in Nat /\ q \in [1 .. Len(q) -> Job]
    BY LenProperties
  <1>1. left \in Seq(Job) /\ Len(left) = k /\ \A i \in 1 .. k : left[i] = q[i]
    BY <1>0, SubSeqProperties
  <1>2. right \in Seq(Job) /\ Len(right) = Len(q) - k
        /\ \A i \in 1 .. Len(q) - k : right[i] = q[k + i]
    <2>1. k + 1 \in 1 .. Len(q) + 1 /\ Len(q) \in k .. Len(q)
      BY <1>0
    <2>2. /\ right \in Seq(Job)
          /\ Len(right) = IF k + 1 <= Len(q) THEN Len(q) - (k + 1) + 1 ELSE 0
          /\ \A i \in 1 .. Len(q) - (k + 1) + 1 : right[i] = q[(k + 1) + i - 1]
      BY <2>1, <1>0, SubSeqProperties
    <2> HIDE DEF right
    <2>3. k \in 1 .. Len(q) /\ Len(q) \in Nat
      BY <1>0
    <2>4. Len(right) = Len(q) - k
      <3>1. CASE k + 1 <= Len(q)
        BY <2>2, <2>3, <3>1
      <3>2. CASE ~ (k + 1 <= Len(q))
        <4>1. Len(q) - k = 0 /\ Len(right) = 0
          BY <2>2, <2>3, <3>2
        <4>2. QED
          BY <4>1
      <3>3. QED
        BY <3>1, <3>2
    <2>5. ASSUME NEW i \in 1 .. Len(q) - k PROVE right[i] = q[k + i]
      <3>1. i \in 1 .. Len(q) - (k + 1) + 1 /\ (k + 1) + i - 1 = k + i
        BY <1>0
      <3>2. right[i] = q[(k + 1) + i - 1]
        BY <2>2, <3>1
      <3>3. QED
        BY <3>1, <3>2
    <2>6. QED
      BY <2>2, <2>4, <2>5
  <1>3. InsertAt(q, k + 1, new) = (left \o <<new>>) \o right
    <2>1. (k + 1) - 1 = k
      OBVIOUS
    <2>2. QED
      BY <2>1, Zenon DEF InsertAt
  <1> DEFINE front == left \o <<new>>
             all == front \o right
  <1> HIDE DEF left, right
  <1>4. front \in Seq(Job) /\ Len(front) = k + 1
        /\ \A i \in 1 .. k + 1 : front[i] = IF i <= k THEN q[i] ELSE new
    BY <1>0, <1>1, ConcatProperties
  <1> HIDE DEF front
  <1>5. all \in Seq(Job) /\ Len(all) = Len(q) + 1
        /\ \A i \in 1 .. Len(all) : all[i] = IF i <= k + 1 THEN front[i]
                                             ELSE right[i - (k + 1)]
    <2>1. all \in Seq(Job) /\ Len(all) = Len(front) + Len(right)
          /\ \A i \in 1 .. Len(front) + Len(right) :
                 all[i] = IF i <= Len(front) THEN front[i] ELSE right[i - Len(front)]
      BY <1>2, <1>4, ConcatProperties, Zenon
    <2> HIDE DEF all
    <2>2. Len(all) = Len(q) + 1
      BY <2>1, <1>0, <1>2, <1>4
    <2>3. QED
      BY <2>1, <2>2, <1>4, <1>2
  <1> HIDE DEF all
  <1>6. ASSUME NEW i \in 1 .. Len(all)
        PROVE  all[i] = IF i <= k THEN q[i] ELSE IF i = k + 1 THEN new ELSE q[i - 1]
    <2>1. CASE i <= k + 1
      BY <2>1, <1>0, <1>4, <1>5
    <2>2. CASE i > k + 1
      <3>1. i - (k + 1) \in 1 .. Len(q) - k /\ k + (i - (k + 1)) = i - 1
        BY <2>2, <1>0, <1>5
      <3>2. all[i] = right[i - (k + 1)]
        BY <2>2, <1>0, <1>5
      <3>3. QED
        BY <2>2, <3>1, <3>2, <1>0, <1>2, SMTT(60)
    <2>3. QED
      BY <2>1, <2>2, <1>0, <1>5
  <1>7. \A i \in 1 .. Len(all) : all[i] = IF i <= k THEN q[i]
                                         ELSE IF i = k + 1 THEN new ELSE q[i - 1 + 0]
    BY <1>0, <1>5, <1>6
  <1>8. PlacedBetween(q, new, all, k, 0)
    BY <1>0, <1>5, <1>7 DEF PlacedBetween
  <1>9. QED
    BY <1>3, <1>8 DEF front, all

\* A new first node that points to the k-th.
LEMMA FirstBefore ==
  ASSUME NEW q \in Seq(Job), NEW k \in 1 .. Len(q), NEW new \in Job
  PROVE  PlacedBetween(q, new, <<new>> \o SubSeq(q, k, Len(q)), 0, k - 1)
  <1> DEFINE right == SubSeq(q, k, Len(q))
             all == <<new>> \o right
  <1>0. Len(q) \in Nat /\ q \in [1 .. Len(q) -> Job]
    BY LenProperties
  <1>1. right \in Seq(Job) /\ Len(right) = Len(q) - k + 1
        /\ \A i \in 1 .. Len(q) - k + 1 : right[i] = q[k + i - 1]
    BY <1>0, SubSeqProperties
  <1>2. all \in Seq(Job) /\ Len(all) = Len(q) - k + 2
        /\ \A i \in 1 .. Len(all) : all[i] = IF i <= 1 THEN new ELSE right[i - 1]
    BY <1>0, <1>1, ConcatProperties
  <1>3. ASSUME NEW i \in 1 .. Len(all)
        PROVE  all[i] = IF i <= 0 THEN q[i] ELSE IF i = 0 + 1 THEN new ELSE q[i - 1 + (k - 1)]
    <2>1. CASE i = 1
      BY <2>1, <1>2
    <2>2. CASE i # 1
      <3>1. i - 1 \in 1 .. Len(q) - k + 1 /\ k + (i - 1) - 1 = i - 1 + (k - 1)
        BY <2>2, <1>0, <1>2
      <3>2. all[i] = right[i - 1]
        BY <2>2, <1>0, <1>2
      <3>3. QED
        BY <2>2, <3>1, <3>2, <1>0, <1>1
    <2>3. QED
      BY <2>1, <2>2
  <1> HIDE DEF right, all
  <1>4. PlacedBetween(q, new, all, 0, k - 1)
    BY <1>0, <1>2, <1>3 DEF PlacedBetween
  <1>5. QED
    BY <1>4 DEF all, right

-----------------------------------------------------------------------------
(* The invariant *)

\* Jobs that read or write are for a sector of the disk.
JobsOnDisk == \A job \in Waiting : job.op # "trace" => job.sector \in JobSector

\* Jobs are numbered in the order in which they arrive.
IdsBounded == \A job \in Waiting : job.id <= received

\* A job waits in one place only.
JobsDistinct ==
    \A i \in DOMAIN queue :
        /\ queue[i] # worker.job
        /\ \A k \in DOMAIN queue : queue[i] = queue[k] => i = k

SameSector(a, b) == a.client = b.client /\ a.sector = b.sector

\* The job a thread puts in the list is the last one it sent.
AskedLast ==
    \A t \in Thread : asked[t] # None =>
        /\ asked[t].client = t
        /\ \A i \in DOMAIN queue : queue[i].client = t => queue[i].id < asked[t].id
        /\ worker.job # None /\ worker.job.client = t => worker.job.id < asked[t].id

\* The list keeps the order of the jobs of a client for a sector, but for those
\* that found three others, and the worker has the first of them.
QueueInOrder ==
    \A i, k \in DOMAIN queue :
        i < k /\ SameSector(queue[i], queue[k]) /\ queue[i].id \notin loose =>
            queue[i].id < queue[k].id

WorkerIsFirst ==
    worker.job # None => \A i \in DOMAIN queue :
        SameSector(queue[i], worker.job) /\ worker.job.id \notin loose =>
            worker.job.id < queue[i].id

\* Keeps, with the head at a given sector.
KeepsFrom(here, old, new) ==
    ~ /\ Distance(here, old.sector) > Distance(here, new.sector)
      /\ algorithm = "look" => new.sector >= here

\* The scan went past the job where it is because the job was kept.
ScanSeen ==
    insertion # None /\ insertion.at > 1 =>
        KeepsFrom(insertion.seen, queue[insertion.at], asked[insertion.by])

\* The scan stopped before a job that was not kept: one for another sector.
ScanStopped ==
    insertion # None /\ insertion.step = "place" /\ insertion.at + 1 \in DOMAIN queue =>
        queue[insertion.at + 1].sector # asked[insertion.by].sector

ListInv ==
    /\ JobsOnDisk
    /\ IdsBounded
    /\ JobsDistinct
    /\ AskedLast
    /\ QueueInOrder
    /\ WorkerIsFirst
    /\ ScanSeen
    /\ ScanStopped

\* The worker traces for the job that marks the trace.
MarkTraced ==
    worker.pc \in {"traces", "signals", "reports"} => worker.job.op = "trace"

IInv == TypeOK /\ ListInv /\ MarkTraced

-----------------------------------------------------------------------------
\* None is no job.
LEMMA NoneIsNoJob == None \notin Job
  BY DEF None, Job

\* The list is a sequence of jobs, and the indices are those of a sequence.
LEMMA QueueType ==
  ASSUME TypeOK
  PROVE  /\ queue \in Seq(Job) /\ Len(queue) \in Nat /\ DOMAIN queue = 1 .. Len(queue)
         /\ \A i \in DOMAIN queue : queue[i] \in Job
  <1>1. queue \in Seq(Job)
    BY DEF TypeOK
  <1>2. QED
    BY <1>1, LenProperties, ElementOfSeq

\* A job waits in the list, in the hands of a thread or in those of the worker.
LEMMA WaitingPlaces ==
  ASSUME NEW job
  PROVE  job \in Waiting <=>
            \/ \E i \in DOMAIN queue : job = queue[i]
            \/ job # None /\ \E t \in Thread : job = asked[t]
            \/ job # None /\ job = worker.job
  BY DEF Waiting, Held, ToSet

LEMMA WaitingPlacesNext ==
  ASSUME NEW job
  PROVE  job \in Waiting' <=>
            \/ \E i \in DOMAIN queue' : job = queue'[i]
            \/ job # None /\ \E t \in Thread : job = asked'[t]
            \/ job # None /\ job = worker'.job
  BY DEF Waiting, Held, ToSet

\* What waits is a job.
LEMMA WaitingType ==
  ASSUME TypeOK
  PROVE  Waiting \subseteq Job
  BY QueueType, WaitingPlaces, SMTT(60) DEF TypeOK, WorkerState

-----------------------------------------------------------------------------
(* Steps of the list *)

\* Nothing that the list depends on changes.
ListStill ==
    UNCHANGED <<algorithm, asked, queue, insertion, received, loose, worker.job>>

LEMMA StillWaiting ==
  ASSUME UNCHANGED <<asked, queue, worker.job>>
  PROVE  Waiting' = Waiting
  BY DEF Waiting, Held

LEMMA StillInvariant ==
  ASSUME ListInv, ListStill
  PROVE  ListInv'
  <1> USE DEF ListStill, ListInv
  <1>1. Waiting' = Waiting
    BY StillWaiting
  <1>2. JobsOnDisk' /\ IdsBounded'
    BY <1>1 DEF JobsOnDisk, IdsBounded
  <1>3. JobsDistinct' /\ AskedLast'
    BY DEF JobsDistinct, AskedLast
  <1>4. QueueInOrder' /\ WorkerIsFirst'
    BY DEF QueueInOrder, WorkerIsFirst
  <1>5. ScanSeen' /\ ScanStopped'
    BY DEF ScanSeen, ScanStopped, KeepsFrom
  <1>6. QED
    BY <1>2, <1>3, <1>4, <1>5

\* The worker has executed its job.
JobDone ==
    /\ worker.job # None
    /\ worker'.job = None
    /\ UNCHANGED <<algorithm, asked, queue, insertion, received, loose>>

LEMMA DoneWaiting ==
  ASSUME TypeOK, JobsDistinct, AskedLast, JobDone
  PROVE  worker.job \in Waiting /\ Waiting' = Waiting \ {worker.job}
  <1> USE DEF JobDone
  <1>1. worker.job \in Waiting
    BY WaitingPlaces
  <1>2. ASSUME NEW job \in Waiting, job # worker.job PROVE job \in Waiting'
    BY <1>2, WaitingPlaces, WaitingPlacesNext
  <1>3. ASSUME NEW job \in Waiting' PROVE job \in Waiting /\ job # worker.job
    <2>1. job \in Waiting
      BY <1>3, WaitingPlaces, WaitingPlacesNext
    <2>2. CASE \E i \in DOMAIN queue : job = queue[i]
      BY <2>1, <2>2 DEF JobsDistinct
    <2>3. CASE job # None /\ \E t \in Thread : job = asked[t]
      <3>1. PICK t \in Thread : job = asked[t]
        BY <2>3
      <3>2. job.client = t /\ (worker.job.client = t => worker.job.id < job.id)
        BY <2>3, <3>1 DEF AskedLast
      <3>3. worker.job \in Job /\ worker.job.id \in Nat
        BY DEF TypeOK, WorkerState, Job
      <3>4. QED
        BY <2>1, <3>2, <3>3
    <2>4. QED
      BY <1>3, <2>1, <2>2, <2>3, WaitingPlacesNext
  <1>4. QED
    BY <1>1, <1>2, <1>3

LEMMA DoneInvariant ==
  ASSUME TypeOK, ListInv, JobDone
  PROVE  ListInv'
  <1> USE DEF ListInv
  <1>1. Waiting' \subseteq Waiting /\ Waiting' = Waiting \ {worker.job} /\ worker.job \in Waiting
    BY DoneWaiting
  <1> USE DEF JobDone
  <1>2. JobsOnDisk' /\ IdsBounded'
    BY <1>1 DEF JobsOnDisk, IdsBounded
  <1>4. JobsDistinct'
    BY QueueType, NoneIsNoJob DEF JobsDistinct
  <1>5. AskedLast' /\ QueueInOrder' /\ WorkerIsFirst'
    BY DEF AskedLast, QueueInOrder, WorkerIsFirst
  <1>6. ScanSeen' /\ ScanStopped'
    BY DEF ScanSeen, ScanStopped, KeepsFrom
  <1>7. QED
    BY <1>2, <1>4, <1>5, <1>6

\* The worker picks the first job of the list.
LEMMA PickType ==
  ASSUME TypeOK, QueueGet
  PROVE  /\ queue' \in Seq(Job) /\ Head(queue) = queue[1] /\ Head(queue) \in Job
         /\ DOMAIN queue' = 1 .. Len(queue) - 1 /\ Len(queue) \in Nat \ {0}
         /\ \A i \in DOMAIN queue' : queue'[i] = queue[i + 1] /\ i + 1 \in DOMAIN queue
  <1>1. queue \in Seq(Job) /\ queue # <<>> /\ queue' = Tail(queue)
    BY DEF TypeOK, QueueGet
  <1>2. /\ Len(queue) \in Nat /\ Len(queue) # 0 /\ DOMAIN queue = 1 .. Len(queue)
        /\ Head(queue) = queue[1] /\ queue[1] \in Job
        /\ Tail(queue) \in Seq(Job) /\ Len(Tail(queue)) = Len(queue) - 1
        /\ \A i \in 1 .. Len(Tail(queue)) : Tail(queue)[i] = queue[i + 1]
    BY <1>1, HeadTailProperties, EmptySeq, LenProperties, ElementOfSeq
  <1>3. DOMAIN Tail(queue) = 1 .. Len(queue) - 1
    BY <1>2, LenProperties
  <1>4. QED
    BY <1>1, <1>2, <1>3

LEMMA PickWaiting ==
  ASSUME TypeOK, WorkerPick
  PROVE  Waiting' = Waiting
  <1> USE DEF WorkerPick
  <1>1. worker.job = None /\ worker'.job = queue[1] /\ queue[1] \in Job /\ 1 \in DOMAIN queue
    BY PickType, QueueType DEF TypeOK
  <1>2. ASSUME NEW job \in Waiting PROVE job \in Waiting'
    <2>1. CASE \E i \in DOMAIN queue : job = queue[i]
      <3>1. PICK i \in DOMAIN queue : job = queue[i]
        BY <2>1
      <3>2. CASE i = 1
        BY <1>1, <3>1, <3>2, NoneIsNoJob, WaitingPlacesNext
      <3>3. CASE i # 1
        <4>1. i - 1 \in DOMAIN queue' /\ queue'[i - 1] = job
          BY <3>1, <3>3, PickType, QueueType
        <4>2. QED
          BY <4>1, WaitingPlacesNext
      <3>4. QED
        BY <3>2, <3>3
    <2>2. CASE job # None /\ \E t \in Thread : job = asked[t]
      BY <2>2, WaitingPlacesNext
    <2>3. QED
      BY <1>1, <1>2, <2>1, <2>2, WaitingPlaces
  <1>3. ASSUME NEW job \in Waiting' PROVE job \in Waiting
    <2>1. CASE \E i \in DOMAIN queue' : job = queue'[i]
      BY <2>1, PickType, WaitingPlaces
    <2>2. CASE job # None /\ \E t \in Thread : job = asked'[t]
      BY <2>2, WaitingPlaces
    <2>3. CASE job # None /\ job = worker'.job
      BY <1>1, <2>3, WaitingPlaces
    <2>4. QED
      BY <1>3, <2>1, <2>2, <2>3, WaitingPlacesNext
  <1>4. QED
    BY <1>2, <1>3

LEMMA PickInvariant ==
  ASSUME TypeOK, ListInv, WorkerPick
  PROVE  ListInv'
  <1> USE DEF ListInv
  <1>1. Waiting' = Waiting
    BY PickWaiting
  <1>2. /\ insertion = None /\ insertion' = None /\ worker.job = None
        /\ worker'.job = queue[1] /\ queue[1] \in Job /\ 1 \in DOMAIN queue
        /\ UNCHANGED <<algorithm, asked, received, loose>>
    BY PickType, QueueType DEF TypeOK, WorkerPick, QueueGet, configVars
  <1>3. DOMAIN queue' \subseteq Nat \ {0}
        /\ \A i \in DOMAIN queue' : queue'[i] = queue[i + 1] /\ i + 1 \in DOMAIN queue
    BY PickType DEF WorkerPick
  <1>4. JobsOnDisk' /\ IdsBounded'
    BY <1>1, <1>2 DEF JobsOnDisk, IdsBounded
  <1>5. JobsDistinct'
    <2> SUFFICES ASSUME NEW i \in DOMAIN queue'
                 PROVE  /\ queue'[i] # worker'.job
                        /\ \A k \in DOMAIN queue' : queue'[i] = queue'[k] => i = k
      BY DEF JobsDistinct
    <2>1. i + 1 # 1
      BY <1>3
    <2>2. queue'[i] # worker'.job
      BY <1>2, <1>3, <2>1 DEF JobsDistinct
    <2>3. ASSUME NEW k \in DOMAIN queue', queue'[i] = queue'[k] PROVE i = k
      <3>1. i + 1 = k + 1
        BY <1>3, <2>3 DEF JobsDistinct
      <3>2. QED
        BY <1>3, <3>1
    <2>4. QED
      BY <2>2, <2>3
  <1>6. AskedLast'
    BY <1>2, <1>3 DEF AskedLast
  <1>7. QueueInOrder'
    <2> SUFFICES ASSUME NEW i \in DOMAIN queue', NEW k \in DOMAIN queue', i < k,
                        SameSector(queue'[i], queue'[k]), queue'[i].id \notin loose
                 PROVE  queue'[i].id < queue'[k].id
      BY <1>2 DEF QueueInOrder, SameSector
    <2>1. i + 1 < k + 1
      BY <1>3
    <2>2. QED
      BY <1>3, <2>1 DEF QueueInOrder
  <1>8. WorkerIsFirst'
    <2> SUFFICES ASSUME NEW i \in DOMAIN queue', SameSector(queue'[i], worker'.job),
                        worker'.job.id \notin loose
                 PROVE  worker'.job.id < queue'[i].id
      BY <1>2 DEF WorkerIsFirst, SameSector
    <2>1. 1 < i + 1 /\ SameSector(queue[1], queue[i + 1])
      BY <1>2, <1>3 DEF SameSector
    <2>2. QED
      BY <1>2, <1>3, <2>1 DEF QueueInOrder
  <1>9. ScanSeen' /\ ScanStopped'
    BY <1>2 DEF ScanSeen, ScanStopped
  <1>10. QED
    BY <1>4, <1>5, <1>6, <1>7, <1>8, <1>9

\* A thread has a job to put in the list.
LEMMA AsksWaiting ==
  ASSUME TypeOK, ListInv, NEW t \in Thread, NEW op, NEW sector, Asks(t, op, sector),
         op \in {"get", "put", "trace"}, sector \in Nat, UNCHANGED <<queue, worker>>
  PROVE  /\ asked'[t] \in Job /\ asked'[t] \notin Waiting
         /\ asked'[t].id = received + 1 /\ asked'[t].op = op /\ asked'[t].sector = sector
         /\ asked'[t].client = t /\ \A u \in Thread \ {t} : asked'[u] = asked[u]
         /\ Waiting' = Waiting \cup {asked'[t]}
  <1> DEFINE new == [id |-> received + 1, client |-> t, op |-> op, sector |-> sector]
  <1>1. asked'[t] = new /\ asked[t] = None /\ \A u \in Thread \ {t} : asked'[u] = asked[u]
    BY DEF Asks, TypeOK
  <1>2. received \in Nat /\ new \in Job
    BY DEF TypeOK, Job
  <1>3. new \notin Waiting
    BY <1>2 DEF ListInv, IdsBounded
  <1>4. ASSUME NEW job \in Waiting PROVE job \in Waiting'
    <2>1. CASE job # None /\ \E u \in Thread : job = asked[u]
      BY <1>1, <2>1, WaitingPlacesNext
    <2>2. QED
      BY <1>4, <2>1, WaitingPlaces, WaitingPlacesNext
  <1>5. ASSUME NEW job \in Waiting', job # new PROVE job \in Waiting
    <2>1. CASE job # None /\ \E u \in Thread : job = asked'[u]
      BY <1>1, <1>5, <2>1, WaitingPlaces
    <2>2. QED
      BY <1>5, <2>1, WaitingPlaces, WaitingPlacesNext
  <1>6. new \in Waiting'
    BY <1>1, <1>2, NoneIsNoJob, WaitingPlacesNext
  <1>7. QED
    BY <1>1, <1>2, <1>3, <1>4, <1>5, <1>6

LEMMA AsksInvariant ==
  ASSUME TypeOK, ListInv, NEW t \in Thread, NEW op, NEW sector, Asks(t, op, sector),
         op \in {"get", "put", "trace"}, sector \in Nat,
         op # "trace" => sector \in JobSector,
         UNCHANGED <<queue, worker, insertion, algorithm, loose>>
  PROVE  ListInv'
  <1> USE DEF ListInv
  <1> DEFINE new == asked'[t]
  <1>1. /\ new \in Job /\ new \notin Waiting
        /\ new.id = received + 1 /\ new.op = op /\ new.sector = sector
        /\ new.client = t /\ \A u \in Thread \ {t} : asked'[u] = asked[u]
        /\ Waiting' = Waiting \cup {new}
    BY AsksWaiting
  <1> HIDE DEF new
  <1>2. asked[t] = None /\ received' = received + 1 /\ received \in Nat
    BY DEF Asks, TypeOK
  <1>3. JobsOnDisk'
    BY <1>1 DEF JobsOnDisk
  <1>4. IdsBounded'
    <2> SUFFICES ASSUME NEW job \in Waiting' PROVE job.id <= received + 1
      BY <1>2 DEF IdsBounded
    <2>1. CASE job \in Waiting
      BY <1>2, <2>1, WaitingType DEF IdsBounded, Job
    <2>2. QED
      BY <1>1, <1>2, <2>1
  <1>5. JobsDistinct'
    BY DEF JobsDistinct
  <1>6. AskedLast'
    <2> SUFFICES ASSUME NEW u \in Thread, asked'[u] # None
                 PROVE  /\ asked'[u].client = u
                        /\ \A i \in DOMAIN queue : queue[i].client = u => queue[i].id < asked'[u].id
                        /\ worker.job # None /\ worker.job.client = u
                              => worker.job.id < asked'[u].id
      BY DEF AskedLast
    <2>1. CASE u # t
      BY <1>1, <2>1 DEF AskedLast
    <2>2. CASE u = t
      <3>1. \A job \in Waiting : job.id < new.id
        BY <1>1, <1>2, WaitingType DEF IdsBounded, Job
      <3>2. QED
        BY <1>1, <2>2, <3>1, WaitingPlaces, QueueType, NoneIsNoJob DEF new
    <2>3. QED
      BY <2>1, <2>2
  <1>7. QueueInOrder' /\ WorkerIsFirst'
    BY <1>2 DEF QueueInOrder, WorkerIsFirst
  <1>9. ScanSeen' /\ ScanStopped'
    <2>1. insertion # None => insertion.by \in Thread /\ asked[insertion.by] # None
      BY DEF TypeOK, InsertionState
    <2>2. insertion # None => asked'[insertion.by] = asked[insertion.by]
      BY <1>1, <1>2, <2>1
    <2>3. QED
      BY <2>2 DEF ScanSeen, ScanStopped, KeepsFrom
  <1>10. QED
    BY <1>3, <1>4, <1>5, <1>6, <1>7, <1>9

-----------------------------------------------------------------------------
(* A node is placed in the list *)

\* The job that the insertion under way puts in the list.
Inserted == asked[insertion.by]

LEMMA InsertionType ==
  ASSUME TypeOK, insertion # None
  PROVE  /\ insertion.by \in Thread /\ insertion.at \in Nat \ {0}
         /\ insertion.at = 1 \/ insertion.at \in DOMAIN queue
         /\ Inserted \in Job /\ Inserted # None
  BY NoneIsNoJob DEF TypeOK, InsertionState, Inserted

LEMMA KeepsHere ==
  ASSUME NEW old, NEW new
  PROVE  Keeps(old, new) <=> KeepsFrom(SectorOf(head), old, new)
  BY DEF Keeps, KeepsFrom

\* An insertion cuts jobs off only where it does not keep the one it stopped at.
PlacedIn(kept, cut) ==
    /\ PlacedBetween(queue, Inserted, queue', kept, cut)
    /\ kept = 0 /\ queue # <<>> => ~ Keeps(queue[insertion.at], Inserted)
    /\ queue # <<>> => \/ kept = insertion.at /\ cut = 0
                       \/ kept = 0 /\ cut = insertion.at - 1
    /\ cut > 0 => kept = 0 /\ insertion.at > 1 /\ Len(queue) > 1

LEMMA PlaceShape ==
  ASSUME TypeOK, InsertPlace
  PROVE  \E kept, cut \in Nat : PlacedIn(kept, cut)
  <1> DEFINE at == insertion.at
  <1>1. Inserted \in Job /\ at \in Nat \ {0} /\ (at = 1 \/ at \in DOMAIN queue)
    BY InsertionType DEF InsertPlace
  <1>2. queue' = Placed(at, Inserted)
    BY DEF InsertPlace, Inserted
  <1>3. CASE queue = <<>>
    <2>1. queue' = <<Inserted>> /\ Len(queue) = 0
      BY <1>2, <1>3, EmptySeq DEF Placed
    <2>2. PlacedBetween(queue, Inserted, queue', 0, 0)
      BY <1>1, <2>1 DEF PlacedBetween
    <2>3. QED
      BY <1>3, <2>2 DEF PlacedIn
  <1>4. CASE queue # <<>>
    <2>1. queue \in Seq(Job) /\ at \in 1 .. Len(queue) /\ Len(queue) \in Nat
      BY <1>1, <1>4, QueueType, EmptySeq
    <2>2. CASE Keeps(queue[at], Inserted)
      <3>1. queue' = InsertAt(queue, at + 1, Inserted)
        BY <1>2, <1>4, <2>2 DEF Placed
      <3>2. PlacedBetween(queue, Inserted, queue', at, 0)
        BY <1>1, <2>1, <3>1, InsertBetween
      <3>3. QED
        BY <1>1, <3>2 DEF PlacedIn
    <2>3. CASE ~ Keeps(queue[at], Inserted)
      <3>1. queue' = <<Inserted>> \o SubSeq(queue, at, Len(queue))
        BY <1>2, <1>4, <2>3 DEF Placed
      <3>2. PlacedBetween(queue, Inserted, queue', 0, at - 1)
        BY <1>1, <2>1, <3>1, FirstBefore
      <3>3. at - 1 > 0 => at > 1 /\ Len(queue) > 1
        BY <2>1
      <3>4. PlacedIn(0, at - 1) /\ at - 1 \in Nat
        BY <1>1, <2>3, <3>2, <3>3 DEF PlacedIn
      <3>5. QED
        BY <3>4
    <2>4. QED
      BY <2>2, <2>3
  <1>5. QED
    BY <1>3, <1>4

\* Where the nodes of the new list come from.
LEMMA PlacedFrom ==
  ASSUME TypeOK, InsertPlace, NEW kept \in Nat, NEW cut \in Nat, PlacedIn(kept, cut)
  PROVE  /\ kept + 1 \in DOMAIN queue' /\ queue'[kept + 1] = Inserted
         /\ DOMAIN queue' \subseteq Nat
         /\ \A i \in DOMAIN queue' :
                \/ i = kept + 1
                \/ i <= kept /\ i \in DOMAIN queue /\ queue'[i] = queue[i]
                \/ i > kept + 1 /\ i - 1 + cut \in DOMAIN queue
                     /\ queue'[i] = queue[i - 1 + cut]
         /\ cut = 0 => \A i \in DOMAIN queue : \E k \in DOMAIN queue' : queue'[k] = queue[i]
  <1> USE DEF PlacedIn, PlacedBetween
  <1>1. Len(queue) \in Nat /\ DOMAIN queue = 1 .. Len(queue)
    BY QueueType
  <1>2. DOMAIN queue' = 1 .. Len(queue')
    BY LenProperties
  <1>3. kept + 1 \in DOMAIN queue' /\ queue'[kept + 1] = Inserted
    BY <1>1, <1>2
  <1>4. ASSUME NEW i \in DOMAIN queue', i # kept + 1
        PROVE  \/ i <= kept /\ i \in DOMAIN queue /\ queue'[i] = queue[i]
               \/ i > kept + 1 /\ i - 1 + cut \in DOMAIN queue
                    /\ queue'[i] = queue[i - 1 + cut]
    BY <1>1, <1>2, <1>4
  <1>5. ASSUME cut = 0, NEW i \in DOMAIN queue
        PROVE  \E k \in DOMAIN queue' : queue'[k] = queue[i]
    <2>1. CASE i <= kept
      <3>1. i \in DOMAIN queue' /\ queue'[i] = queue[i]
        BY <1>1, <1>2, <1>5, <2>1
      <3>2. QED
        BY <3>1
    <2>2. CASE i > kept
      <3>1. i + 1 \in DOMAIN queue' /\ (i + 1) - 1 + cut = i
        BY <1>1, <1>2, <1>5, <2>2
      <3>2. queue'[i + 1] = queue[i]
        BY <1>1, <1>2, <1>5, <2>2, <3>1
      <3>3. QED
        BY <3>1, <3>2
    <2>3. QED
      BY <1>1, <1>5, <2>1, <2>2
  <1>6. QED
    BY <1>2, <1>3, <1>4, <1>5

\* The new list has the new job and, unless some are cut off, all the others.
LEMMA PlaceWaiting ==
  ASSUME TypeOK, InsertPlace, NEW kept \in Nat, NEW cut \in Nat, PlacedIn(kept, cut)
  PROVE  Waiting' \subseteq Waiting /\ (cut = 0 => Waiting' = Waiting)
  <1> DEFINE by == insertion.by
  <1>1. /\ by \in Thread /\ asked' = [asked EXCEPT ![by] = None] /\ worker' = worker
        /\ asked \in [Thread -> Job \cup {None}] /\ Inserted \in Job /\ Inserted # None
    BY InsertionType DEF InsertPlace, TypeOK
  <1>2. asked'[by] = None /\ \A t \in Thread : t # by => asked'[t] = asked[t]
    BY <1>1
  <1>3. ASSUME NEW job \in Waiting' PROVE job \in Waiting
    <2>1. CASE \E i \in DOMAIN queue' : job = queue'[i]
      <3>1. job = Inserted \/ \E i \in DOMAIN queue : job = queue[i]
        BY <2>1, PlacedFrom
      <3>2. QED
        BY <1>1, <3>1, WaitingPlaces DEF Inserted
    <2>2. CASE job # None /\ \E t \in Thread : job = asked'[t]
      BY <1>2, <2>2, WaitingPlaces
    <2>3. CASE job # None /\ job = worker'.job
      BY <1>1, <2>3, WaitingPlaces
    <2>4. QED
      BY <1>3, <2>1, <2>2, <2>3, WaitingPlacesNext
  <1>4. ASSUME cut = 0, NEW job \in Waiting PROVE job \in Waiting'
    <2>1. CASE \E i \in DOMAIN queue : job = queue[i]
      BY <1>4, <2>1, PlacedFrom, WaitingPlacesNext
    <2>2. CASE job # None /\ \E t \in Thread : job = asked[t]
      <3>1. PICK t \in Thread : job = asked[t]
        BY <2>2
      <3>2. CASE t = by
        BY <3>1, <3>2, PlacedFrom, WaitingPlacesNext DEF Inserted
      <3>3. CASE t # by
        BY <1>2, <2>2, <3>1, <3>3, WaitingPlacesNext
      <3>4. QED
        BY <3>2, <3>3
    <2>3. CASE job # None /\ job = worker.job
      BY <1>1, <2>3, WaitingPlacesNext
    <2>4. QED
      BY <1>4, <2>1, <2>2, <2>3, WaitingPlaces
  <1>5. QED
    BY <1>3, <1>4

\* The job that is put in the list is in no other place.
LEMMA InsertedIsNew ==
  ASSUME TypeOK, AskedLast, insertion # None
  PROVE  /\ Inserted # worker.job /\ Inserted \in Waiting
         /\ \A i \in DOMAIN queue : queue[i] # Inserted /\ queue[i] \in Waiting
  <1>1. /\ insertion.by \in Thread /\ Inserted \in Job /\ Inserted # None
        /\ Inserted.client = insertion.by /\ Inserted.id \in Nat
    BY InsertionType DEF AskedLast, Inserted, Job
  <1>2. QED
    BY <1>1, QueueType, WaitingPlaces DEF AskedLast, Inserted

\* A job is kept before another for its sector.
LEMMA SameSectorKept ==
  ASSUME NEW old, NEW new, old.sector = new.sector, SectorOf(head) \in Nat,
         new.sector \in Nat
  PROVE  Keeps(old, new)
  BY DEF Keeps, Distance

LEMMA HeadSector ==
  ASSUME TypeOK
  PROVE  SectorOf(head) \in Nat /\ perCylinder \in Nat \ {0}
  <1>1. perCylinder \in Nat \ {0} /\ head.track \in Nat /\ head.sector \in Nat
    BY PlanifierAssumption DEF TypeOK, Position
  <1>2. head.track * perCylinder \in Nat
    BY <1>1
  <1>3. QED
    BY <1>1, <1>2 DEF SectorOf

\* The list holds as many jobs as it has nodes, the worker one more.
LEMMA HeldCount ==
  ASSUME TypeOK, JobsDistinct
  PROVE  IsFiniteSet(Held) /\ Cardinality(Held) \in Nat /\ Len(queue) <= Cardinality(Held)
  <1>1. /\ queue \in Seq(Job) /\ Len(queue) \in Nat /\ DOMAIN queue = 1 .. Len(queue)
        /\ queue \in [1 .. Len(queue) -> Job]
    BY QueueType, LenProperties
  <1>2. queue \in Bijection(1 .. Len(queue), ToSet(queue))
    BY <1>1 DEF Bijection, Injection, IsInjective, Surjection, ToSet, JobsDistinct
  <1>3. IsFiniteSet(1 .. Len(queue)) /\ Cardinality(1 .. Len(queue)) = Len(queue)
    BY <1>1, FS_Interval
  <1>4. IsFiniteSet(ToSet(queue)) /\ Cardinality(ToSet(queue)) = Len(queue)
    BY <1>2, <1>3, FS_Bijection DEF ExistsBijection
  <1>5. IsFiniteSet(Held)
    <2>1. IsFiniteSet(ToSet(queue) \cup {worker.job})
      BY <1>4, FS_AddElement
    <2>2. Held \subseteq ToSet(queue) \cup {worker.job}
      BY DEF Held
    <2>3. QED
      BY <2>1, <2>2, FS_Subset
  <1>6. ToSet(queue) \subseteq Held
    BY DEF Held
  <1>7. QED
    BY <1>4, <1>5, <1>6, FS_Subset, FS_CardinalityType

LEMMA PlaceInvariant ==
  ASSUME TypeOK, ListInv, InsertPlace
  PROVE  ListInv'
  <1> USE DEF ListInv
  <1>1. PICK kept \in Nat, cut \in Nat : PlacedIn(kept, cut)
    BY PlaceShape
  <1>2. Waiting' \subseteq Waiting
    BY <1>1, PlaceWaiting
  <1> DEFINE by == insertion.by
  <1>3. /\ insertion # None /\ insertion' = None /\ by \in Thread
        /\ UNCHANGED <<algorithm, worker, received>>
        /\ Inserted \in Job /\ Inserted # None
        /\ Inserted.client = by /\ Inserted.id \in Nat
        /\ asked'[by] = None /\ \A t \in Thread : t # by => asked'[t] = asked[t]
    BY InsertionType DEF InsertPlace, TypeOK, configVars, AskedLast, Inserted, Job
  <1>4. /\ kept + 1 \in DOMAIN queue' /\ queue'[kept + 1] = Inserted
        /\ DOMAIN queue' \subseteq Nat
        /\ \A i \in DOMAIN queue' :
               \/ i = kept + 1
               \/ i <= kept /\ i \in DOMAIN queue /\ queue'[i] = queue[i]
               \/ i > kept + 1 /\ i - 1 + cut \in DOMAIN queue
                    /\ queue'[i] = queue[i - 1 + cut]
    BY <1>1, PlacedFrom
  <1>5. Inserted # worker.job /\ \A i \in DOMAIN queue : queue[i] # Inserted
    BY <1>3, InsertedIsNew
  <1>6. JobsOnDisk' /\ IdsBounded'
    BY <1>2, <1>3 DEF JobsOnDisk, IdsBounded
  <1>7. loose \subseteq loose' /\ (Inserted.id \notin loose' => Len(queue) < 3)
    <2>1. Cardinality(Held) >= 3 => Inserted.id \in loose'
      BY DEF InsertPlace, Inserted
    <2>2. loose \subseteq loose'
      BY DEF InsertPlace
    <2>3. QED
      BY <2>1, <2>2, HeldCount, QueueType
  <1>8. JobsDistinct'
    <2> SUFFICES ASSUME NEW i \in DOMAIN queue'
                 PROVE  /\ queue'[i] # worker.job
                        /\ \A k \in DOMAIN queue' : queue'[i] = queue'[k] => i = k
      BY <1>3 DEF JobsDistinct
    <2>1. queue'[i] # worker.job
      BY <1>4, <1>5 DEF JobsDistinct
    <2>2. ASSUME NEW k \in DOMAIN queue', queue'[i] = queue'[k] PROVE i = k
      <3>1. i \in Nat /\ k \in Nat
        BY <1>4
      <3>2. CASE i = kept + 1 \/ k = kept + 1
        BY <1>4, <1>5, <2>2, <3>2
      <3>3. CASE i <= kept /\ k <= kept
        BY <1>4, <2>2, <3>3, <3>1 DEF JobsDistinct
      <3>4. CASE i <= kept /\ k > kept + 1
        <4>1. i = k - 1 + cut
          BY <1>4, <2>2, <3>1, <3>4 DEF JobsDistinct
        <4>2. QED
          BY <4>1, <3>1, <3>4
      <3>5. CASE i > kept + 1 /\ k <= kept
        <4>1. i - 1 + cut = k
          BY <1>4, <2>2, <3>1, <3>5 DEF JobsDistinct
        <4>2. QED
          BY <4>1, <3>1, <3>5
      <3>6. CASE i > kept + 1 /\ k > kept + 1
        <4>1. i - 1 + cut = k - 1 + cut
          BY <1>4, <2>2, <3>1, <3>6 DEF JobsDistinct
        <4>2. QED
          BY <4>1, <3>1
      <3>7. QED
        BY <3>1, <3>2, <3>3, <3>4, <3>5, <3>6
    <2>3. QED
      BY <2>1, <2>2
  <1>9. AskedLast'
    <2> SUFFICES ASSUME NEW t \in Thread, asked'[t] # None
                 PROVE  /\ asked'[t].client = t
                        /\ \A i \in DOMAIN queue' :
                               queue'[i].client = t => queue'[i].id < asked'[t].id
                        /\ worker.job # None /\ worker.job.client = t
                              => worker.job.id < asked'[t].id
      BY <1>3 DEF AskedLast
    <2>1. t # by /\ asked'[t] = asked[t]
      BY <1>3
    <2>2. QED
      BY <1>3, <1>4, <2>1 DEF AskedLast
  <1>10. QueueInOrder'
    <2> SUFFICES ASSUME NEW i \in DOMAIN queue', NEW k \in DOMAIN queue', i < k,
                        SameSector(queue'[i], queue'[k]), queue'[i].id \notin loose'
                 PROVE  queue'[i].id < queue'[k].id
      BY <1>3 DEF QueueInOrder, SameSector
    <2>1. i \in Nat /\ k \in Nat
      BY <1>4
    <2>2. CASE k = kept + 1
      <3>1. i \in DOMAIN queue /\ queue'[i] = queue[i] /\ queue[i].client = by
        BY <1>3, <1>4, <2>1, <2>2 DEF SameSector
      <3>2. QED
        BY <1>3, <1>4, <2>2, <3>1 DEF AskedLast, Inserted
    <2>3. CASE i = kept + 1
      <3> DEFINE at == insertion.at
                 p == k - 1 + cut
      <3>1. p \in DOMAIN queue /\ queue'[k] = queue[p]
        BY <1>4, <2>1, <2>3
      <3>2. Len(queue) \in Nat /\ Len(queue) < 3 /\ DOMAIN queue = 1 .. Len(queue)
        BY <1>4, <1>7, <2>3, QueueType
      <3>3. queue # <<>> /\ at \in Nat \ {0} /\ insertion.step = "place"
        BY <1>3, <3>1, InsertionType DEF InsertPlace
      <3>4. queue[p].sector = Inserted.sector /\ Inserted.sector \in Nat
        BY <1>3, <1>4, <2>3, <3>1 DEF SameSector, Job
      <3>5. (kept = at /\ cut = 0) \/ (kept = 0 /\ cut = at - 1)
        BY <1>1, <3>3 DEF PlacedIn
      <3>6. p >= at /\ p < 3 /\ p \in Nat
        <4>1. p \in Nat /\ p < 3
          BY <3>1, <3>2
        <4>2. k >= kept + 2
          BY <2>1, <2>3
        <4>3. CASE kept = at /\ cut = 0
          BY <2>1, <3>3, <4>1, <4>2, <4>3
        <4>4. CASE kept = 0 /\ cut = at - 1
          BY <2>1, <3>3, <4>1, <4>2, <4>4
        <4>5. QED
          BY <3>5, <4>1, <4>3, <4>4
      <3>7. p # at + 1
        BY <1>3, <3>1, <3>3, <3>4 DEF ScanStopped, Inserted
      <3>8. p = at
        BY <3>3, <3>6, <3>7
      <3>9. kept = 0
        BY <2>1, <2>3, <3>3, <3>5, <3>8
      <3>10. ~ Keeps(queue[p], Inserted)
        BY <1>1, <3>3, <3>8, <3>9 DEF PlacedIn
      <3>11. QED
        BY <3>4, <3>10, SameSectorKept, HeadSector
    <2>4. CASE i # kept + 1 /\ k # kept + 1
      <3>1. CASE k <= kept
        BY <1>4, <1>7, <2>1, <2>4, <3>1 DEF QueueInOrder
      <3>2. CASE i > kept + 1
        <4>1. i - 1 + cut < k - 1 + cut
          BY <2>1
        <4>2. QED
          BY <1>4, <1>7, <2>1, <2>4, <3>2, <4>1 DEF QueueInOrder
      <3>3. CASE i <= kept /\ k > kept + 1
        <4>1. i < k - 1 + cut
          BY <2>1, <3>3
        <4>2. QED
          BY <1>4, <1>7, <2>1, <2>4, <3>3, <4>1 DEF QueueInOrder
      <3>4. QED
        BY <2>1, <2>4, <3>1, <3>2, <3>3
    <2>5. QED
      BY <2>2, <2>3, <2>4
  <1>11. WorkerIsFirst'
    <2> SUFFICES ASSUME worker.job # None, NEW i \in DOMAIN queue',
                        SameSector(queue'[i], worker.job), worker.job.id \notin loose'
                 PROVE  worker.job.id < queue'[i].id
      BY <1>3 DEF WorkerIsFirst, SameSector
    <2>1. CASE i = kept + 1
      <3>1. worker.job.client = by
        BY <1>3, <1>4, <2>1 DEF SameSector
      <3>2. QED
        BY <1>3, <1>4, <2>1, <3>1 DEF AskedLast, Inserted
    <2>2. CASE i # kept + 1
      BY <1>4, <1>7, <2>2 DEF WorkerIsFirst
    <2>3. QED
      BY <2>1, <2>2
  <1>12. ScanSeen' /\ ScanStopped'
    BY <1>3 DEF ScanSeen, ScanStopped
  <1>13. QED
    BY <1>6, <1>8, <1>9, <1>10, <1>11, <1>12

\* An insertion starts at the first job, and goes on past those it keeps.
LEMMA BeginInvariant ==
  ASSUME ListInv, NEW t \in Thread, InsertBegin(t)
  PROVE  ListInv'
  <1> USE DEF ListInv, InsertBegin, configVars
  <1>1. Waiting' = Waiting
    BY StillWaiting
  <1>2. JobsOnDisk' /\ IdsBounded'
    BY <1>1 DEF JobsOnDisk, IdsBounded
  <1>3. JobsDistinct' /\ AskedLast' /\ QueueInOrder' /\ WorkerIsFirst'
    BY DEF JobsDistinct, AskedLast, QueueInOrder, WorkerIsFirst
  <1>4. ScanSeen' /\ ScanStopped'
    BY DEF ScanSeen, ScanStopped
  <1>5. QED
    BY <1>2, <1>3, <1>4

LEMMA ScanInvariant ==
  ASSUME TypeOK, ListInv, InsertScan
  PROVE  ListInv'
  <1> USE DEF ListInv
  <1>1. insertion # None /\ UNCHANGED <<algorithm, asked, queue, worker, received, loose>>
    BY DEF InsertScan, configVars
  <1>2. Waiting' = Waiting
    BY <1>1, StillWaiting
  <1>3. JobsOnDisk' /\ IdsBounded'
    BY <1>1, <1>2 DEF JobsOnDisk, IdsBounded
  <1>4. JobsDistinct' /\ AskedLast' /\ QueueInOrder' /\ WorkerIsFirst'
    BY <1>1 DEF JobsDistinct, AskedLast, QueueInOrder, WorkerIsFirst
  <1>5. ScanSeen'
    <2> DEFINE next == insertion.at + 1
               goesOn == next <= Len(queue) /\ Keeps(queue[next], Inserted)
    <2>1. insertion \in InsertionState
      BY <1>1 DEF TypeOK
    <2>2. CASE goesOn
      <3>1. /\ insertion'.at = next /\ insertion'.seen = SectorOf(head)
            /\ insertion'.by = insertion.by
        BY <2>1, <2>2 DEF InsertScan, InsertionState, Inserted
      <3>2. KeepsFrom(SectorOf(head), queue[next], Inserted)
        BY <2>2, KeepsHere
      <3>3. QED
        BY <1>1, <3>1, <3>2 DEF ScanSeen, KeepsFrom, Inserted
    <2>3. CASE ~ goesOn
      <3>1. /\ insertion'.at = insertion.at /\ insertion'.seen = insertion.seen
            /\ insertion'.by = insertion.by
        BY <2>1, <2>3 DEF InsertScan, InsertionState, Inserted
      <3>2. QED
        BY <1>1, <3>1 DEF ScanSeen, KeepsFrom
    <2>4. QED
      BY <2>2, <2>3
  <1>6. ScanStopped'
    <2> SUFFICES ASSUME insertion'.step = "place", insertion'.at + 1 \in DOMAIN queue
                 PROVE  queue[insertion'.at + 1].sector # asked[insertion'.by].sector
      BY <1>1 DEF ScanStopped
    <2> DEFINE next == insertion.at + 1
               goesOn == next <= Len(queue) /\ Keeps(queue[next], asked[insertion.by])
    <2>1. insertion \in InsertionState /\ insertion.step = "scan"
      BY <1>1 DEF TypeOK, InsertScan
    <2>2. ~ goesOn
      BY <2>1 DEF InsertScan, InsertionState
    <2>3. insertion'.at = insertion.at /\ insertion'.by = insertion.by
      BY <2>1, <2>2 DEF InsertScan, InsertionState
    <2>4. next <= Len(queue) /\ ~ Keeps(queue[next], Inserted)
      BY <2>2, <2>3, QueueType DEF Inserted
    <2>5. SectorOf(head) \in Nat /\ Inserted.sector \in Nat
      BY <1>1, HeadSector, InsertionType DEF Job
    <2>6. queue[next].sector # Inserted.sector
      BY <2>4, <2>5, SameSectorKept
    <2>7. QED
      BY <2>3, <2>6 DEF Inserted
  <1>7. QED
    BY <1>3, <1>4, <1>5, <1>6

-----------------------------------------------------------------------------
(* Types *)

LEMMA JobSectorType == JobSector \subseteq Nat
  <1>1. TrackSectors * Cylinders \in Nat
    BY PlanifierAssumption
  <1>2. QED
    BY <1>1, PlanifierAssumption

\* Quotients and remainders of natural numbers.
LEMMA DivMod ==
  ASSUME NEW n \in Nat, NEW d \in Nat \ {0}
  PROVE  n \div d \in Nat /\ n % d \in 0 .. d - 1
  OBVIOUS

\* The numbers of the configuration.
LEMMA SizesType ==
  /\ TrackSectors \in Nat \ {0} /\ Cylinders \in Nat \ {0} /\ ConfigAddress \in Nat \ {0}
  /\ TrackJump \in Nat \ {0} /\ Width \in Nat \ {0}
  BY PlanifierAssumption

LEMMA StartType == Start \in Position
  BY DEF Start, Position

LEMMA PositionType ==
  ASSUME TypeOK, NEW sector \in Nat
  PROVE  PositionOf(sector) \in Position
  BY HeadSector, DivMod DEF PositionOf, Position

LEMMA RequestType ==
  ASSUME TypeOK, NEW sector \in Nat
  PROVE  Request(sector) \in Position /\ SectorOf(Request(sector)) \in Nat
  <1>1. sector \div TrackSectors \in Nat /\ sector % TrackSectors \in Nat
    BY SizesType, DivMod
  <1>2. (sector \div TrackSectors) * perCylinder \in Nat
    BY <1>1, HeadSector
  <1>3. QED
    BY <1>1, <1>2 DEF Request, Position, SectorOf

LEMMA AfterTrackType ==
  ASSUME NEW sector \in Nat
  PROVE  AfterTrack(sector) \in Nat
  <1>1. TrackSectors \in Nat \ {0} /\ TrackJump % TrackSectors \in Nat
    BY SizesType, DivMod
  <1>2. QED
    BY <1>1 DEF AfterTrack

LEMMA InitInvariant == Init => IInv
  <1> SUFFICES ASSUME Init PROVE IInv
    OBVIOUS
  <1> USE DEF Init
  <1>1. Waiting = {}
    BY DEF Waiting, Held, ToSet
  <1>2. TypeOK
    <2>1. conn \in [Client -> {"none", "serving", "inserting", "ended"}]
          /\ asked \in [Thread -> Job \cup {None}] /\ volume \in [JobSector -> Nat]
      OBVIOUS
    <2>2. queue \in Seq(Job) /\ lost \subseteq Job
          /\ answers \subseteq [id : Nat, client : Thread, value : Nat]
      OBVIOUS
    <2>3. worker \in WorkerState /\ head \in Position /\ perCylinder = ConfigAddress
      BY DEF WorkerState, Position, Start
    <2>4. /\ \A c \in Client : asked[c] = None /\ conn[c] # "inserting"
          /\ asked[Console] = None
      BY DEF Thread
    <2>5. QED
      BY <2>1, <2>2, <2>3, <2>4 DEF TypeOK
  <1>3. JobsOnDisk /\ IdsBounded
    BY <1>1 DEF JobsOnDisk, IdsBounded
  <1>4. DOMAIN queue = {}
    OBVIOUS
  <1>5. JobsDistinct /\ AskedLast /\ QueueInOrder /\ WorkerIsFirst /\ MarkTraced
    BY <1>4 DEF JobsDistinct, AskedLast, QueueInOrder, WorkerIsFirst, MarkTraced
  <1>6. ScanSeen /\ ScanStopped
    BY DEF ScanSeen, ScanStopped
  <1>8. QED
    BY <1>2, <1>3, <1>5, <1>6 DEF IInv, ListInv

\* The threads of the connections keep the types.
LEMMA ConnectionTypeOK ==
  ASSUME TypeOK, NEW c \in Client, Accept(c) \/ EndOfFile(c)
  PROVE  TypeOK'
  <1> USE DEF Accept, EndOfFile, configVars, listVars, headVars, consoleVars
  <1>1. UNCHANGED <<algorithm, pooled, asked, insertion, queue, lost, worker, head,
                    perCylinder, console, tool, trace, traces, volume, answers,
                    received, loose>>
    OBVIOUS
  <1>2. /\ conn' \in [Client -> {"none", "serving", "inserting", "ended"}]
        /\ conn[c] # "inserting" /\ conn'[c] # "inserting"
        /\ \A d \in Client : d # c => conn'[d] = conn[d]
    BY DEF TypeOK
  <1>3. QED
    BY <1>1, <1>2 DEF TypeOK

LEMMA AskedJob ==
  ASSUME TypeOK, NEW t \in Thread, NEW op \in {"get", "put", "trace"}, NEW sector \in Nat,
         Asks(t, op, sector)
  PROVE  /\ asked' \in [Thread -> Job \cup {None}] /\ received' \in Nat
         /\ asked'[t] # None /\ asked[t] = None
         /\ \A u \in Thread : u # t => asked'[u] = asked[u]
  BY NoneIsNoJob DEF TypeOK, Asks, Job

LEMMA RequestTypeOK ==
  ASSUME TypeOK, NEW c \in Client, NEW op \in {"get", "put"}, NEW sector \in JobSector,
         ProcessRequest(c, op, sector)
  PROVE  TypeOK'
  <1> USE DEF ProcessRequest, configVars, headVars, consoleVars
  <1>1. UNCHANGED <<algorithm, pooled, insertion, queue, lost, worker, head, perCylinder,
                    console, tool, trace, traces, volume, answers, loose>>
    OBVIOUS
  <1>2. c \in Thread /\ c # Console /\ sector \in Nat
    BY PlanifierAssumption, JobSectorType DEF Thread
  <1>3. /\ asked' \in [Thread -> Job \cup {None}] /\ received' \in Nat
        /\ asked'[c] # None /\ asked[c] = None
        /\ \A u \in Thread : u # c => asked'[u] = asked[u]
    BY <1>2, AskedJob
  <1>4. /\ conn' \in [Client -> {"none", "serving", "inserting", "ended"}]
        /\ conn'[c] = "inserting" /\ \A d \in Client : d # c => conn'[d] = conn[d]
    BY DEF TypeOK
  <1>5. \A d \in Client : (asked'[d] # None) <=> (conn'[d] = "inserting")
    BY <1>3, <1>4 DEF TypeOK, Thread
  <1>6. (asked'[Console] # None) <=> (console' = "marks")
    BY <1>1, <1>2, <1>3 DEF TypeOK, Thread
  <1>7. insertion' # None => /\ asked'[insertion'.by] # None
                             /\ insertion'.at = 1 \/ insertion'.at \in DOMAIN queue'
    BY <1>1, <1>3 DEF TypeOK, InsertionState
  <1>8. QED
    BY <1>1, <1>3, <1>4, <1>5, <1>6, <1>7 DEF TypeOK

LEMMA MarkTypeOK ==
  ASSUME TypeOK, NEW sector \in TraceSector, ConsoleMark(sector)
  PROVE  TypeOK'
  <1> USE DEF ConsoleMark, ToolAsks, configVars, headVars
  <1>1. /\ UNCHANGED <<algorithm, pooled, conn, insertion, queue, lost, worker, head,
                       perCylinder, trace, volume, answers, loose>>
        /\ console' = "marks" /\ tool' = "waits" /\ traces' = traces + 1
    OBVIOUS
  <1>2. Console \in Thread /\ Console \notin Client /\ SectorOf(Request(sector)) \in Nat
    BY PlanifierAssumption, RequestType DEF Thread
  <1>3. /\ asked' \in [Thread -> Job \cup {None}] /\ received' \in Nat
        /\ asked'[Console] # None /\ asked[Console] = None
        /\ \A u \in Thread : u # Console => asked'[u] = asked[u]
    BY <1>2, AskedJob
  <1>4. \A d \in Client : (asked'[d] # None) <=> (conn'[d] = "inserting")
    BY <1>1, <1>2, <1>3 DEF TypeOK, Thread
  <1>5. insertion' # None => /\ asked'[insertion'.by] # None
                             /\ insertion'.at = 1 \/ insertion'.at \in DOMAIN queue'
    BY <1>1, <1>3 DEF TypeOK, InsertionState
  <1>6. traces' \in Nat
    BY <1>1 DEF TypeOK
  <1>7. QED
    BY <1>1, <1>3, <1>4, <1>5, <1>6 DEF TypeOK

\* An insertion keeps the types, and its place stays in the list.
LEMMA InsertTypeOK ==
  ASSUME TypeOK, InsertScan \/ \E t \in Thread : InsertBegin(t)
  PROVE  TypeOK'
  <1>1. UNCHANGED <<configVars, conn, asked, queue, lost, worker, headVars, consoleVars,
                    volume, answers, received, loose>>
    BY DEF InsertBegin, InsertScan
  <1>2. /\ insertion' \in InsertionState
        /\ asked[insertion'.by] # None
        /\ insertion'.at = 1 \/ insertion'.at \in DOMAIN queue
    <2>1. CASE InsertScan
      <3>1. insertion \in InsertionState /\ SectorOf(head) \in Nat
            /\ asked[insertion.by] # None
            /\ (insertion.at = 1 \/ insertion.at \in DOMAIN queue)
        BY <2>1, HeadSector DEF InsertScan, TypeOK
      <3> DEFINE next == insertion.at + 1
                 goesOn == next <= Len(queue) /\ Keeps(queue[next], asked[insertion.by])
      <3>2. CASE goesOn
        <4>1. next \in DOMAIN queue /\ next \in Nat \ {0}
          BY <3>1, <3>2, QueueType DEF InsertionState
        <4>2. insertion' = [insertion EXCEPT !.seen = SectorOf(head), !.at = next]
          BY <2>1, <3>1, <3>2 DEF InsertScan, InsertionState
        <4>3. QED
          BY <3>1, <4>1, <4>2 DEF InsertionState
      <3>3. CASE ~ goesOn
        <4>1. insertion' = [insertion EXCEPT !.step = "place"]
          BY <2>1, <3>1, <3>3 DEF InsertScan, InsertionState
        <4>2. QED
          BY <3>1, <4>1 DEF InsertionState
      <3>4. QED
        BY <3>2, <3>3
    <2>2. ASSUME NEW t \in Thread, InsertBegin(t)
          PROVE  /\ insertion' \in InsertionState
                 /\ asked[insertion'.by] # None
                 /\ insertion'.at = 1
      <3>1. asked[t] \in Job
        BY <2>2 DEF InsertBegin, TypeOK
      <3>2. QED
        BY <2>2, <3>1 DEF InsertBegin, InsertionState, Job
    <2>3. QED
      BY <2>1, <2>2
  <1>3. UNCHANGED <<algorithm, pooled, head, perCylinder, console, tool, trace, traces>>
    BY <1>1 DEF configVars, headVars, consoleVars
  <1>4. QED
    BY <1>1, <1>2, <1>3 DEF TypeOK

LEMMA PlaceTypeOK ==
  ASSUME TypeOK, InsertPlace
  PROVE  TypeOK'
  <1> USE DEF InsertPlace, configVars, headVars
  <1> DEFINE by == insertion.by
  <1>1. /\ UNCHANGED <<algorithm, pooled, worker, head, perCylinder, tool, trace, traces,
                       volume, answers, received>>
        /\ insertion # None /\ insertion' = None
    OBVIOUS
  <1>2. by \in Thread /\ Inserted # None
    BY InsertionType
  <1>3. queue' \in Seq(Job)
    BY PlaceShape DEF PlacedIn, PlacedBetween
  <1>4. lost' \subseteq Job
    <2>1. ToSet(queue) \subseteq Job
      BY QueueType DEF ToSet
    <2>2. QED
      BY <2>1 DEF TypeOK
  <1>9. loose' \subseteq Nat
    BY InsertionType DEF TypeOK, Inserted, Job
  <1>5. /\ asked' \in [Thread -> Job \cup {None}] /\ asked'[by] = None
        /\ \A t \in Thread : t # by => asked'[t] = asked[t]
    BY <1>2 DEF TypeOK
  <1>6. CASE by \in Client
    <2>1. /\ conn' \in [Client -> {"none", "serving", "inserting", "ended"}]
          /\ conn'[by] # "inserting" /\ \A d \in Client : d # by => conn'[d] = conn[d]
          /\ by # Console /\ console' = console
      BY <1>6, PlanifierAssumption DEF TypeOK
    <2>2. (asked'[Console] # None) <=> (console' = "marks")
      BY <1>5, <2>1 DEF TypeOK, Thread
    <2>3. \A d \in Client : (asked'[d] # None) <=> (conn'[d] = "inserting")
      BY <1>5, <2>1 DEF TypeOK, Thread
    <2>4. QED
      BY <1>1, <1>3, <1>4, <1>5, <1>9, <2>1, <2>2, <2>3 DEF TypeOK
  <1>7. CASE by \notin Client
    <2>1. by = Console /\ conn' = conn /\ console' = "asked"
      BY <1>2, <1>7 DEF Thread
    <2>2. \A d \in Client : (asked'[d] # None) <=> (conn'[d] = "inserting")
      BY <1>5, <2>1, PlanifierAssumption DEF TypeOK, Thread
    <2>3. QED
      BY <1>1, <1>3, <1>4, <1>5, <1>9, <2>1, <2>2 DEF TypeOK
  <1>8. QED
    BY <1>6, <1>7

\* Only the worker, the head, the console, the trace and the disk change: the
\* rest of TypeOK is about the list and the connections.
Bystanders == <<algorithm, pooled, conn, asked, insertion, lost, received, loose>>

LEMMA WorkerPickTypeOK ==
  ASSUME TypeOK, WorkerPick
  PROVE  TypeOK'
  <1> USE DEF WorkerPick, configVars, headVars, consoleVars
  <1>1. /\ UNCHANGED Bystanders
        /\ UNCHANGED <<head, perCylinder, console, tool, trace, traces, volume, answers>>
        /\ insertion = None
    BY DEF Bystanders, QueueGet
  <1>2. queue' \in Seq(Job) /\ Head(queue) \in Job
    BY PickType
  <1>3. worker' \in WorkerState /\ worker'.job # None /\ worker'.pc = "execute"
    BY <1>2, NoneIsNoJob, StartType DEF WorkerState
  <1>4. QED
    BY <1>1, <1>2, <1>3 DEF TypeOK, Bystanders

\* The job the worker executes.
LEMMA ExecutedType ==
  ASSUME TypeOK, worker.pc \in {"execute", "traces", "signals", "reports"}
  PROVE  worker.job \in Job /\ worker.job # None /\ worker.job.sector \in Nat
         /\ worker.job.id \in Nat /\ worker.job.client \in Thread
  BY DEF TypeOK, WorkerState, Job

LEMMA MovesType ==
  ASSUME TypeOK, NEW sector \in Nat, MovesTo(sector)
  PROVE  worker' \in WorkerState /\ worker'.job = None /\ worker'.pc = "track"
  BY PositionType DEF MovesTo, WorkerState

LEMMA WorkerWriteTypeOK ==
  ASSUME TypeOK, WorkerWrite
  PROVE  TypeOK'
  <1> USE DEF WorkerWrite, configVars, listVars, headVars, consoleVars
  <1>1. UNCHANGED <<Bystanders, queue, head, perCylinder, console, tool, trace, traces, answers>>
    BY DEF Bystanders
  <1>2. worker' \in WorkerState /\ worker'.job = None /\ worker'.pc = "track"
    BY ExecutedType, MovesType
  <1>3. volume' \in [JobSector -> Nat]
    BY ExecutedType DEF TypeOK
  <1>4. QED
    BY <1>1, <1>2, <1>3 DEF TypeOK, Bystanders

LEMMA WorkerReadTypeOK ==
  ASSUME TypeOK, JobsOnDisk, WorkerRead
  PROVE  TypeOK'
  <1> USE DEF WorkerRead, configVars, listVars, headVars, consoleVars
  <1>1. UNCHANGED <<Bystanders, queue, head, perCylinder, console, tool, trace, traces, volume>>
    BY DEF Bystanders
  <1>2. worker' \in WorkerState /\ worker'.job = None /\ worker'.pc = "track"
    BY ExecutedType, MovesType
  <1>3. worker.job.sector \in JobSector
    BY ExecutedType, WaitingPlaces DEF JobsOnDisk
  <1>4. answers' \subseteq [id : Nat, client : Thread, value : Nat]
    <2>1. volume[worker.job.sector] \in Nat
      BY <1>3 DEF TypeOK
    <2>2. QED
      BY <2>1, ExecutedType DEF Answers, TypeOK
  <1>5. QED
    BY <1>1, <1>2, <1>4 DEF TypeOK, Bystanders

LEMMA WorkerMoveTypeOK ==
  ASSUME TypeOK, WorkerSetTrack \/ WorkerSetSector
  PROVE  TypeOK'
  <1> USE DEF WorkerSetTrack, WorkerSetSector, configVars, listVars, consoleVars
  <1>1. UNCHANGED <<Bystanders, queue, perCylinder, console, tool, trace, traces, volume,
                    answers>>
    BY DEF Bystanders
  <1>2. worker.to \in Position /\ worker.job = None /\ worker \in WorkerState /\ head \in Position
    BY DEF TypeOK, WorkerState
  <1>3. worker' \in WorkerState /\ worker'.job = None /\ worker'.pc \in {"sector", "pick"}
    BY <1>2, StartType DEF WorkerState
  <1>4. head' \in Position
    BY <1>2 DEF Position
  <1>5. QED
    BY <1>1, <1>3, <1>4 DEF TypeOK, Bystanders

LEMMA WorkerReportTypeOK ==
  ASSUME TypeOK, WorkerSignal \/ WorkerReport
  PROVE  TypeOK'
  <1> USE DEF WorkerSignal, WorkerReport, configVars, listVars, headVars, consoleVars
  <1>1. UNCHANGED <<Bystanders, queue, head, perCylinder, trace, traces, volume, answers>>
    BY DEF Bystanders
  <1>2. tool' \in {"idle", "waits"}
    BY DEF TypeOK
  <1>3. /\ console' \in {"starts", "idle", "marks", "asked", "waits", "traces"}
        /\ (console' = "marks") <=> (console = "marks")
    BY DEF TypeOK
  <1>4. worker' \in WorkerState
        /\ (worker'.job # None <=> worker'.pc \in {"execute", "traces", "signals", "reports"})
    <2>1. CASE WorkerReport
      BY <2>1, ExecutedType, MovesType
    <2>2. CASE WorkerSignal
      BY <2>2 DEF TypeOK, WorkerState
    <2>3. QED
      BY <2>1, <2>2
  <1>5. QED
    BY <1>1, <1>2, <1>3, <1>4 DEF TypeOK, Bystanders

\* A trace that starts, and one that ends.
TraceState == [id : {1, 2}, to : Position, at : Position] \cup {None}

LEMMA TraceStartType ==
  ASSUME TypeOK, NEW to \in Position, TraceStart(to)
  PROVE  trace' \in TraceState /\ perCylinder' \in {ConfigAddress, Cylinders}
  BY DEF TraceStart, TraceState, TypeOK

LEMMA TraceEndType ==
  ASSUME TypeOK, TraceEnd
  PROVE  trace' \in TraceState /\ head' \in Position
  BY DEF TraceEnd, TraceState, TypeOK, Position

LEMMA TraceTypeOK ==
  ASSUME TypeOK, Trace
  PROVE  TypeOK'
  <1> USE DEF Trace, TraceTrack, TraceTurn, TraceSetTrack, configVars, listVars, headVars
  <1>1. /\ UNCHANGED <<Bystanders, queue, worker, perCylinder, console, tool, traces, volume,
                       answers>>
        /\ TraceTrack \/ TraceTurn => head' = head
    BY DEF Bystanders
  <1>2. /\ trace \in TraceState /\ trace # None /\ trace.at \in Position /\ trace.to \in Position
        /\ trace.at.track \in Nat /\ trace.at.sector \in Nat /\ trace.to.track \in Nat
    BY DEF TypeOK, TraceState, Position
  <1>3. CASE TraceTrack
    <2>1. AfterTrack(trace.at.sector) \in Nat
      BY <1>2, AfterTrackType
    <2>2. (IF trace.at.track < trace.to.track THEN trace.at.track + 1
           ELSE trace.at.track - 1) \in Nat
      BY <1>2, <1>3
    <2>3. trace' \in TraceState
      BY <1>2, <1>3, <2>1, <2>2 DEF TraceState, Position
    <2>4. QED
      BY <1>1, <1>3, <2>3 DEF TypeOK, TraceState, Bystanders
  <1>4. CASE TraceTurn
    <2>1. (trace.at.sector + 1) % Width \in Nat
      BY <1>2, SizesType, DivMod
    <2>2. trace' \in TraceState
      BY <1>2, <1>4, <2>1 DEF TraceState, Position
    <2>3. QED
      BY <1>1, <1>4, <2>2 DEF TypeOK, TraceState, Bystanders
  <1>5. CASE TraceSetTrack
    <2>1. trace' \in TraceState /\ head' \in Position
      BY <1>2, <1>5 DEF TraceState, Position, TypeOK
    <2>2. QED
      BY <1>1, <2>1 DEF TypeOK, TraceState, Bystanders
  <1>6. QED
    BY <1>3, <1>4, <1>5

LEMMA WorkerTraceTypeOK ==
  ASSUME TypeOK, WorkerTrace \/ WorkerTraceEnd
  PROVE  TypeOK'
  <1> USE DEF WorkerTrace, WorkerTraceEnd, configVars, listVars
  <1>1. UNCHANGED <<Bystanders, queue, console, tool, traces, volume, answers>>
    BY DEF Bystanders
  <1>2. worker' \in WorkerState /\ worker'.job # None /\ worker'.pc \in {"traces", "signals"}
    BY ExecutedType DEF TypeOK, WorkerState
  <1>3. head' \in Position /\ perCylinder' \in {ConfigAddress, Cylinders} /\ trace' \in TraceState
    <2>1. CASE WorkerTrace
      BY <2>1, ExecutedType, PositionType, TraceStartType DEF TypeOK
    <2>2. CASE WorkerTraceEnd
      BY <2>2, TraceEndType DEF TypeOK
    <2>3. QED
      BY <2>1, <2>2
  <1>4. QED
    BY <1>1, <1>2, <1>3 DEF TypeOK, TraceState, Bystanders

LEMMA ConsoleTypeOK ==
  ASSUME TypeOK,
         ConsoleStart \/ ConsoleWait \/ ConsoleTraceEnd \/ \E s \in TraceSector : ConsoleTrace(s)
  PROVE  TypeOK'
  <1> USE DEF ConsoleStart, ConsoleWait, ConsoleTraceEnd, ConsoleTrace, ToolAsks, configVars,
              listVars, headVars
  <1>1. UNCHANGED <<Bystanders, queue, worker, volume, answers>>
    BY DEF Bystanders
  <1>2. tool' \in {"idle", "waits"} /\ traces' \in Nat
    BY DEF TypeOK
  <1>3. console' \in {"idle", "waits", "traces"} /\ console # "marks"
    OBVIOUS
  <1>4. head' \in Position /\ perCylinder' \in {ConfigAddress, Cylinders} /\ trace' \in TraceState
    <2>1. CASE ConsoleStart \/ ConsoleWait
      BY <2>1, StartType DEF TypeOK, TraceState
    <2>2. CASE ConsoleTraceEnd
      BY <2>2, TraceEndType DEF TypeOK
    <2>3. ASSUME NEW s \in TraceSector, ConsoleTrace(s)
          PROVE  /\ head' \in Position /\ perCylinder' \in {ConfigAddress, Cylinders}
                 /\ trace' \in TraceState
      <3>1. Request(s) \in Position
        BY PlanifierAssumption, RequestType
      <3>2. QED
        BY <2>3, <3>1, TraceStartType DEF TypeOK
    <2>4. QED
      BY <2>1, <2>2, <2>3
  <1>5. QED
    BY <1>1, <1>2, <1>3, <1>4 DEF TypeOK, TraceState, Bystanders

-----------------------------------------------------------------------------
(* Every step preserves the invariant *)

LEMMA MarkInvariant ==
  ASSUME TypeOK, MarkTraced, [Next]_vars
  PROVE  MarkTraced'
  <1> USE DEF MarkTraced
  <1>1. CASE worker' = worker
    BY <1>1
  <1>2. CASE worker' # worker
    <2>1. Worker
      BY <1>2 DEF Next, vars, Insert, InsertBegin, InsertScan, InsertPlace, ConsoleThread,
         ConsoleStart, ConsoleTraceEnd, ConsoleWait, Trace, TraceTrack, TraceTurn,
         TraceSetTrack, Environment, Accept, EndOfFile, ProcessRequest, ConsoleTrace, ConsoleMark
    <2>2. worker \in WorkerState
      BY DEF TypeOK
    <2>3. QED
      BY <2>1, <2>2 DEF Worker, WorkerPick, WorkerWrite, WorkerRead, WorkerSetTrack,
         WorkerSetSector, WorkerTrace, WorkerTraceEnd, WorkerSignal, WorkerReport, MovesTo,
         WorkerState
  <1>3. QED
    BY <1>1, <1>2

\* Steps of the connections, the console, the head and the traces.
Aside ==
    \/ \E c \in Client : Accept(c) \/ EndOfFile(c)
    \/ WorkerSetTrack \/ WorkerSetSector
    \/ WorkerTrace \/ WorkerTraceEnd \/ WorkerSignal
    \/ ConsoleStart \/ ConsoleWait \/ ConsoleTraceEnd
    \/ \E s \in TraceSector : ConsoleTrace(s)
    \/ Trace

LEMMA AsideIsStill ==
  ASSUME TypeOK, Aside
  PROVE  ListStill /\ UNCHANGED <<volume, answers>>
  <1> USE DEF ListStill, configVars, listVars
  <1>1. CASE \E c \in Client : Accept(c) \/ EndOfFile(c)
    BY <1>1 DEF Accept, EndOfFile
  <1>2. CASE WorkerSetTrack \/ WorkerSetSector
    BY <1>2 DEF WorkerSetTrack, WorkerSetSector, TypeOK, WorkerState
  <1>3. CASE WorkerTrace \/ WorkerTraceEnd \/ WorkerSignal
    BY <1>3 DEF WorkerTrace, WorkerTraceEnd, WorkerSignal, TypeOK, WorkerState
  <1>4. CASE ConsoleStart \/ ConsoleWait \/ ConsoleTraceEnd
    BY <1>4 DEF ConsoleStart, ConsoleWait, ConsoleTraceEnd
  <1>5. CASE \E s \in TraceSector : ConsoleTrace(s)
    BY <1>5 DEF ConsoleTrace
  <1>6. CASE Trace
    BY <1>6 DEF Trace, TraceTrack, TraceTurn, TraceSetTrack
  <1>7. QED
    BY <1>1, <1>2, <1>3, <1>4, <1>5, <1>6 DEF Aside

LEMMA AsideInvariant ==
  ASSUME IInv, Aside
  PROVE  TypeOK' /\ ListInv'
  <1> USE DEF IInv
  <1>1. ListInv'
    BY AsideIsStill, StillInvariant
  <1>2. TypeOK'
    BY ConnectionTypeOK, WorkerMoveTypeOK, WorkerTraceTypeOK, WorkerReportTypeOK,
       ConsoleTypeOK, TraceTypeOK DEF Aside
  <1>3. QED
    BY <1>1, <1>2

\* The worker executes a job, or answers the one that marked a trace.
Execution == WorkerWrite \/ WorkerRead \/ WorkerReport

LEMMA ExecutionIsDone ==
  ASSUME TypeOK, Execution
  PROVE  JobDone
  <1> USE DEF JobDone, configVars, listVars, MovesTo
  <1>1. worker.job # None
    BY ExecutedType DEF Execution, WorkerWrite, WorkerRead, WorkerReport
  <1>2. CASE WorkerWrite
    BY <1>1, <1>2 DEF WorkerWrite
  <1>3. CASE WorkerRead
    BY <1>1, <1>3 DEF WorkerRead
  <1>4. CASE WorkerReport
    BY <1>1, <1>4 DEF WorkerReport
  <1>5. QED
    BY <1>2, <1>3, <1>4 DEF Execution

LEMMA ExecutionInvariant ==
  ASSUME IInv, Execution
  PROVE  TypeOK' /\ ListInv'
  <1> USE DEF IInv
  <1>1. ListInv'
    BY ExecutionIsDone, DoneInvariant
  <1>2. TypeOK'
    BY WorkerWriteTypeOK, WorkerReadTypeOK, WorkerReportTypeOK DEF Execution, ListInv
  <1>3. QED
    BY <1>1, <1>2

\* A thread receives a job.
Arrival ==
    \/ \E c \in Client, op \in {"get", "put"}, s \in JobSector : ProcessRequest(c, op, s)
    \/ \E s \in TraceSector : ConsoleMark(s)

\* The thread, the operation and the sector of an arrival.
LEMMA ArrivalAsks ==
  ASSUME TypeOK, Arrival
  PROVE  \E t \in Thread, op \in {"get", "put", "trace"}, sector \in Nat :
             /\ Asks(t, op, sector)
             /\ op # "trace" => sector \in JobSector
             /\ UNCHANGED <<queue, worker, insertion, algorithm, volume, answers, loose>>
  <1>1. ASSUME NEW c \in Client, NEW op \in {"get", "put"}, NEW s \in JobSector,
               ProcessRequest(c, op, s)
        PROVE  /\ c \in Thread /\ s \in Nat /\ op # "trace" /\ Asks(c, op, s)
               /\ UNCHANGED <<queue, worker, insertion, algorithm, volume, answers, loose>>
    BY <1>1, JobSectorType DEF ProcessRequest, configVars, Thread
  <1>2. ASSUME NEW s \in TraceSector, ConsoleMark(s)
        PROVE  /\ Console \in Thread /\ SectorOf(Request(s)) \in Nat
               /\ Asks(Console, "trace", SectorOf(Request(s)))
               /\ UNCHANGED <<queue, worker, insertion, algorithm, volume, answers, loose>>
    BY <1>2, RequestType, PlanifierAssumption DEF ConsoleMark, configVars, Thread
  <1>3. CASE \E c \in Client, op \in {"get", "put"}, s \in JobSector : ProcessRequest(c, op, s)
    BY <1>1, <1>3
  <1>4. CASE \E s \in TraceSector : ConsoleMark(s)
    BY <1>2, <1>4
  <1>5. QED
    BY <1>3, <1>4 DEF Arrival

LEMMA ArrivalInvariant ==
  ASSUME IInv, Arrival
  PROVE  TypeOK' /\ ListInv'
  <1> USE DEF IInv
  <1>1. ListInv'
    <2>1. PICK t \in Thread, op \in {"get", "put", "trace"}, sector \in Nat :
             /\ Asks(t, op, sector)
             /\ op # "trace" => sector \in JobSector
             /\ UNCHANGED <<queue, worker, insertion, algorithm, volume, answers, loose>>
      BY ArrivalAsks
    <2>2. QED
      BY <2>1, AsksInvariant
  <1>2. TypeOK'
    BY RequestTypeOK, MarkTypeOK DEF Arrival
  <1>3. QED
    BY <1>1, <1>2

\* The steps of the process, by what they do to the list.
LEMMA NextByList ==
  Next => Aside \/ Execution \/ Arrival \/ WorkerPick \/ Insert
  BY DEF Next, Worker, ConsoleThread, Environment, Aside, Execution, Arrival

LEMMA NextInvariant == IInv /\ [Next]_vars => IInv'
  <1> SUFFICES ASSUME IInv, [Next]_vars PROVE IInv'
    OBVIOUS
  <1>0. MarkTraced' /\ (TypeOK' /\ ListInv' => IInv')
    BY MarkInvariant DEF IInv
  <1>1. CASE Aside
    BY <1>0, <1>1, AsideInvariant
  <1>2. CASE Execution
    BY <1>0, <1>2, ExecutionInvariant
  <1>3. CASE Arrival
    BY <1>0, <1>3, ArrivalInvariant
  <1>4. CASE WorkerPick
    BY <1>0, <1>4, WorkerPickTypeOK, PickInvariant DEF IInv
  <1>5. CASE Insert
    BY <1>0, <1>5, InsertTypeOK, PlaceTypeOK, BeginInvariant, ScanInvariant, PlaceInvariant
       DEF IInv, Insert
  <1>6. CASE UNCHANGED vars
    <2>1. ListStill /\ ListInv'
      BY <1>6, StillInvariant DEF vars, configVars, listVars, ListStill, IInv
    <2>2. TypeOK'
      BY <1>6 DEF vars, configVars, listVars, headVars, consoleVars, IInv, TypeOK
    <2>3. QED
      BY <1>0, <2>1, <2>2
  <1>7. QED
    BY <1>1, <1>2, <1>3, <1>4, <1>5, <1>6, NextByList

LEMMA PlanifierInvariant == Spec => []IInv
  BY InitInvariant, NextInvariant, PTL DEF Spec

\* Every variable of a PPD keeps its type, and the place of an insertion stays
\* in the list although the worker takes jobs from it.
THEOREM PlanifierTypeOK == Spec => []TypeOK
  <1>1. IInv => TypeOK
    BY DEF IInv
  <1>2. QED
    BY <1>1, PlanifierInvariant, PTL

-----------------------------------------------------------------------------
(* Jobs that are lost *)

\* An insertion that finds the head where its last comparison did loses no job.
LEMMA StillHeadKeeps ==
  ASSUME IInv, InsertPlace, insertion.seen = SectorOf(head)
  PROVE  lost' = lost
  <1>1. PICK kept \in Nat, cut \in Nat : PlacedIn(kept, cut)
    BY PlaceShape DEF IInv
  <1>2. insertion # None
    BY DEF InsertPlace
  <1>3. cut = 0
    <2>1. SUFFICES ASSUME cut > 0 PROVE FALSE
      OBVIOUS
    <2>2. insertion.at > 1 /\ queue # <<>> /\ ~ Keeps(queue[insertion.at], Inserted)
      <3>1. cut > 0 => kept = 0 /\ insertion.at > 1 /\ Len(queue) > 1
        BY <1>1 DEF PlacedIn
      <3>2. queue # <<>>
        BY <2>1, <3>1, EmptySeq
      <3>3. QED
        BY <1>1, <2>1, <3>1, <3>2 DEF PlacedIn
    <2>3. KeepsFrom(SectorOf(head), queue[insertion.at], Inserted)
      BY <1>2, <2>2 DEF IInv, ListInv, ScanSeen, Inserted
    <2>4. QED
      BY <2>2, <2>3, KeepsHere
  <1>4. ToSet(queue) \subseteq ToSet(queue')
    BY <1>1, <1>3, PlacedFrom DEF IInv, ToSet
  <1>5. QED
    BY <1>4 DEF InsertPlace

\* However many jobs wait and wherever they are, one falls off the list only
\* when the head moved between the two comparisons of an insertion.
THEOREM PlanifierLoss == Spec => LossNeedsMovingHead
  <1>1. ASSUME IInv, [Next]_vars
        PROVE  [lost' # lost => insertion.seen # SectorOf(head)]_vars
    <2>1. CASE InsertPlace
      BY <1>1, <2>1, StillHeadKeeps
    <2>2. CASE UNCHANGED vars
      BY <2>2
    <2>3. CASE Next /\ ~ InsertPlace
      <3>1. lost' = lost
        <4>1. CASE Aside
          BY <4>1 DEF Aside, Accept, EndOfFile, WorkerSetTrack, WorkerSetSector, WorkerTrace,
             WorkerTraceEnd, WorkerSignal, ConsoleStart, ConsoleWait, ConsoleTraceEnd,
             ConsoleTrace, Trace, TraceTrack, TraceTurn, TraceSetTrack, listVars
        <4>2. CASE Execution
          BY <4>2 DEF Execution, WorkerWrite, WorkerRead, WorkerReport, listVars
        <4>3. CASE Arrival
          BY <4>3 DEF Arrival, ProcessRequest, ConsoleMark
        <4>4. CASE WorkerPick
          BY <4>4 DEF WorkerPick
        <4>5. CASE Insert
          BY <2>3, <4>5 DEF Insert, InsertBegin, InsertScan
        <4>6. QED
          BY <2>3, <4>1, <4>2, <4>3, <4>4, <4>5, NextByList
      <3>2. QED
        BY <3>1
    <2>4. QED
      BY <1>1, <2>1, <2>2, <2>3
  <1>2. QED
    BY <1>1, PlanifierInvariant, PTL DEF Spec, LossNeedsMovingHead

-----------------------------------------------------------------------------
(* The contract of the disk *)

LEMMA DiskInit == Init => Disk!Init
  BY DEF Init, Disk!Init, Held, ToSet

LEMMA DiskStutters ==
  ASSUME UNCHANGED <<queue, worker.job, loose, volume, answers>>
  PROVE  [Disk!Next]_(Disk!vars)
  BY DEF Disk!vars, Held

\* DiskService counts as PpdPlanifier does.
LEMMA SameCardinality == \A S : Disk!Cardinality(S) = Cardinality(S)
  BY DEF Disk!Cardinality, Cardinality

LEMMA HeldPlaces ==
  ASSUME NEW job
  PROVE  job \in Held <=> \/ \E i \in DOMAIN queue : job = queue[i]
                          \/ job # None /\ job = worker.job
  BY DEF Held, ToSet

LEMMA HeldPlacesNext ==
  ASSUME NEW job
  PROVE  job \in Held' <=> \/ \E i \in DOMAIN queue' : job = queue'[i]
                           \/ job # None /\ job = worker'.job
  BY DEF Held, ToSet

\* A job the worker picks is held as before.
LEMMA PickHolds ==
  ASSUME TypeOK, WorkerPick
  PROVE  Held' = Held
  <1>1. /\ worker.job = None /\ worker'.job = queue[1] /\ queue[1] \in Job
        /\ 1 \in DOMAIN queue
    BY PickType, QueueType DEF TypeOK, WorkerPick
  <1>2. ASSUME NEW i \in DOMAIN queue PROVE queue[i] \in Held'
    <2>1. CASE i = 1
      BY <1>1, <2>1, NoneIsNoJob, HeldPlacesNext
    <2>2. CASE i # 1
      <3>1. i - 1 \in DOMAIN queue' /\ queue'[i - 1] = queue[i]
        BY <2>2, PickType, QueueType DEF WorkerPick
      <3>2. QED
        BY <3>1, HeldPlacesNext
    <2>3. QED
      BY <2>1, <2>2
  <1>3. \A i \in DOMAIN queue' : queue'[i] \in Held
    BY PickType, HeldPlaces DEF WorkerPick
  <1>4. QED
    BY <1>1, <1>2, <1>3, HeldPlaces, HeldPlacesNext

\* A job put in the list is the last of its client, and the jobs that fall off
\* it were two at least.
LEMMA PlaceIsAccepted ==
  ASSUME IInv, InsertPlace
  PROVE  Disk!Next
  <1> USE DEF IInv, ListInv
  <1>1. PICK kept \in Nat, cut \in Nat : PlacedIn(kept, cut)
    BY PlaceShape
  <1>2. /\ insertion # None /\ worker' = worker /\ UNCHANGED <<volume, answers>>
        /\ loose' = IF Cardinality(Held) >= 3 THEN loose \cup {Inserted.id} ELSE loose
    BY DEF InsertPlace, Inserted
  <1>3. /\ Inserted \in Job /\ Inserted # worker.job
        /\ \A i \in DOMAIN queue : queue[i] # Inserted
    BY <1>2, InsertionType, InsertedIsNew
  <1>4. Inserted \notin Held
    BY <1>3, HeldPlaces
  <1>5. Inserted \in Held'
    BY <1>1, PlacedFrom, HeldPlacesNext
  <1>6. ASSUME NEW job \in Held', job # Inserted PROVE job \in Held
    BY <1>1, <1>2, <1>6, PlacedFrom, HeldPlaces, HeldPlacesNext
  <1>7. ASSUME cut = 0, NEW job \in Held PROVE job \in Held'
    BY <1>1, <1>2, <1>7, PlacedFrom, HeldPlaces, HeldPlacesNext
  <1>8. ASSUME NEW other \in Held, other.client = Inserted.client
        PROVE  other.id < Inserted.id
    <2>1. insertion.by \in Thread /\ Inserted # None /\ Inserted.client = insertion.by
      BY <1>2, InsertionType DEF AskedLast, Inserted
    <2>2. QED
      BY <1>8, <2>1, HeldPlaces DEF AskedLast, Inserted
  <1> DEFINE gone == Held \ Held'
  <1>9. gone # {} => Disk!Cardinality(Held) >= 2
    <2>1. gone # {} => Len(queue) > 1
      BY <1>1, <1>7 DEF PlacedIn
    <2>2. QED
      BY <2>1, HeldCount, QueueType, SameCardinality
  <1>10. Held' = (Held \ gone) \cup {Inserted}
    BY <1>4, <1>5, <1>6
  <1>11. gone \in SUBSET Held
    OBVIOUS
  <1> HIDE DEF gone
  <1>12. Disk!Accept(Inserted)
    BY <1>2, <1>8, <1>9, <1>10, <1>11, SameCardinality DEF Disk!Accept
  <1>13. QED
    BY <1>4, <1>5, <1>12 DEF Disk!Next

\* Unless it found three others, the worker has the first of the jobs of its
\* client for its sector.
LEMMA WorkerHasFirst ==
  ASSUME IInv, worker.job \in Job, worker.job.id \notin loose
  PROVE  Disk!FirstOfItsSector(worker.job)
  <1> USE DEF IInv, ListInv
  <1>1. SUFFICES ASSUME NEW other \in Held, other.client = worker.job.client,
                        other.sector = worker.job.sector
                 PROVE  other.id >= worker.job.id
    BY DEF Disk!FirstOfItsSector
  <1>2. worker.job # None /\ worker.job.id \in Nat
    BY NoneIsNoJob DEF Job
  <1>3. CASE \E i \in DOMAIN queue : other = queue[i]
    <2>1. worker.job.id < other.id /\ other.id \in Nat
      BY <1>1, <1>2, <1>3, QueueType DEF WorkerIsFirst, SameSector, Job
    <2>2. QED
      BY <1>2, <2>1
  <1>4. CASE other # None /\ other = worker.job
    BY <1>2, <1>4
  <1>5. QED
    BY <1>3, <1>4, HeldPlaces

\* A job the worker executes is served.
LEMMA ExecutionServes ==
  ASSUME IInv, Execution
  PROVE  Disk!Next
  <1> USE DEF IInv, ListInv
  <1> DEFINE job == worker.job
  <1>1. job # None /\ worker'.job = None /\ queue' = queue /\ loose' = loose
    BY ExecutionIsDone DEF JobDone
  <1>2. job \in Job
    BY <1>1 DEF TypeOK, WorkerState
  <1>3. job \in Held /\ Held' = Held \ {job}
    BY <1>1, <1>2, HeldPlaces, HeldPlacesNext DEF JobsDistinct
  <1>4. job.id \in loose \/ Disk!FirstOfItsSector(job)
    BY <1>2, WorkerHasFirst
  <1>5. CASE WorkerWrite
    BY <1>1, <1>3, <1>4, <1>5 DEF WorkerWrite, Disk!Serve, Disk!Next
  <1>6. CASE WorkerRead
    BY <1>1, <1>3, <1>4, <1>6 DEF WorkerRead, Answers, Disk!Serve, Disk!Next
  <1>7. CASE WorkerReport
    BY <1>1, <1>3, <1>4, <1>7 DEF MarkTraced, WorkerReport, Disk!Serve, Disk!Next
  <1>8. QED
    BY <1>5, <1>6, <1>7 DEF Execution

LEMMA DiskStep == IInv /\ [Next]_vars => [Disk!Next]_(Disk!vars)
  <1> SUFFICES ASSUME IInv, [Next]_vars PROVE [Disk!Next]_(Disk!vars)
    OBVIOUS
  <1>1. CASE Aside
    BY <1>1, AsideIsStill, DiskStutters DEF IInv, ListStill
  <1>2. CASE Execution
    BY <1>2, ExecutionServes
  <1>3. CASE Arrival
    <2>1. UNCHANGED <<queue, worker, volume, answers, loose>>
      BY <1>3, ArrivalAsks DEF IInv
    <2>2. QED
      BY <2>1, DiskStutters
  <1>4. CASE WorkerPick
    <2>1. Held' = Held /\ UNCHANGED <<loose, volume, answers>>
      BY <1>4, PickHolds DEF IInv, WorkerPick
    <2>2. QED
      BY <2>1 DEF Disk!vars
  <1>5. CASE Insert
    <2>1. CASE InsertPlace
      BY <2>1, PlaceIsAccepted
    <2>2. CASE InsertScan \/ \E t \in Thread : InsertBegin(t)
      <3>1. UNCHANGED <<queue, worker.job, loose, volume, answers>>
        BY <2>2 DEF InsertScan, InsertBegin
      <3>2. QED
        BY <3>1, DiskStutters
    <2>3. QED
      BY <1>5, <2>1, <2>2 DEF Insert
  <1>6. CASE UNCHANGED vars
    <2>1. UNCHANGED <<queue, worker.job, loose, volume, answers>>
      BY <1>6 DEF vars, listVars
    <2>2. QED
      BY <2>1, DiskStutters
  <1>7. QED
    BY <1>1, <1>2, <1>3, <1>4, <1>5, <1>6, NextByList

\* For any number of connections, jobs and traces a PPD is a disk: it serves each
\* job in the order of its client and sector, but for those that found three
\* others there, and the list drops none but when it takes one as two wait.
THEOREM PlanifierImplementsDisk == Spec => ServiceContract
  <1>1. ServiceContract <=> Disk!Init /\ [][Disk!Next]_(Disk!vars)
    BY DEF ServiceContract, Disk!Spec
  <1>2. QED
    BY <1>1, DiskInit, DiskStep, PlanifierInvariant, PTL DEF Spec

=============================================================================
