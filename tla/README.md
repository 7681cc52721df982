# A verification development for grage-fat

grage-fat is a distributed FAT32 file system in C. A client mounts it through FUSE (**PFS**); the
volume lives in the files of several disk processes (**PPD**); between them a RAID‑1 process
(**PRAID**) sends every write to all the PPDs, every read to the least loaded one, copies the volume
to a PPD that joins and hands the reads of a PPD that dies to the others. The processes talk over TCP
with one fixed-size message (`grage-nipc`), on lists, queues and sockets of their own
(`grage-commons`). The repository has no tests, so what the program should do is taken from its code
and from the comments in it.

This directory holds TLA+ models of that code, TLC configurations that check them on small instances,
and proofs checked by TLAPS. `PROJECT.json` relates every definition to the lines it models, every
property to a run and to a faulty form of the code that breaks it, and lists the hazards the
properties are for.

## 1. Inventory

| Component | State it keeps | Operations | Hard parts | What makes it correct |
|---|---|---|---|---|
| **PRAID core** (`grage-praid/.../core`) | the linked list `ppdStorages`; per storage `pendingJobs`, `sendedJobs`, `pendingResponses`, `connected`, `disconnectionMutex`; the replication flag and `syncState` | balancer, sender and listener thread per PPD, disconnection, redistribution, start and end of a replication | two threads per PPD plus one per PFS connection plus the acceptor, almost no locks; a PPD dies at any point | one answer per read; no read lost by a crash; replicas converge; a replication ends |
| **PRAID entrypoints** (`services/`) | where the acceptor and each PFS thread stand | admit or refuse a PPD or a PFS, start a replication, distribute a read or a write | a storage is chosen and used later; the list is walked while it changes; `sleep(3)` as synchronisation | writes reach every replica, joiners included |
| **PPD entrypoint, sync** | `jobsQueue`, the mapped volume, the file under replication | queue jobs, stream the volume, rebuild it, map it | jobs arrive during a replication and wait for its end | the destiny ends equal to the source |
| **PPD planifier** | `jobsQueue`, the head position, the sectors per track | insert by `look` or `sstf`, pick, execute, move the head | the list has a mutex, the position the order is relative to has none; the worker and the console move it a field at a time | jobs of one sector keep their order; no job is lost; every job is served |
| **PPD persistence** | the mapping | read, write, map, unmap | mapped again while the worker runs | a read returns the last write |
| **PPD console** | socket, condition variable | trace, queries | a signal before the wait; a mark among the jobs | every command returns |
| **PFS connection pool** | list of connections and their `active` flags | acquire, build, poll, release | threads of FUSE compete; a block needs several connections | one holder per connection; every operation ends |
| **PFS endpoint** | none (sockets) | get, put, block get, cached forms | answers are not compared with requests | an answer is the one asked for |
| **PFS allocation table** (`pfs-fat-utils`, `pfs-fat32`) | the FAT on the volume, `fatLock`, the next free cluster, free-cluster counter | allocate, extend, cut, free a chain | read–modify–write of sectors, boundaries of sectors | chains are disjoint, end, and have their clusters in order |
| **PFS directories** | the blocks of the directories, a copy of its entry in each handle | create, look up, list, rename, move, remove | pairs of slots; blocks read, changed and written whole with no lock; a crash between two writes | what was answered is what is found |
| **PFS file contents** | the positions, the end of the chain and the size in each handle | read, write, truncate | positions that depend on the requests before; sizes against clusters | a read returns the last write; sizes match chains |
| **PFS caches** | cache of the sectors of the table, cache of blocks per handle | get, put, evict, flush | nodes freed while others hold them, changes on their way | no change is lost |
| **PFS open files, FUSE** | open-file list | open, release, attributes | – | – |
| **Launchers, configuration, logging, strings** | – | start-up, text | – | – |

Interaction: FUSE threads of PFS hold one pooled TCP connection per sector operation. PRAID has one
thread per such connection; it puts jobs into the queues of storages. Each storage's sender writes
them to the PPD; its listener takes the answers and writes them on the PFS socket the message names.
During a replication the source PPD streams sectors to its listener in PRAID, which forwards them to
the destiny. Nothing is acknowledged except reads.

## 2. Modules

| Module | Models | Notes |
|---|---|---|
| `PraidState` | state of PRAID and of the sockets; balancer ranking, the list and queue helpers | constants and their assumption `PraidAssumption` |
| `Praid` | the acceptor, PFS threads, senders and listeners of PRAID | a step is what a thread does between two accesses to state that others change |
| `PpdNode` | a PPD in connect mode, as PRAID sees it | extends `Praid` |
| `GrageRaid` | the composition: PRAID, PPDs, their crashes and PFS's connections as clients; all properties of the cluster | `Spec`, `FairSpec` |
| `GrageRaid_proofs` | theorems about `GrageRaid`: types, mutexes, the jobs in hand, the destiny | TLAPS |
| `RaidStream_proofs` | theorems about replications and reads while no PPD has ended, then about reads whatever ends; lemmas that count in queues | TLAPS; extends the one above |
| `RaidWrites_proofs` | theorems about writes, with one PFS connection | TLAPS; extends the one above |
| `MCGrageRaid` | instances | |
| `PfsPool` | the pool of connections and the single and block transfers of PFS | `Spec`, `FairSpec` |
| `PfsPool_proofs` | theorems about `PfsPool` | TLAPS |
| `MCPfsPool` | an instance | states `FewThreads` |
| `FatAlloc` | the allocation table as the threads of FUSE change it: allocation under `fatLock`, chains walked, freed and cut without it | `Spec`; a sector is read and written in steps of their own |
| `FatAlloc_proofs` | theorems about `FatAlloc` | TLAPS |
| `MCFatAlloc` | instances | |
| `DiskService` | what a disk process promises to those that send it jobs | abstract specification |
| `PpdPlanifier` | the planifier of a PPD: threads of the connections, the sorted list, the worker, the head, the console | `Spec`, `FairSpec`; `ServiceContract` is `DiskService` under a refinement mapping |
| `PpdPlanifier_proofs` | theorems about `PpdPlanifier`: the refinement, the loss of jobs | TLAPS |
| `MCPpdPlanifier` | an instance | |
| `PfsDirectory` | the directories of a volume, block by block, with a crash of the client | `Spec` |
| `MCPfsDirectory` | an instance: the paths, the mounted volumes | |
| `PfsFatCache` | the cache of the sectors of the table that all threads share, over a list with a mutex per operation | `Spec` |
| `PfsFatCache_proofs` | theorems about `PfsFatCache` | TLAPS |
| `MCPfsFatCache` | an instance | |
| `PfsFile` | the bytes of a file: positions, chains and sizes under read, write and truncate | `Spec` |
| `PfsFile_proofs` | theorems about `PfsFile` | TLAPS |
| `MCPfsFile` | an instance | |

### Correspondence with the code

*Storages.* A member of `Storage` is one `PPDConnectionStorage`, that is one connection of one
PPD, and is never reused; a PPD that comes back is another member. `storages` is the list in order
and `link` the `next` pointers of its nodes: `commons_list_removeNode` does not free or clear the
node it unlinks, so a PFS thread standing on it walks on, which `RemoveStorage` keeps.

*Threads.* Each thread is a record with its place (`pc`) and the locals it will use again.
`worker[c]` is `praid_pfs_entrypoint_receiveInvocation`, whose write walks the list in two steps per node
(`IterateStorages` reads the link to the next node into `next`, as `commons_iterator_next` does, before `ExecutePut` queues the write for the node: a PPD linked in between is not visited)
and whose read chooses (`SelectForGet`) and queues (`EnqueueGet`) in two. `sender[s]` looks at the
flag (`SenderCheck`), then takes the mutex, looks at `connected` again and sends (`SenderSend`), then
records (`SenderRecord`) and counts (`SenderCount`). `listener[s]` replies before it forgets. The
counter `pendingResponses`, a `uint16_t` changed by both threads without a lock, is a load and a store in
two different steps, with its wrap. `praid_utils_getReadingJobs` is scanned a job at a time because
PFS threads may still append. The ranking of all the storages in `selectStorage` is read at one instant.
`SenderExit` from `"idle"` stands both for the top of the loop and for a sender that spins on an
empty queue of a dead PPD: should a read be put in that queue, the code takes the mutex, finds
`connected` down and returns without sending, so the spin has no effect.

*Acceptor.* `AcceptPpd` builds the storage and chooses the master before the new one is in the list,
`AddPpd` adds it, `ValidateReplication` decides, `StartReplication` is the end of `sleep(3)` and the
flag, `FireSynchronization` sets `syncState` and launches the threads.

*Network.* `toPpd`, `fromPpd`, `requests`, `replies` are TCP streams: ordered, whole messages. What is
sent to a dead PPD is lost, what a PPD sent before it died is still received, and end of file follows.

*PPD.* Any number of jobs may wait in `jobs`. The worker executes them in any order that keeps those of one sector in the order of the list
(`Executable`): where `look` puts a job among those of other sectors tells nothing. `NodeQueueJob` puts a job behind the others (`QueueInOrder`), or, when two
or more wait, anywhere before an older job of its sector (`Misplace`), and `NodeLosesJob` takes any job off a list of three or more, which is what an insertion
does when the head moves under it. Both are more than the planifier does (`DiskService` asks three others for the first), so that small runs meet them. `misplaced` and
`dropped` name the sectors of such jobs, and the properties of reads and writes are about the other sectors (`Astray`): of those the code promises nothing. The end of a replication is two steps, on the source and
on the destiny: `NodeUnmap`, and `NodeStreamEnd` or `NodeSyncEnd`, which maps the volume again. `disk = <<>>`
means no volume file. A joiner comes with no file, with an old one, and never with the cluster's data.

*Pool.* Each thread of FUSE has its place and the connections it holds; `TakeInactive` is the scan and
the mark under `poolingConnectionsMutex`, `BuildConnection` the growth up to the limit, `HandshakeDenied` a
refusal by PRAID, which ends the process; a thread that finds none of these polls again (`sleep(1)`),
which is the absence of a step. A block read takes its connections one after the other and keeps them,
then sends on each, receives on each, and releases each. `Answer` is the peer. The models are used together as
assume–guarantee: the pool takes from PRAID that each request gets one answer for that sector
(`OneAnswerPerRead`, `AnswersMatch`), and PRAID takes from the pool that a connection is used by one
thread at a time (`HoldersAreExclusive`), so a `Socket` is a client with at most one read in progress.

*Allocation table.* `fat` maps each entry to the entry that follows it, to 0 (free) or to `Eoc`. A
thread that changes an entry reads the sector (`SectorOf`, into its `buf`), and writes it back
(`PutSector`) in a later step, so two threads that share a sector may undo each other's change. `th[t]`
holds the place, the operation and the locals of a thread; `work` is its `FatFile`, with the
end of the chain that `f->EOC` remembers; `handle` is the `FatFile` behind each open file, which `Write` uses
and `PutEntry` updates. `assignCluster` and `allocateNewCluster` are the same text but for
`expandChain`, so they share `Lock`, `Search`, `Mark`, `MarkPut` and `Unlock`, and a file that has a
first cluster goes through `Expand`. The search keeps what the code does at the end of a sector: it
reads the one it has just searched again. `Mark` marks the *following* entry, as `markEndOfChain` does
(`offset + 4`); at the end of a sector that write falls outside the part of the buffer that is a sector, so nothing
is marked. `Extend` is the choice at the head of both `extendFile...` functions. `LeaveVolume`
is a read with the end mark taken for a cluster. `given` is a ghost: the clusters a file was given, in
their order. Taken from outside `src/`: the kernel holds the lock of an inode, so one operation at a
time works on a file, and FUSE does not unlink a file that is open (it renames it).

*Planifier.* `asked[t]` is the job a thread puts in the list, `insertion` the insertion that holds the
list's mutex. `InsertScan` is one turn of the loop of `commons_list_addNode` and `InsertPlace` what
comes after it; both compare with the head of their moment (`Keeps`), which the worker
(`WorkerSetTrack`, then `WorkerSetSector`) or a trace (`TraceSetTrack`, then `TraceEnd`) may have moved. When the second
comparison says no, the new node becomes the first of the list and points to the place where the scan
stopped: the nodes before it are reachable no more (`Placed`, `lost`). `perCylinder` starts as `ConfigAddress`: the
launcher stores the address of the text of the property (`ppd-configuration.c:181`), and only
a trace sets the number, to the number of cylinders. A trace copies the position of the head when it starts;
`TraceTrack` is one track nearer, `TraceTurn` one sector under the head, with its acknowledgement by the
console. `console` is `ppdConsoleServiceThread`, which with `sstf` queues a mark and
waits on a condition variable, `tool` the console process, which waits for the answer.

*Refinement.* `DiskService` has the set of the jobs that wait, and serves one at a time. `PpdPlanifier` implements
it with `waiting <- Held` (the list and the job the worker has: a job is accepted when it is put in the list), `volume`, `answers` and
`loose` as they are. The promise is for each job: one that comes when fewer than three others are held is served after the older jobs of its client and
sector, however many waited before it came; only a job that comes when three others are there may pass older ones (`loose`), and only one that comes
when two are there may make the list lose some.

*Directories.* A block is an array of slots of 32 bytes; a name takes a long slot and a short one. A
handler reads a block, changes its copy and puts it back: two steps (`th[t].buf`, `Put`), with any step of the other
thread between them; `mkdir` and a move to another directory have a second block to write (`PutDots`, `EraseOld`).
Searches (`LookIn`, `FreePair`, `Listing`, `IsEmpty`, `Follows`) are recursive functions that follow the loops of the
code, with what each does at the end of a block. `Found.sound` tells the entries whose recorded place is not where they
are: those past the first block. `tree` is a ghost: what the answers given so far say of each path. `spoiled` names
the directories that the code damages itself: a block written over another thread's change, or by a handle that is elsewhere, or taken by `mkdir` after a
crash for a new one. `Crash` kills the client at any point; what was under way becomes `uncertain`, and so does what is moved out of a directory
that was damaged, or put where moveFile loses it. A pair put in the second block of the root may lie beyond the last slot and come to light when
the slots before it are used, so a move to the root counts as lost.
Taken from outside `src/`: what the kernel and libfuse keep apart (`Conflict`).

*Cache of the table.* Nothing holds the list between the step that finds a node and the one that uses it: `Get` finds and `Copy` copies, `Refill` and `Put` search
and `Overwrite` writes over the node and marks it, `Insert` chooses the node that leaves, `CopyOut` reads it for the call, `Write` puts it on the disk, and
`RemoveVictim` takes it off; `Visit`, `CopyOut`, `Write` and `Mark` are a flush. In between another thread may free the node. So a node has an
identity (the number of the read or change it is made for, with one for the node its put makes, so that none is used twice), and a thread keeps that of the node it found (`node`).
What is copied from a freed node, or removed by it, is a choice over what its memory can say; what is written to one is lost, or spoils a node made since (`LandsOn`, `Spoils`). A
sector is the set of the changes made to it, so a change that is overwritten is a member that is
missing. The first node is always the one evicted, and a node made by a put is not marked as changed. `exposed` names the sectors a thread put while another had a copy on
its way, those with two nodes, and those that the use of a freed node may have touched, its own put included; `unmarked` those whose last put made a node.

*Contents of files.* A byte is the change that wrote it and its place, so that bytes in a wrong place or of an older write
are told from the right ones. `SeekBlock`, `Following`, `FindEoc`, `Extend`, `WriteTarget` and `CutAt` are the
walks of the code over the chain; a write goes through `NeedsClusters`, then the extension, then
the position. The position of a handle is what the first request left: later writes take the cluster that
follows it, whatever their offset, and a read of several clusters goes on from it. `ServesWrite` and
`ServesRead` say for which requests that is the right cluster. A write they exclude is done all the same, reaches
the cluster the code reaches, and ends the behaviour (`astray`), as does a walk out of the volume (`outside`). So does a write or a truncate that
makes the file reach past what a cut has left of its chain: there the chain goes through a cluster that is free to entry 0 of the table, whose value ends it, and
`findEOC` hangs the new clusters on entry 0, so that a block of the file is cluster 0. Requests are one at a time: interleavings of the
table are in `FatAlloc`, of entries in `PfsDirectory`. Taken from outside `src/`: the kernel reads pages of what it takes the
file to be, and writes within one; a page is a cluster.

## 3. Runs

All runs set `CHECK_DEADLOCK FALSE`: requests, joins and crashes are bounded, so every behaviour may
come to rest, and the liveness runs say what must have happened by then. The bounds are `MaxGets`,
`MaxPuts`, `MaxDeaths` (on the environment, never on the code), the sizes of `Storage` and `Socket`,
and `MaxOperations` for the pool.

| Run | Instance | Question |
|---|---|---|
| `RaidCrash` | 3 PPDs, 2 may crash, 2 connections, 2 reads of a sector (2.8 million states) | No read is out of reach of the hand-over (`ReadsAreRecoverable`); nothing is sent behind it (`CollectedIsFinal`) |
| `RaidWrites` | 2 PPDs, 1 may crash, 1 connection, 2 writes and a read of 2 sectors (2.7 million) | The PPDs of the start hold the last write, although one ends (`FoundersHoldLastWrite`); a read sees the write before it (`ReadsSeeLastWrite`); `TypeOK`, which includes the wrap of the counter |
| `RaidJoin` | 1 PPD, 2 may join, a PFS that connects and writes, 2 sectors (0.5 million) | A joiner ends equal to the cluster (`ReplicasHoldLastWrite`); only the source streams (`StreamsOnlyFromSource`); the destiny hears no job (`DestinyHearsNoJob`); the first PPD to end by itself is a source that maps its volume again (`OnlySourcesFault`) |
| `RaidJoinLive` | 1 PPD, 1 may join, 1 crash, a PFS that connects and reads twice (133 thousand) | A replication ends (`ReplicationEnds`), a joiner becomes ready (`JoinersBecomeReady`), and the hand-over of reads survives it (`ReadsAreRecoverable`) |
| `RaidCrashLive` | 2 PPDs, 1 crash, 2 connections, 2 reads of 2 sectors (274 thousand) | Every read is answered (`ReadsAreAnswered`); until a PPD dies once (`OneAnswerPerRead`), and with its sector (`AnswersMatch`) |
| `Pool` | 3 threads, 4 connections, blocks of 2 | Limit, exclusive holders, own answers; every operation ends (`OperationsEnd`) although the threads want more than the pool has |
| `FatChains` | 2 threads, 2 files, table of 2 sectors of 6, a volume they can fill, requests of 2 clusters, files of 3 | The chain of a file is what it was given (`ChainIsWhatWasGiven`), and `fatLock` is released (`LockIsReleased`), while both threads create and extend |
| `FatRace` | 2 threads, 3 sectors of 4, entries used by other files, every operation | No cluster is given twice (`ClustersGivenOnce`), whatever unlink and truncate do to the table |
| `Planifier` | 1 connection and the console, 2 sectors on a disk of 2 tracks of 3, 3 jobs, 1 trace, `look` or `sstf` (189 thousand) | The PPD implements `DiskService` (`ServiceContract`); jobs are lost, and only as `LossNeedsMovingHead` says; jobs, traces and commands end (`JobsEnd`, `TracesEnd`, `ConsoleReturns`) |
| `Directories` | 2 threads, 1 handle, 2 names and a directory, 5 operations, 1 crash; three volumes (0.4 million) | What was answered is what `open` finds (`NamesAreFound`) and `readdir` gives (`NamesAreListed`); `rmdir` removes no name (`RemovedDirectoriesAreEmpty`) |
| `FatCache` | 3 threads, 2 sectors, a cache of 1, 2 changes, 1 read, 2 flushes (2.5 million) | No change is lost but in the ways named (`ChangesAreKept`); a flush writes the changes (`FlushWritesChanges`) |
| `Files` | 2 handles, blocks of 2 bytes, sizes up to 7, 2 changes; a file of 0 or 5 bytes when mounted | The chain, the size and the bytes are those of the requests (`FileHoldsContents`), and reads give them (`ReadsGiveContents`), also for a file that was cut and is extended again up to what the cut left of its chain |

All the runs pass. Why the bounds are enough: two connections are needed for two reads of one sector to be confused, two
PPDs for a choice of the balancer and for a hand-over, three for a hand-over to a PPD that dies too.
Two sectors tell an answer from another (`RaidCrashLive` has them; its constraint `FirstAsksFirst` leaves out only what is the same with the two sectors, or the two
connections, exchanged). One joiner is needed for a
replication, a second one to be refused or to overlap. One crash in `RaidJoinLive` reaches the
death of the source and of the destiny, at any point of the replication; `RaidCrash` and `RaidWrites` the
death of the others.

Properties carry conditions where the code needs them. `deaths` counts every PPD that ended, by a crash or by a fault of its own. `Astray` is explained above. `deaths = 0` is asked in `OneAnswerPerRead` and `AnswersMatch`: after
an end a job may be recorded as sent after its answer was processed (the sender records after it sends), and
the hand-over repeats it, so a second answer to the same read can follow. `FoundersHoldLastWrite`, `ReplicasHoldLastWrite` and
`ReadsSeeLastWrite` have one connection in use: two connections walk the list independently and
nothing in PRAID orders their writes. `SleepDrainsMaster` makes `StartReplication` wait until the
master was sent what was queued before the join, which is what `sleep(3)` is for; runs that do not depend on it
set it to FALSE (in `RaidWrites` nothing can join, and it is TRUE as the theorems about what joins assume). `lostReads` names the two ways the code itself loses a read: queued on a storage
whose reads were already collected (`praid-pfs-entrypoint.c:145` and `:154`), and handed over when no
PPD is left (`praid-balancer.c:92`). When a read finds no storage at all PRAID dereferences NULL:
`up` becomes FALSE and nothing runs any more. `RaidJoin` and `RaidJoinLive` start with one PPD because the code
tells the first PPD to process jobs without a replication.

For the table: two sectors make a chain, a search and a mark cross a boundary; three, with entries in
use, make the search pass over a whole sector. Two threads are all that can be at odds over a sector, one with
the lock and one without. Sizes are in clusters: `MaxRequest`, `MaxSize` and
`MaxHandlesPerFile` bound what is asked. `Lock` asks that the table holds the entry it would mark (the real
table has as many entries as the volume has clusters, and the bound is met only once the volume is full).
`ChainIsWhatWasGiven` leaves out the files with a cluster whose entry no allocation marks
(`Unmarked`): the first one after the mount, and the first of every sector. `FatChains` has
`MaxHandlesPerFile = 1` and no truncate, for a second handle keeps an end of the chain that is out of date.

For the planifier: an insertion that stops past the first of two nodes loses that one when the head moves before the second comparison. Here a trace moves it, from the start of the disk, where the job
for sector 1 is kept before one for sector 4, to sector 4, where it is not: with `look`, where the console traces at once, TLC reaches this loss (with `sstf` the mark of the trace is one of the
three jobs, and none is lost in this instance). A job that passes older ones of its sector, which is allowed when three
others are held, needs four; the proof of the refinement is for any number. The trace to 4 turns over the end of its track; the other sector traced, 9, is out of the disk. A job executed before the first trace leaves the
head on the first track with a sector past its end, and the trace that starts there turns through all of `Width`. `ConfigAddress` is larger than the
disk, as an address is larger than the sectors of any shipped configuration; `Width` is the 2^32 of a `uint32`, made small. No property keeps the head on the disk:
a trace sets the sectors of a track to the number of cylinders (`ppd-console-entrypoint.c:57`), so the head gets to tracks the disk does not have.

For directories: a block of six slots has three pairs, so the last one, whose short entry is
looked for elsewhere, is reached, as is a free pair between two names; a sector of four slots makes the limits by sector differ from those
by block. A volume whose root fills its first block makes names go to the second. A handle and two threads are what can be at odds over a
block; one crash falls between any two writes. `AssignCluster` asks that a cluster is left, which is a bound of this module: the code goes on past the end of a full
volume (`FatAlloc`).

For the cache: two sectors in a cache of one evict each other's node; three threads are a change, the thread that frees the node it found, and a flush, and two flushes one that marks
a node the other has still to visit. For
files: sizes up to four blocks with a last one that is not full. A cut of the mounted file to one block leaves a chain of three clusters and entry 0, so
an extension to four blocks is past it and one to three is not: the bounds that were used before, three blocks at most, never reached it. The proofs are for any number of changes.

### Fairness

`FairSpec` assumes weak fairness of every PRAID thread, of every PPD process that runs, and of the
receipt of answers by PFS: threads of the operating system keep running, and TCP delivers. It assumes none of
new PPDs, new requests, or crashes. Mutexes need no strong fairness here, for the sections they guard
are entered at most once by the listener and the sender leaves for good once `connected` is down. In
the pool fairness is weak too: of a thread, and of the peer on each connection. A thread that polls can
be overtaken for a while, but each thread performs a bounded number of operations in the instance.
`FatAlloc` assumes weak fairness of what a thread does once FUSE has asked it, and nothing of what is asked; the
section of `fatLock` waits for no other thread. `PpdPlanifier` assumes weak fairness of
insertions (the mutex of the list is free again after each), of the worker, of the console thread and of the turns of a trace, and
nothing of the clients or of the user. The worker is never starved by the mutex in the instance, where insertions are bounded.

### What the code does and the models reproduce

No run expects a violation. These are behaviours of the code that the models contain, with the conditions the properties
carry because of them:

* The comment at `praid-entrypoint-listener.c:119` says PPDs are refused during a replication. When the destiny
  dies the flag is lowered (`praid-ppd-thread.c:199-202`) although the source streams on; the next PPD is let in, and what is left of
  the old stream is forwarded to it.
* `unlink` writes back a sector of the table it read earlier, with no lock (`pfs-fat32.c:336-341`), and may undo the link an allocation wrote in the
  meantime. `ChainIsWhatWasGiven` is checked where nothing is unlinked.
* `markEndOfChain` (`pfs-fat-utils.c:628`) marks the entry after the one it is asked for. Allocations rely on it; a truncate marks the
  wrong entry, and the chain of a cut file goes on into a cluster that is free and from there to entry 0 (`PfsFile.TruncateDown`). When the file grows
  again `findEOC` takes entry 0 for the end of the chain and the new clusters hang on it; a file that grows past the cut has cluster 0 for a block, and two such
  files share it (`astray` in `PfsFile.TruncateUp` and `Write`). The invariant that the proof needs showed this: the bounds of the run had been too small for it.
* The list of jobs loses nodes when the head moves between the two comparisons of an insertion (`LossNeedsMovingHead`), and a job that comes when three
  others are there may be placed before older ones of its sector (`loose`): a write before an older write, or a read before the write it should see. In the cluster
  (`misplaced`, `dropped`) such a read gives an old value, an answer makes PRAID forget the record of another, and a lost read is never answered.
* The worker and the console move the head a field at a time, so it may be left on the track of one with the sector of the other; its track may be one the disk does not have; with
  `sstf` a trace that is out of range is answered with an error and then moves the head there (`ppd-planifier-worker.c:88`).
* The console waits for ever when the worker signals before it waits (`ppd-launchConsole.c:177`).
* Names past the first block of a directory are found, but what is written through their `FatFile` goes to the first block;
  a name moved to the root goes to the cluster after the first (`PfsDirectory.MoveBlock`); after a crash the hint of the first mount is used
  again, and a new directory may take a cluster in use.
* A flush of the cache of the table leaves out the nodes that a put made (`unmarked`), and a sector that two threads
  change or refill at once may lose a change. So may one whose node is evicted between the step of a put that finds it and the one that writes it (`pfs-endpoint.c:118-121`),
  and what the copy then spoils (`exposed`).
* The second write of a handle goes to the cluster after that of the first, the third to the same, whatever their offsets; a read of several clusters
  starts over from the position the first read left (`astray`, `ServesRead`).
* `finishReplication` takes the mapping of the source away and makes it again (`ppd-sync.c:112-118`) while the worker runs. A job that
  was queued before the replication and meets that moment is a fault: `Executes` ends the process and counts it in `deaths`. TLC reaches it in `RaidJoin`
  and `RaidJoinLive` with no other crash. `sleep(3)` in PRAID makes it unlikely; nothing excludes it. The destiny hears no job before it is mapped (`DestinyHearsNoJob`), unless the source is lost: the flag is lowered, and a write that was kept
  for it reaches it while it holds part of the volume and no mapping, so the destiny faults too.
* A sender reads the replication flag before it takes its mutex and sends after it
  (`praid-ppd-thread.c:161`), so the master may hear a job that the comment at line 157 excludes. What
  the code ensures is `DestinyHearsNoJob`.
* The refusal of an allocation on a full volume (`pfs-fat-utils.c:547`) cannot be reached, and clusters
  beyond the end of the volume are given. Were it reached, the return would leave `fatLock` held:
  `SearchOrFail`, the faulty form that `LockIsReleased` refuses.
* Threads of PFS that together want more connections than the pool has may each hold some and wait for
  ever for the rest. `FewThreads` excludes it; an instance of three threads, four connections and blocks of three
  shows it.

## 4. Proofs

TLAPS proves, for all values of the constants that satisfy their assumptions:

* `GrageRaid_proofs`: `RaidTypeOK`, `RaidInvariant`, `RaidCollectedIsFinal` and `RaidDestinyHearsNoJob`. `CollectedIsFinal` is not
  inductive by itself. The invariant `IInv` adds to `TypeOK` that the mutex of a storage is held
  exactly by the thread inside its section (`MutexHeld`), that `connected` stays down once the listener has
  left its loop, and the mutex free once it has ended (`StaysDisconnected`), and that a thread that
  stands where it needs a job holds one, and not an empty queue, so that `Head` and `Tail` are defined
  (`ThreadsHoldJobs`). There is one lemma per action. Then the step from a hand-over cannot be the
  sender's: it would have to hold the mutex the listener holds, or pass the test of `connected`.
  `RaidDestinyHearsNoJob` adds `DestinyWaits`: the sender of the destiny has not passed the test of the flag, because its thread is
  started with the flag up, listeners only lower the flag, and the acceptor raises it for the next destiny only.
* `RaidStream_proofs`: `RaidStreams` and, from it, `RaidStreamsOnlyFromSource`. The flag is raised by one thread and lowered by another, so
  the property needs the whole life of a stream (`StreamInv`): from the admission of a PPD to the request for the volume nothing streams
  (`FlagRaised`); a volume is asked for, then read, then ended, one at a time, and nothing of it follows its `syncEnd` (`OneStream`). While no PPD
  has ended no listener leaves its loop (`NobodyEnded`), so only `syncEnd` lowers the flag. How many PPDs join, and which master is
  chosen, is left open.
  Then `RaidStages` and `RaidOnlySourcesFault`: with the replication enabled and a PPD there from the start, each PPD that runs is at one of four stages
  (`StageInv`). It was told nothing yet (`Fresh`); or it is given a volume (`Rebuilds`), and the sectors it has, those queued for it and those PRAID has yet to
  forward make up what the source has read; or all is queued for it and `syncEnd` follows (`Settling`); or it has the volume (`Whole`). Only the last two
  become masters, and the one that is given a volume hears no job (`DestinyWaits`). So a PPD that runs a job without a volume mapped is a
  source that maps it again. The count is that of a matching in a queue; its lemmas serve the reads too.
  Last, `RaidReads`, `RaidOneAnswerPerRead` and `RaidAnswersMatch`, for any number of jobs in a PPD. `OneAnswer` counts the copies of a read over four queues and a hand of
  each storage, two queues and a hand of its connection, and is inductive once every copy names the sector asked for (`MatchesOn`) and
  a read that is queued or sent is a job (`JobsInHand`). The counts are cardinalities of sets of positions; lemmas
  say what appending, taking the head and taking any position do to them.
  The last part of the module has `RaidRecovery` and `RaidReadsAreRecoverable`, whatever ends, for the reads of sectors whose jobs no PPD has put out of order or dropped. The listener forgets the first sent job of the sector that was answered, which may be
  that of another read; and the sender records a job after it sends it, so an answer may come before the record.
  What makes this safe is a count. The jobs of a sector that a storage has logged (`sendedJobs`, and the one its sender is about to record) are at least
  as many as the answers still to come for it (`Accounted`), and when d answers for its sector are ahead of that of a read, the log has at
  least d jobs of the sector before the read's own (`Logged`, `Covered`), so what they make forgotten is never its own. `Scanned`
  says what the listener has collected so far, `Ended` that a connection found closed has nothing more to give, `Kept` that what is
  collected stays in a hand until it is assigned.
* `RaidWrites_proofs`: `RaidFounders` and `RaidFoundersHoldLastWrite`, for the PPDs of `InitialStorages`, with one connection (the theorem assumes
  `Socket = {c}`; with two that write a sector the property is false), whatever joins and ends, and for the sectors whose jobs no PPD has put out of order or dropped (`Clean`), as in all that follows. First the walk over the list, which takes no lock: the PPDs
  of the start that run stay listed in their first order (`FoundersListed`), and the pointers of a node, listed or unlinked, pass over none of
  them (`FoundersLinked`), so the PFS thread reaches each exactly once. Then the values: `Upon` is what a sector holds once the writes of a queue are made on it, `Arriving` what is
  on its way to a PPD in order (its jobs, the messages to it, its `pendingJobs`, the write in the hand of the PFS thread if it still has to reach
  it, the requests), and `FoundersInv` says that the last of it is the last the client wrote. The lemmas on `Upon` are inductive over nothing: the last write
  is the maximum of a set of positions, which exists because `<` is well-founded.
  Then `RaidJoiners` and `RaidReplicasHoldLastWrite`, for what joins, while no PPD has ended. They assume `Joins`: the replication enabled, the wait for
  the master long enough (`SleepDrainsMaster`), without which a joiner may lack writes, and a PPD there from the start, for the first of a cluster is given no
  volume. The walk reaches every PPD that is listed ahead of it, by the link it has read or is about to read (`ListOrder`, `Visits`), and a master is listed before the PPD it is copied to
  (`MasterAhead`), so a write in the walk reaches the destiny last. `Given` says what a PPD has been given of the volume: a sector on its disk, on its way to
  it, or sent by the source; nothing is said of a sector still to be read. `Served` says that this, once the writes on their way to the PPD are made upon it, is
  what the client wrote last. When the source reads a sector that is so only with `Mirrors`: a sector with no write queued for the destiny, or to be queued
  by the walk, has none on its way to the volume of the source either. That holds at first because the master was drained, and from then on because
  the walk comes by the source first. `Basis` says what the requests and the walk leave of a sector to a PPD that has just been added.
  Last, `RaidReadsFollow` and `RaidReadsSeeLastWrite`, under the same hypotheses: the read a connection waits for is the last of its requests (`Asks`), so no
  write can be put behind it on any queue of a PPD (`Behind`); every PPD that serves is listed (`AllListed`), so the writes before the read were queued
  on the one it is given to; there it finds the last of them (`ReadFinds`), and every answer carries it (`AllSeen`).
  TLC checked the strengthening on an instance with one PPD that joins before it was proved.
* `PfsPool_proofs`: `PoolTypeOK` (the limit), `PoolExclusive`, `PoolAnswersAreOwn`, from an
  invariant that relates each connection's flag to the one thread that lists it among those it holds.
* `FatAlloc_proofs`: `TypeCorrect` and `GivenOnce`. The invariant `IInv` adds to both that the thread
  between lock and unlock holds `fatLock`, is about to give the cluster the pointer names, and has a
  candidate beyond it (`SectionHeld`); that all that was given lies below the pointer (`GivenBelow`);
  and where each thread stands with an entry in hand (`Roles`). Nothing is asked of the table but its
  type: this is why the races on it, which do break chains, cannot give a cluster twice. The proof is one
  lemma per action, and lemmas on sectors and offsets that need a little arithmetic of `\div` and `%`.
  `Chains` and `ChainIsGiven` do say what the table holds. They assume `OnlyGrows`, which is what `FatChains` has: nothing is
  truncated or unlinked, since both write the table with no lock; a file is open through one handle at a time, since a second one keeps
  an end that is out of date; and the entries beyond the hint are free when the volume is mounted. (`IsFiniteSet(Handle)` is there to count
  handles with.) Then allocation is sequential (`Frontier`, `InOrder`), and only the thread in the section writes the table, so the copy of a sector it is about
  to write back is current (`Copied`). The line of a file is what it was given, with the cluster that is linked and not given yet (`Line`); the
  table links it (`Linked`) and nothing else leads into it (`NoStray`). The difficulty is the entries that no allocation marks
  (`Unmarked`): one holds 0 and reads as a link to the first entry of the table, so what `findEOC` takes for an end may be entry 0, or the
  end of any other line that is not good either. `Leads` and `Ends` say where such a walk may be, and that it is never in a good line. `Follows` says this of the threads,
  `Rests` of what the directory and the handle remember. TLC checked the strengthening on two instances before it was proved.
* `PfsFatCache_proofs`: `CacheTypeOK`, `CacheChangesAreKept` and `CacheFlushWritesChanges`, from `CacheHolds`. Each request makes a node
  at most with an identity of its own, and what the list or a pointer names was made before (`Fresh`), so a pointer kept while others free and insert
  names the node it was taken from or none, and if it is still in the list it is of the sector to be copied, written over or removed (`PointsRight`): this is what makes the two steps
  of a find and its use safe while the node lives. When it was freed, the step that uses it exposes the sectors it may touch, its own if it loses a change. Of a sector that is not exposed: every copy
  that a thread has, on its way to a node or to the disk, has the changes that were put (`Copies`); it has one node at most (`OneNode`), and the node
  has them, or the disk if there is none (`Held`). So whichever copy is written last writes the same. Evictions keep `Held` because the copy reaches the disk before its node
  goes. For the flush, a node that is not marked has nothing the disk lacks, unless a put made it (`Marked`); and what was put before the flush is on
  the disk, or in a marked node that the flush has still to visit (`Flushes`): another flush that marks it first has written it, and so has an eviction.
  TLC checked the strengthening on two instances before it was proved.
* `PpdPlanifier_proofs`: `PlanifierImplementsDisk` (`Spec` implies `DiskService` under the mapping of section 3),
  `PlanifierTypeOK` and `PlanifierLoss`. `PlacedBetween` says what the place of a node does to a list,
  whatever the comparison said: some nodes stay, the new one follows, some are cut off, the rest stays. The
  refinement needs that a job waits in one place only (`JobsDistinct`), that the job a thread inserts is the last it sent (`AskedLast`),
  and that the list and the worker keep the order of each client and sector, but for the jobs that found three others (`QueueInOrder`,
  `WorkerIsFirst`): an insertion into a list of at most two that stops between the comparisons stops before a job for another sector (`ScanStopped`), because two jobs for
  one sector are at the same distance, wherever the head is; what a second comparison then cuts off is at most what `Accept` lets go. Jobs that were misplaced before do
  not matter: the promise is for each job. `PlanifierLoss` needs what the scan saw (`ScanSeen`).

* `PfsFile_proofs`: `FileTypeCorrect`, `FileContentsHeld` and `FileReadsServed`. What `Nth`, the extension and `FlattenSeq` compute is defined by
  recursion over numbers; that such a function exists, is the only one and has what its steps preserve follows from the smallest number of a set
  (`NatMin`, `AllNumbers`), so each lemma names its set and no induction theorem with an operator parameter is needed. `Divided`, `Blocks...` and `InOneBlock` are the arithmetic of
  `\div` and `%`. The invariant `IInv` says of a table that links go up and stay below the next free cluster, whose entry is marked (`Linked`), so a walk grows
  until it meets 0 or the end, and no cluster is two blocks of a file; that the entry names a cluster exactly when the file has bytes (`Rooted`); that the chain
  holds the contents (`Holds`); and that a handle that was opened since the last change elsewhere has the entry, an end that ends its chain, and the clusters of the blocks its positions are for
  (`Followed`). `Linked` asks nothing of the clusters a cut has freed but that they lead to 0, which is what lets a cut file grow. `ExtendChain` says that an extension leaves the chain as it
  was to its end and goes on with the clusters from the hint. TLC checked the strengthening on three instances.

Assumptions used: `PraidAssumption`, `FileAssumption`, `FatAssumption`, `CacheAssumption`, `PlanifierAssumption` and the pool's constant assumptions, evaluated by TLC in every run.

Only model-checked: all liveness properties (fairness and ENABLED are out of the prover's reach), and the properties of
`PfsDirectory`, whose listing and look-up are recursive functions over the slots of a block and over paths. No module uses RECURSIVE.

## 5. Not modelled, and why

* `praid-utils`, logging, configuration, launchers: text and start-up. Counters that are
  only printed (synchronised sectors and bytes) are left out.
* The non-pooled mode of PFS and of PRAID: every shipped configuration is pooled.
* Process-wide effects of the operating system: SIGPIPE on a write to a closed socket, the reuse of
  a closed descriptor, partial sends and receives (`linux-commons-socket.c:92`), the end of a PFS connection in PRAID.
* PPD: failures of map and unmap; the commands of the console other than a trace, which change nothing.
* The cache of the blocks of a file (`pfs-file-cache.c`): the shipped configuration gives it no room, and with it on every handle keeps
  blocks of its own. The list of open files is read by the console of PFS only, and with that cache off its removal by place in the directory
  (`pfs-state.c:50`) changes nothing else.
* Requests on one handle at a time: the kernel may send reads of one handle from several threads, and the positions have no lock.
  Writes that cross a page are split by the kernel.
* The counter of free clusters, dates, short names, and the attributes `getattr` reports.
* Two connections that write one sector: nothing in PRAID orders them, and no property says what then holds (`praid-pfs-entrypoint.c:121`).

## 6. Plan

1. (done) PRAID with PPDs and clients: `PraidState`, `Praid`, `PpdNode`, `GrageRaid`; the pool.
2. (done) `PpdPlanifier` and the contract it implements, `DiskService`, with the proof of the refinement.
3. (done) `FatAlloc`: the allocator, `fatLock`, chains, concurrent unlink and truncate.
4. (done) `PfsDirectory`, `PfsFatCache`, `PfsFile`.
5. Proofs. Done: every safety property of the PRAID core, the pool, the allocator, the cache of the table, the planifier, the contents of files. Next: `PfsDirectory`.
6. An abstract RAID (a volume of sectors, reads answered once) and `GrageRaid` as its refinement; concurrent requests on one handle;
   a remount with the pointer FSInfo kept in `FatAlloc`.
