------------------------------ MODULE FatAlloc ------------------------------
(***************************************************************************)
(* The allocation table of a volume as the threads of the file system       *)
(* client (grage-pfs) use it: pfs-fat-utils.c and pfs-fat32.c.  A cluster   *)
(* is allocated under fatLock; chains are walked, freed and cut with no     *)
(* lock.  A sector of the table is read whole, changed in the thread's copy *)
(* and written back, each in a step of its own.  Sizes are in clusters.     *)
(* External: the kernel lets one operation at a time work on a file, and    *)
(* does not unlink a file that is open.  Each file has a directory block of *)
(* its own, and the counter of free clusters is left out.                   *)
(***************************************************************************)
EXTENDS Integers, Sequences, FiniteSets

CONSTANTS
    Thread,             \* the threads of FUSE
    File,               \* names of files and directories
    Handle,             \* what open() returns
    None,               \* no thread, no file or no handle
    EntriesPerSector,   \* entries in a sector of the table, 128 in the code
    FatSectors,         \* sectors of the table
    Clusters,           \* v->clusters
    Hint,               \* the hint of FSInfo, the cluster last allocated
    Used,               \* clusters of the files the volume has when mounted
    Operation,          \* what is asked of the volume
    MaxRequest,         \* bound: clusters in one request
    MaxSize,            \* bound: clusters in a file
    MaxHandlesPerFile   \* bound: open handles of a file

ASSUME FatAssumption ==
    /\ None \notin Thread \cup File \cup Handle
    /\ EntriesPerSector \in Nat \ {0, 1}
    /\ FatSectors \in Nat \ {0}
    /\ Clusters \in Nat /\ Clusters + 2 <= EntriesPerSector * FatSectors
    /\ Hint \in Nat /\ 2 <= Hint /\ Hint + 1 < EntriesPerSector * FatSectors
    /\ Used \subseteq 3 .. EntriesPerSector * FatSectors - 1 /\ Hint + 1 \notin Used
    /\ MaxRequest \in Nat
    /\ MaxSize \in Nat
    /\ MaxHandlesPerFile \in Nat

Eoc == EntriesPerSector * FatSectors    \* ends a chain, is no entry
Entry == 0 .. Eoc - 1
Slot == 0 .. EntriesPerSector - 1
Free == 0                               \* the value of a free entry
FirstFree == Hint + 1                   \* the mount adds one to the hint

VARIABLES
    fat,         \* the table
    nextFree,    \* v->nextFreeCluster
    fatLock,     \* the thread that holds v->fatLock
    dirEntry,    \* what the directory says of each name
    handle,      \* the FatFile of each open file
    th,          \* where each thread stands, with its local variables
    given        \* ghost: the clusters a file was given, in their order

vars == <<fat, nextFree, fatLock, dirEntry, handle, th, given>>

\* A FatFile: nextCluster, EOC (0 until it is looked for) and DIR_FileSize.
FatFile == [file : File \cup {None}, first : Entry, eoc : Entry, size : Nat]
Closed == [file |-> None, first |-> 0, eoc |-> 0, size |-> 0]
Opened(f) == [file |-> f, first |-> dirEntry[f].first, eoc |-> 0,
              size |-> dirEntry[f].size]

\* A thread: its operation and FatFile; clusters reserved and to reserve; the
\* cluster being allocated or marked; the candidate for the next allocation;
\* the cursor on a chain; its copy of a sector.
Rest == [pc |-> "idle", op |-> "none", work |-> Closed, handle |-> None, count |-> 0,
         need |-> 0, cur |-> 0, next |-> 0, at |-> 0, buf |-> [i \in Slot |-> Free]]

Nothing == [kind |-> "none", first |-> 0, size |-> 0]

\* The media entry, a reserved one and the root's are taken, and those of
\* other files, of one cluster each.  A blank volume has hint 2.
Init ==
    /\ fat = [e \in Entry |-> IF e < 3 \/ e \in Used THEN Eoc ELSE Free]
    /\ nextFree = FirstFree
    /\ fatLock = None
    /\ dirEntry = [f \in File |-> Nothing]
    /\ handle = [h \in Handle |-> Closed]
    /\ th = [t \in Thread |-> Rest]
    /\ given = [f \in File |-> <<>>]

-----------------------------------------------------------------------------
\* Sectors of the table.
Sector(e) == e \div EntriesPerSector
Offset(e) == e % EntriesPerSector
SectorOf(e) == [i \in Slot |-> fat[Sector(e) * EntriesPerSector + i]]
PutSector(e, buf) ==
    fat' = [d \in Entry |-> IF Sector(d) = Sector(e) THEN buf[Offset(d)] ELSE fat[d]]

\* The program asks for a sector the table does not have.
LeaveVolume(t) == th' = [th EXCEPT ![t].pc = "outside"]

-----------------------------------------------------------------------------
\* Operations of FUSE: a thread takes one, on a file no other thread works on.
Busy(f) == \E t \in Thread : th[t].work.file = f
IsOpen(f) == \E h \in Handle : handle[h].file = f

Starts(t, f, op, kind) ==
    /\ op \in Operation
    /\ th[t].pc = "idle"
    /\ ~ Busy(f)
    /\ dirEntry[f].kind = kind

\* mknod: a name with no cluster.
Mknod(t, f) ==
    /\ Starts(t, f, "mknod", "none")
    /\ dirEntry' = [dirEntry EXCEPT ![f] = [kind |-> "file", first |-> 0, size |-> 0]]
    /\ UNCHANGED <<fat, nextFree, fatLock, handle, th, given>>

\* mkdir takes the cluster of the directory first.
Mkdir(t, f) ==
    /\ Starts(t, f, "mkdir", "none")
    /\ th' = [th EXCEPT ![t] = [Rest EXCEPT !.pc = "lock", !.op = "mkdir",
                                            !.work = Opened(f)]]
    /\ UNCHANGED <<fat, nextFree, fatLock, dirEntry, handle, given>>

Open(h, f) ==
    /\ handle[h] = Closed
    /\ dirEntry[f].kind = "file"
    /\ Cardinality({ i \in Handle : handle[i].file = f }) < MaxHandlesPerFile
    /\ handle' = [handle EXCEPT ![h] = Opened(f)]
    /\ UNCHANGED <<fat, nextFree, fatLock, dirEntry, th, given>>

Release(h) ==
    /\ handle[h] # Closed
    /\ ~ Busy(handle[h].file)
    /\ handle' = [handle EXCEPT ![h] = Closed]
    /\ UNCHANGED <<fat, nextFree, fatLock, dirEntry, th, given>>

\* The first clusters of pfs_fat32_utils_extendFile...: a file with none is
\* assigned one; the end of its chain is looked for unless the handle knows it.
Extend(t, op, work, h, size, need) ==
    th' = [th EXCEPT ![t] =
        [Rest EXCEPT !.op = op, !.handle = h, !.need = need, !.at = work.first,
                     !.work = [work EXCEPT !.size = size],
                     !.pc = IF work.first = 0 \/ (work.eoc # 0 /\ need > 0) THEN "lock"
                            ELSE IF work.eoc = 0 THEN "find" ELSE "entry"]]

\* A write that leaves the clusters the handle believes in adds as many as
\* it writes; one that passes the recorded size, but not that test, records a
\* new size and adds none; any other is no matter of the table's.
Write(t, h, offset, n) ==
    LET f == handle[h].file
        size == handle[h].size
    IN  /\ f # None
        /\ Starts(t, f, "write", "file")
        /\ IF n > size \/ offset >= size
           THEN /\ size + n <= MaxSize
                /\ Extend(t, "write", handle[h], h, size + n, n)
                /\ UNCHANGED <<dirEntry, handle>>
           ELSE /\ size < offset + n
                /\ offset + n <= MaxSize
                /\ handle' = [handle EXCEPT ![h].size = offset + n]
                /\ dirEntry' = [dirEntry EXCEPT ![f].size = offset + n,
                                                ![f].first = handle[h].first]
                /\ UNCHANGED th
        /\ UNCHANGED <<fat, nextFree, fatLock, given>>

\* truncate opens the file by its name.
TruncateUp(t, f, size) ==
    /\ Starts(t, f, "grow", "file")
    /\ dirEntry[f].size < size
    /\ Extend(t, "grow", Opened(f), None, size, size)
    /\ UNCHANGED <<fat, nextFree, fatLock, dirEntry, handle, given>>

TruncateDown(t, f, size) ==
    /\ Starts(t, f, "shrink", "file")
    /\ size <= dirEntry[f].size
    /\ dirEntry' = [dirEntry EXCEPT ![f].size = size,
                                    ![f].first = IF size = 0 THEN 0 ELSE @]
    /\ th' = [th EXCEPT ![t] = [Rest EXCEPT !.pc = "walk", !.op = "shrink",
                                            !.work = Opened(f), !.need = size,
                                            !.at = dirEntry[f].first]]
    /\ UNCHANGED <<fat, nextFree, fatLock, handle, given>>

\* unlink removes the entry of the directory, then frees the chain; rmdir of an
\* empty directory frees one entry.
Remove(t, f, op, kind) ==
    /\ Starts(t, f, op, kind)
    /\ ~ IsOpen(f)
    /\ dirEntry' = [dirEntry EXCEPT ![f] = Nothing]
    /\ th' = [th EXCEPT ![t] = [Rest EXCEPT !.pc = "chain", !.op = op,
                                            !.work = Opened(f), !.at = dirEntry[f].first]]
    /\ UNCHANGED <<fat, nextFree, fatLock, handle, given>>

Unlink(t, f) == Remove(t, f, "unlink", "file")
Rmdir(t, f) == Remove(t, f, "rmdir", "dir")

-----------------------------------------------------------------------------
\* pfs_fat32_utils_assignCluster and allocateNewCluster, under fatLock.

\* A faulty Lock: fatLock is not waited for.
LockAnyway(t) ==
    /\ th[t].pc = "lock"
    /\ nextFree + 1 \in Entry
    /\ fatLock' = t
    /\ th' = [th EXCEPT ![t].pc = "search", ![t].cur = nextFree, ![t].next = nextFree + 1]
    /\ UNCHANGED <<fat, nextFree, dirEntry, handle, given>>

\* The table holds the entry marked after the allocated one: a bound.
Lock(t) ==
    /\ th[t].pc = "lock"
    /\ fatLock = None
    /\ nextFree + 1 \in Entry
    /\ fatLock' = t
    /\ th' = [th EXCEPT ![t].pc = "search", ![t].cur = nextFree, ![t].next = nextFree + 1]
    /\ UNCHANGED <<fat, nextFree, dirEntry, handle, given>>

\* One pass over a sector, from the candidate's place in it to its end.  The
\* next pass reads the same sector again: its number does not advance.
Candidates(t, s) ==
    { n \in th[t].next .. Clusters - 1 :
        /\ Sector(n) = Sector(th[t].next)
        /\ s[Offset(n)] = Free }

\* A faulty SearchIn: a full volume is an early return, with fatLock held.
SearchOrFail(t, s) ==
    \/ \E n \in Candidates(t, s) :
          /\ \A m \in Candidates(t, s) : n <= m
          /\ th' = [th EXCEPT ![t].next = n, ![t].pc = "mark"]
    \/ /\ Candidates(t, s) = {}
       /\ th' = [th EXCEPT ![t] = Rest]

SearchIn(t, s) ==
    LET nextPass == (Sector(th[t].next) + 1) * EntriesPerSector
    IN  \/ \E n \in Candidates(t, s) :
              /\ \A m \in Candidates(t, s) : n <= m
              /\ th' = [th EXCEPT ![t].next = n, ![t].pc = "mark"]
        \/ /\ Candidates(t, s) = {}
           /\ th[t].next < Clusters
           /\ th' = IF nextPass < Clusters THEN [th EXCEPT ![t].next = nextPass]
                    ELSE [th EXCEPT ![t].next = Clusters, ![t].pc = "mark"]
        \/ /\ th[t].next >= Clusters
           /\ th' = [th EXCEPT ![t].pc = "mark"]

Search(t) ==
    /\ th[t].pc = "search"
    /\ SearchIn(t, SectorOf(th[t].cur + 1))
    /\ UNCHANGED <<fat, nextFree, fatLock, dirEntry, handle, given>>

\* pfs_fat32_utils_markEndOfChain marks the entry after the cluster's, and
\* nothing when that entry is in another sector.  truncate calls it too.
Mark(t) ==
    LET slot == Offset(th[t].cur) + 1
        s == SectorOf(th[t].cur)
    IN  /\ th[t].pc = "mark"
        /\ th' = [th EXCEPT ![t].pc = "markPut",
                            ![t].buf = IF slot \in Slot THEN [s EXCEPT ![slot] = Eoc] ELSE s]
        /\ UNCHANGED <<fat, nextFree, fatLock, dirEntry, handle, given>>

MarkPut(t) ==
    /\ th[t].pc = "markPut"
    /\ PutSector(th[t].cur, th[t].buf)
    /\ th' = IF th[t].op # "shrink"
             THEN [th EXCEPT ![t].pc = IF th[t].work.first = 0 THEN "unlock" ELSE "expand"]
             ELSE IF th[t].at = Eoc THEN [th EXCEPT ![t] = Rest]
             ELSE [th EXCEPT ![t].pc = "drop"]
    /\ UNCHANGED <<nextFree, fatLock, dirEntry, handle, given>>

\* pfs_fat32_utils_expandChain: the last cluster's entry names the new one.
Expand(t) ==
    LET last == th[t].work.eoc
    IN  /\ th[t].pc = "expand"
        /\ th' = [th EXCEPT ![t].pc = "expandPut",
                            ![t].buf = [SectorOf(last) EXCEPT ![Offset(last)] = th[t].cur]]
        /\ UNCHANGED <<fat, nextFree, fatLock, dirEntry, handle, given>>

ExpandPut(t) ==
    /\ th[t].pc = "expandPut"
    /\ PutSector(th[t].work.eoc, th[t].buf)
    /\ th' = [th EXCEPT ![t].pc = "unlock"]
    /\ UNCHANGED <<nextFree, fatLock, dirEntry, handle, given>>

\* A faulty Unlock: the handle keeps the end it had found.
UnlockForgetsEoc(t) ==
    LET f == th[t].work.file
        more == th[t].count + 1 < th[t].need
    IN  /\ th[t].pc = "unlock"
        /\ nextFree' = th[t].next
        /\ fatLock' = None
        /\ given' = [given EXCEPT ![f] = Append(@, th[t].cur)]
        /\ IF th[t].work.first = 0
           THEN th' = [th EXCEPT ![t].work.first = th[t].cur, ![t].at = th[t].cur,
                                 ![t].count = @ + 1,
                                 ![t].pc = IF th[t].op = "mkdir" THEN "entry" ELSE "find"]
           ELSE th' = [th EXCEPT ![t].count = @ + 1,
                                 ![t].pc = IF more THEN "lock" ELSE "entry"]
        /\ UNCHANGED <<fat, dirEntry, handle>>

\* A first cluster starts the file; its end is then looked for in the table.
\* Any other becomes the end.
Unlock(t) ==
    LET f == th[t].work.file
        more == th[t].count + 1 < th[t].need
    IN  /\ th[t].pc = "unlock"
        /\ nextFree' = th[t].next
        /\ fatLock' = None
        /\ given' = [given EXCEPT ![f] = Append(@, th[t].cur)]
        /\ IF th[t].work.first = 0
           THEN th' = [th EXCEPT ![t].work.first = th[t].cur, ![t].at = th[t].cur,
                                 ![t].count = @ + 1,
                                 ![t].pc = IF th[t].op = "mkdir" THEN "entry" ELSE "find"]
           ELSE th' = [th EXCEPT ![t].work.eoc = th[t].cur, ![t].count = @ + 1,
                                 ![t].pc = IF more THEN "lock" ELSE "entry"]
        /\ UNCHANGED <<fat, dirEntry, handle>>

\* A faulty FindEoc: it returns the entry that ends the chain, not its place.
FindEocValue(t) ==
    LET at == th[t].at
        more == th[t].count < th[t].need
    IN  /\ th[t].pc = "find"
        /\ th' = IF fat[at] # Eoc THEN [th EXCEPT ![t].at = fat[at]]
                 ELSE [th EXCEPT ![t].work.eoc = fat[at],
                                 ![t].pc = IF more THEN "lock" ELSE "entry"]
        /\ UNCHANGED <<fat, nextFree, fatLock, dirEntry, handle, given>>

\* One turn of pfs_fat32_utils_findEOC.
FindEoc(t) ==
    LET at == th[t].at
        more == th[t].count < th[t].need
    IN  /\ th[t].pc = "find"
        /\ th' = IF fat[at] # Eoc THEN [th EXCEPT ![t].at = fat[at]]
                 ELSE [th EXCEPT ![t].work.eoc = at,
                                 ![t].pc = IF more THEN "lock" ELSE "entry"]
        /\ UNCHANGED <<fat, nextFree, fatLock, dirEntry, handle, given>>

\* The directory entry is written from the FatFile, which a write leaves in
\* the handle.
PutEntry(t) ==
    LET work == th[t].work
    IN  /\ th[t].pc = "entry"
        /\ dirEntry' = [dirEntry EXCEPT ![work.file] =
               [kind |-> IF th[t].op = "mkdir" THEN "dir" ELSE "file",
                first |-> work.first, size |-> work.size]]
        /\ handle' = IF th[t].handle = None THEN handle
                     ELSE [handle EXCEPT ![th[t].handle] = work]
        /\ th' = [th EXCEPT ![t] = Rest]
        /\ UNCHANGED <<fat, nextFree, fatLock, given>>

-----------------------------------------------------------------------------
\* pfs_fat32_unlink_FatEntryChain, with no lock: the next cluster is read, then
\* the sector again, the entry is freed in it and the sector is written.
FreeNext(t) ==
    /\ th[t].pc = "chain"
    /\ IF th[t].at = Eoc THEN LeaveVolume(t)
       ELSE th' = [th EXCEPT ![t].next = fat[th[t].at], ![t].pc = "free"]
    /\ UNCHANGED <<fat, nextFree, fatLock, dirEntry, handle, given>>

Freed(t) == [SectorOf(th[t].at) EXCEPT ![Offset(th[t].at)] = Free]

FreeEntry(t) ==
    /\ th[t].pc = "free"
    /\ th' = [th EXCEPT ![t].pc = "freePut", ![t].cur = fat[th[t].at], ![t].buf = Freed(t)]
    /\ UNCHANGED <<fat, nextFree, fatLock, dirEntry, handle, given>>

FreePut(t) ==
    LET done == th[t].cur = Eoc \/ th[t].op = "rmdir"
    IN  /\ th[t].pc = "freePut"
        /\ PutSector(th[t].at, th[t].buf)
        /\ th' = IF done THEN [th EXCEPT ![t] = Rest]
                 ELSE [th EXCEPT ![t].pc = "chain", ![t].at = th[t].next]
        /\ given' = IF done THEN [given EXCEPT ![th[t].work.file] = <<>>] ELSE given
        /\ UNCHANGED <<nextFree, fatLock, dirEntry, handle>>

-----------------------------------------------------------------------------
\* pfs_fat32_truncate to a size that is not larger: the walk to the cluster
\* where the file is cut, one step per cluster kept.
Walk(t) ==
    /\ th[t].pc = "walk"
    /\ IF th[t].at = Eoc THEN LeaveVolume(t)
       ELSE IF th[t].count < th[t].need
       THEN th' = [th EXCEPT ![t].at = fat[th[t].at], ![t].count = @ + 1]
       ELSE th' = [th EXCEPT ![t].pc = "cut"]
    /\ UNCHANGED <<fat, nextFree, fatLock, dirEntry, handle, given>>

\* What follows the cluster is kept, and the cluster marked.
Cut(t) ==
    /\ th[t].pc = "cut"
    /\ th' = [th EXCEPT ![t].pc = "mark", ![t].cur = th[t].at, ![t].at = fat[th[t].at]]
    /\ UNCHANGED <<fat, nextFree, fatLock, dirEntry, handle, given>>

Drop(t) ==
    /\ th[t].pc = "drop"
    /\ th' = [th EXCEPT ![t].pc = "dropPut", ![t].next = fat[th[t].at], ![t].buf = Freed(t)]
    /\ UNCHANGED <<fat, nextFree, fatLock, dirEntry, handle, given>>

DropPut(t) ==
    /\ th[t].pc = "dropPut"
    /\ PutSector(th[t].at, th[t].buf)
    /\ th' = IF th[t].next = Eoc THEN [th EXCEPT ![t] = Rest]
             ELSE [th EXCEPT ![t].pc = "drop", ![t].at = th[t].next]
    /\ UNCHANGED <<nextFree, fatLock, dirEntry, handle, given>>

-----------------------------------------------------------------------------
\* What an operation goes on with once a thread has begun it.
Goes(t) ==
    \/ Lock(t) \/ Search(t) \/ Mark(t) \/ MarkPut(t) \/ Expand(t) \/ ExpandPut(t)
    \/ Unlock(t) \/ FindEoc(t) \/ PutEntry(t)
    \/ FreeNext(t) \/ FreeEntry(t) \/ FreePut(t)
    \/ Walk(t) \/ Cut(t) \/ Drop(t) \/ DropPut(t)

Asks(t) ==
    \/ \E f \in File : Mknod(t, f) \/ Mkdir(t, f) \/ Unlink(t, f) \/ Rmdir(t, f)
    \/ \E f \in File, n \in 0 .. MaxSize : TruncateUp(t, f, n) \/ TruncateDown(t, f, n)
    \/ \E h \in Handle, offset \in 0 .. MaxSize, n \in 1 .. MaxRequest :
          Write(t, h, offset, n)

Next ==
    \/ \E t \in Thread : Asks(t) \/ Goes(t)
    \/ \E h \in Handle : Release(h) \/ \E f \in File : Open(h, f)

\* The threads are scheduled; what is asked of them is not bound to come.
Spec == Init /\ [][Next]_vars /\ \A t \in Thread : WF_vars(Goes(t))

-----------------------------------------------------------------------------
ThreadState ==
    [pc : {"idle", "lock", "search", "mark", "markPut", "expand", "expandPut", "unlock",
           "find", "entry", "chain", "free", "freePut", "walk", "cut", "drop", "dropPut",
           "outside"},
     op : {"none", "mkdir", "write", "grow", "shrink", "unlink", "rmdir"},
     work : FatFile, handle : Handle \cup {None}, count : Nat, need : Nat,
     cur : 0 .. Eoc, next : 0 .. Eoc, at : 0 .. Eoc, buf : [Slot -> 0 .. Eoc]]

\* The state of the allocator: entries name entries or end a chain.
TypeOK ==
    /\ fat \in [Entry -> 0 .. Eoc]
    /\ nextFree \in 0 .. Eoc
    /\ fatLock \in Thread \cup {None}
    /\ dirEntry \in [File -> [kind : {"none", "file", "dir"}, first : Entry, size : Nat]]
    /\ handle \in [Handle -> FatFile]
    /\ th \in [Thread -> ThreadState]
    /\ given \in [File -> Seq(Entry)]

\* A cluster is given once: never to two files, nor twice to a file, whatever
\* else the threads do to the table (fatLock in assignCluster and
\* allocateNewCluster, and v->nextFreeCluster that never goes back).
ClustersGivenOnce ==
    \A f, g \in File : \A i \in DOMAIN given[f], j \in DOMAIN given[g] :
        given[f][i] = given[g][j] => f = g /\ i = j

\* Clusters whose entry no allocation marks: the one before was not allocated
\* since the volume was formatted, or has its entry in another sector.
Unmarked == {FirstFree} \cup { e \in Entry : Offset(e) = 0 }

\* The chain in the table is the clusters the file was given, in their order,
\* for a file none of whose clusters is Unmarked (markEndOfChain, expandChain
\* and the end a handle remembers agree with one another).
ChainIsWhatWasGiven ==
    \A f \in File :
        (/\ dirEntry[f].kind = "file"
         /\ ~ Busy(f)
         /\ given[f] # <<>>
         /\ \A i \in DOMAIN given[f] : given[f][i] \notin Unmarked)
        => /\ dirEntry[f].first = given[f][1]
           /\ \A i \in 1 .. Len(given[f]) - 1 : fat[given[f][i]] = given[f][i + 1]
           /\ fat[given[f][Len(given[f])]] = Eoc

\* fatLock is always released: no path of an allocation leaves with it held.
LockIsReleased == fatLock # None ~> fatLock = None
=============================================================================
