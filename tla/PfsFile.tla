------------------------------- MODULE PfsFile -------------------------------
(***************************************************************************)
(* The bytes of a file as the file system client (grage-pfs) reads, writes  *)
(* and truncates it: pfs-fuse.c, pfs-fat32.c and pfs-fat-utils.c.  A handle *)
(* has a copy of the directory entry and a position for reads and one for   *)
(* writes, kept between requests; truncate works on the entry by its path.  *)
(* One request runs at a time, with no cache of the file (the shipped size  *)
(* is zero), and the entries of the table are in one sector (FatAlloc has   *)
(* the interleavings and the sectors).                                      *)
(* External: the kernel reads whole pages of what it takes the file to be,  *)
(* and writes within a page; a page is as large as a cluster.               *)
(***************************************************************************)
EXTENDS Integers, Sequences, FiniteSets, FiniteSetsExt, SequencesExt

CONSTANTS
    Handle,         \* what open() returns
    BlockSize,      \* v->bpc
    Eoc,            \* v->clusters: ends a chain, is no cluster
    MountedSizes,   \* sizes of the file of a volume when mounted
    MaxSize,        \* bound: the size of the file
    MaxPages,       \* bound: pages in one read
    MaxChanges      \* bound: writes and truncates

ASSUME FileAssumption ==
    /\ BlockSize \in Nat \ {0}
    /\ MaxSize \in Nat /\ MaxPages \in Nat \ {0} /\ MaxChanges \in Nat
    /\ MountedSizes \subseteq 0 .. MaxSize
    /\ Eoc \in Nat /\ 5 + (MaxSize + BlockSize - 1) \div BlockSize <= Eoc

Cluster == 0 .. Eoc - 1        \* entries of the table; 0 is also a free entry
DataCluster == 3 .. Eoc - 1    \* after the root
First == 3                     \* the first cluster of a file when mounted
Offset == 0 .. BlockSize - 1

VARIABLES
    next,       \* the table
    data,       \* the clusters
    nextFree,   \* v->nextFreeCluster
    entry,      \* cluster and size in the directory
    handle,     \* the FatFile of each open file
    outside,    \* the client works on a cluster that is none of the volume's
    changes,    \* writes and truncates so far
    content,    \* ghost: what the file should hold
    astray      \* ghost: a request went where the positions do not serve it, or
                \* the file reaches past what a cut has left of its chain

vars == <<next, data, nextFree, entry, handle, outside, changes, content, astray>>

\* A byte is told by the change that wrote it and its place in the file.
Byte == (0 .. MaxChanges) \X (0 .. MaxSize)
Old(i) == <<0, i>>                 \* of the mounted file
Blank == <<0, MaxSize>>            \* what a cluster has that was not written

\* A FatFile: the copy of the entry, EOC (0 until it is looked for) and the
\* absolute positions (0 until the first request).  Ghosts: whether the entry
\* or the table was changed elsewhere since; the blocks that the positions
\* are for.
Opened == [open |-> TRUE, first |-> entry.first, size |-> entry.size, eoc |-> 0,
           absRead |-> 0, absWrite |-> 0, stale |-> FALSE, read |-> 0, written |-> 0]
Closed == [open |-> FALSE, first |-> 0, size |-> 0, eoc |-> 0,
           absRead |-> 0, absWrite |-> 0, stale |-> FALSE, read |-> 0, written |-> 0]

NoBlock == MaxSize + 1             \* none follows it

\* getNextClusterInChain in a table, n times.
Nth(table, c, n) ==
    LET at[i \in 0 .. n] == IF i = 0 THEN c ELSE IF at[i - 1] = Eoc THEN Eoc ELSE table[at[i - 1]]
    IN  at[n]

Blocks(n) == (n + BlockSize - 1) \div BlockSize

\* A volume that is mounted with a file.  A directory has been made since, so
\* that the entry of the next free cluster is marked (FatAlloc has the
\* allocation that is first).
Mounted(size) ==
    LET end == First + Blocks(size)
    IN  /\ next = [c \in Cluster |-> IF c \in First .. end - 2 THEN c + 1
                                     ELSE IF c < end \/ c = end + 1 THEN Eoc ELSE 0]
        /\ data = [c \in DataCluster |-> [i \in Offset |->
              LET at == (c - First) * BlockSize + i IN IF at < size THEN Old(at) ELSE Blank]]
        /\ nextFree = end + 1
        /\ entry = [first |-> IF size = 0 THEN 0 ELSE First, size |-> size]
        /\ handle = [h \in Handle |-> Closed]
        /\ outside = FALSE
        /\ changes = 0
        /\ content = [i \in 1 .. size |-> Old(i - 1)]
        /\ astray = FALSE

Init == \E size \in MountedSizes : Mounted(size)

-----------------------------------------------------------------------------
\* seek and getBlockFromNthCluster...: the number is rounded up and one link
\* less is walked, so the start of a block gives the block before it.
SeekBlock(table, first, offset) ==
    Nth(table, first, IF Blocks(offset) = 0 THEN 0 ELSE Blocks(offset) - 1)

\* findEOC: where a chain ends.  One that turns on itself has no end.
Ends(table, first) ==
    { i \in 0 .. Eoc : Nth(table, first, i) # Eoc /\ Nth(table, first, i + 1) = Eoc }

\* A faulty FindEoc: it returns the entry that ends the chain, not its place.
FindEocValue(table, first) == table[Nth(table, first, Min(Ends(table, first)))]

FindEoc(table, first) == Nth(table, first, Min(Ends(table, first)))

\* assignCluster: the entry after the new cluster is marked.  The one that is
\* taken next is free: the hint only grows.
Assign(s) ==
    [s EXCEPT !.table[s.free + 1] = Eoc, !.free = @ + 1, !.file.first = s.free]

\* allocateNewCluster for a FatFile: the entry of the last cluster names the new
\* one.
Allocate(s) ==
    [s EXCEPT !.table = [@ EXCEPT ![s.free + 1] = Eoc, ![s.file.eoc] = s.free],
              !.free = @ + 1, !.file.eoc = s.free]

Unextended(f) == [table |-> next, free |-> nextFree, file |-> f]

\* extendFileWrite and extendFileTruncate: a file with no cluster is assigned
\* one; then as many are added as the request has, whatever the file has.
Extend(f, n, size) ==
    LET none == f.first = 0
        s == IF none THEN Assign(Unextended(f)) ELSE Unextended(f)
        found == IF f.eoc # 0 THEN s
                 ELSE [s EXCEPT !.file.eoc = FindEoc(s.table, s.file.first)]
        extra == Blocks(n) - (IF none THEN 1 ELSE 0)
        extended[i \in 0 .. extra] == IF i = 0 THEN found ELSE Allocate(extended[i - 1])
    IN  [extended[extra] EXCEPT !.file.size = size]

\* What an extension needs: the clusters it takes, and an end to go on from.
CanExtend(f, n) ==
    /\ nextFree + Blocks(n) < Eoc
    /\ (f.first # 0 /\ f.eoc = 0) => Ends(next, f.first) # {}

\* The handles find the file changed, but those that change it.
StaleBut(changing) ==
    [h \in Handle |-> IF h \in changing \/ ~ handle[h].open THEN handle[h]
                      ELSE [handle[h] EXCEPT !.stale = TRUE]]

\* Bound: nothing more is asked once the client has left the volume, its
\* positions did not serve a write, or the file reaches past a cut.
Goes == ~ outside /\ ~ astray

-----------------------------------------------------------------------------
Open(h) ==
    /\ Goes /\ ~ handle[h].open
    /\ handle' = [handle EXCEPT ![h] = Opened]
    /\ UNCHANGED <<next, data, nextFree, entry, outside, changes, content, astray>>

Release(h) ==
    /\ Goes /\ handle[h].open
    /\ handle' = [handle EXCEPT ![h] = Closed]
    /\ UNCHANGED <<next, data, nextFree, entry, outside, changes, content, astray>>

\* A faulty NeedsClusters: a write at the end of the file is taken to be in it.
NeedsClustersPastEnd(f, offset, n) ==
    \/ (offset % BlockSize) + n > Blocks(f.size) * BlockSize
    \/ offset > f.size

\* pfs_fuse_write, from the size the handle knows: clusters are added for a
\* write that starts at the end of the file, even in a cluster it has.
NeedsClusters(f, offset, n) ==
    \/ (offset % BlockSize) + n > Blocks(f.size) * BlockSize
    \/ offset >= f.size

\* What the positions of a handle serve: a first write at the start of the file
\* or inside a block, and the others in the block that follows that one.
ServesWrite(f, offset) ==
    /\ ~ f.stale /\ offset <= f.size
    /\ IF f.absWrite = 0 THEN offset = 0 \/ offset % BlockSize # 0
       ELSE offset \div BlockSize = f.written + 1

\* pfs_fat32_write: the first of a handle looks for its cluster, all the others
\* take the one after that.
WriteTarget(e, offset) ==
    IF e.file.absWrite = 0 THEN SeekBlock(e.table, e.file.first, offset)
    ELSE Nth(e.table, e.file.absWrite, 1)

\* callPutBlock: a cluster, with the bytes of a write in it.
PutBytes(c, offset, n) ==
    LET from == offset % BlockSize
    IN  [i \in Offset |-> IF i \in from .. from + n - 1
                          THEN <<changes + 1, offset - from + i>> ELSE data[c][i]]

\* pfs_fuse_write: the entry is written when the size changes.
Write(h, offset, n) ==
    LET f == handle[h]
        extends == NeedsClusters(f, offset, n)
        recorded == IF f.size < offset + n THEN offset + n ELSE f.size
        e == IF extends THEN Extend(f, n, f.size + n)
             ELSE Unextended([f EXCEPT !.size = recorded])
        g == e.file
        c == WriteTarget(e, offset)
    IN  /\ Goes /\ f.open /\ changes < MaxChanges
        /\ (offset % BlockSize) + n <= BlockSize
        /\ extends => CanExtend(f, n)
        /\ offset + n <= MaxSize /\ g.size <= MaxSize
        /\ next' = e.table
        /\ nextFree' = e.free
        /\ entry' = IF g.size = f.size THEN entry ELSE [first |-> g.first, size |-> g.size]
        /\ handle' = [IF g.size = f.size THEN handle ELSE StaleBut({h}) EXCEPT ![h] =
              IF f.absWrite # 0 THEN g
              ELSE [g EXCEPT !.absWrite = c, !.written = offset \div BlockSize]]
        /\ outside' = (c \notin DataCluster)
        /\ data' = [d \in DataCluster |-> IF d = c THEN PutBytes(c, offset, n) ELSE data[d]]
        /\ changes' = changes + 1
        /\ content' = [i \in 1 .. Max({Len(content), offset + n}) |->
              IF i \in offset + 1 .. offset + n THEN <<changes + 1, i - 1>>
              ELSE IF i <= Len(content) THEN content[i] ELSE Blank]
        /\ astray' = (~ ServesWrite(f, offset) \/ c = 0)

-----------------------------------------------------------------------------
\* What the positions of a handle serve: a first read from the start of the
\* file, and then the block that follows the last it gave.
ServesRead(f, block, n) ==
    /\ ~ f.stale
    /\ IF f.absRead = 0 THEN block = 0 ELSE n <= BlockSize /\ block = f.read + 1

\* A faulty Following: the clusters are those of the file from its start.
FollowingFirst(f, abs, k) == [i \in 1 .. k |-> Nth(next, f.first, i - 1)]

\* The clusters that pfs_fat32_read goes through after the one it starts with:
\* from the position, which is not where a later read has started.
Following(f, abs, k) == [i \in 1 .. k |-> Nth(next, abs, i)]

\* A cluster as read: past the end of the chain the block is what the stack has.
BytesOf(c, n) == [i \in 1 .. n |-> IF c \in DataCluster THEN data[c][i - 1] ELSE Blank]

\* The size of a read is what the handle knows of the file, not what it has.
Length(f, block, pages) ==
    Min({pages * BlockSize, f.size - block * BlockSize})

\* The clusters that a read of n bytes goes through.
Path(f, block, n) ==
    LET start == IF f.absRead = 0 THEN SeekBlock(next, f.first, block * BlockSize)
                 ELSE Nth(next, f.absRead, 1)
    IN  <<start>> \o Following(f, IF f.absRead = 0 THEN start ELSE f.absRead, Blocks(n) - 1)

BytesRead(f, block, n) ==
    LET path == Path(f, block, n)
    IN  FlattenSeq([i \in DOMAIN path |-> BytesOf(path[i], Min({BlockSize, n - (i - 1) * BlockSize}))])

Read(h, block, pages) ==
    LET f == handle[h]
        n == Length(f, block, pages)
        path == Path(f, block, n)
        abs == IF Len(path) > 1 \/ f.absRead = 0 THEN Last(path) ELSE f.absRead
        beyond == f.absRead # 0 /\ path[1] = Eoc
    IN  /\ Goes /\ f.open
        /\ block * BlockSize < entry.size
        /\ n > 0           \* the handle knows less of the file: no byte is read
        /\ outside' = ~ (Range(IF beyond THEN Tail(path) ELSE path) \subseteq DataCluster)
        /\ handle' = [handle EXCEPT ![h].absRead = abs,
               ![h].read = IF ~ ServesRead(f, block, n) THEN NoBlock
                           ELSE IF f.absRead = 0 THEN block + Len(path) - 1 ELSE @]
        /\ UNCHANGED <<next, data, nextFree, entry, changes, content, astray>>

-----------------------------------------------------------------------------
\* truncate opens the file by its path.  What a larger file has more is not
\* written.  The chain of a file that was cut may go on through a cluster that
\* was freed: entry 0 is then taken for one of the chain, and its end.
TruncateUp(size) ==
    LET e == Extend(Opened, size, size)
    IN  /\ Goes /\ changes < MaxChanges
        /\ entry.size < size
        /\ CanExtend(Opened, size)
        /\ next' = e.table
        /\ nextFree' = e.free
        /\ entry' = [first |-> e.file.first, size |-> size]
        /\ handle' = StaleBut({})
        /\ changes' = changes + 1
        /\ content' = [i \in 1 .. size |-> IF i <= Len(content) THEN content[i] ELSE Blank]
        /\ astray' = (\E b \in 0 .. Blocks(size) - 1 : Nth(e.table, e.file.first, b) = 0)
        /\ UNCHANGED <<data, outside>>

\* To a size that is not larger: the cluster after those kept is cut, and is
\* zeroed from a byte on; the entry after its own is marked, and those it led
\* to are zeroed and freed.  What is done outside the volume is left out.
CutAt(size) == Nth(next, entry.first, Blocks(size))

TruncateDown(size) ==
    LET cut == CutAt(size)
        from == IF (size % BlockSize) = 0 THEN 0 ELSE (size % BlockSize) + 1
        marked == [next EXCEPT ![cut + 1] = Eoc]
        after == next[cut]
        drop == { Nth(marked, after, i) : i \in 0 .. Eoc } \ {Eoc}
        cuts == cut \in DataCluster
        leaves == ~ cuts \/ (after # Eoc /\ (0 \in drop \/ Ends(marked, after) = {}))
    IN  /\ Goes /\ changes < MaxChanges
        /\ size <= entry.size
        /\ entry' = [first |-> IF size = 0 THEN 0 ELSE entry.first, size |-> size]
        /\ outside' = leaves
        /\ next' = IF leaves THEN next
                   ELSE [c \in Cluster |-> IF c \in drop THEN 0 ELSE marked[c]]
        /\ data' = IF leaves THEN data
                   ELSE [c \in DataCluster |-> [i \in Offset |->
                       IF c \in drop \/ (c = cut /\ i >= from) THEN Blank ELSE data[c][i]]]
        /\ handle' = StaleBut({})
        /\ changes' = changes + 1
        /\ content' = SubSeq(content, 1, size)
        /\ UNCHANGED <<nextFree, astray>>

-----------------------------------------------------------------------------
Next ==
    \/ \E h \in Handle : Open(h) \/ Release(h)
    \/ \E h \in Handle, offset \in 0 .. MaxSize, n \in 1 .. BlockSize : Write(h, offset, n)
    \/ \E h \in Handle, block \in 0 .. MaxSize, pages \in 1 .. MaxPages : Read(h, block, pages)
    \/ \E size \in 0 .. MaxSize : TruncateUp(size) \/ TruncateDown(size)

Spec == Init /\ [][Next]_vars
-----------------------------------------------------------------------------
FatFile == [open : BOOLEAN, first : Cluster, size : 0 .. MaxSize, eoc : Cluster,
            absRead : 0 .. Eoc, absWrite : 0 .. Eoc, stale : BOOLEAN,
            read : 0 .. NoBlock, written : 0 .. MaxSize]

\* The state of the file: the chain, the entry and the handles name entries of
\* the table.
TypeOK ==
    /\ next \in [Cluster -> 0 .. Eoc]
    /\ data \in [DataCluster -> [Offset -> Byte]]
    /\ nextFree \in DataCluster
    /\ entry \in [first : Cluster, size : 0 .. MaxSize]
    /\ handle \in [Handle -> FatFile]
    /\ outside \in BOOLEAN
    /\ changes \in 0 .. MaxChanges
    /\ content \in Seq(Byte) /\ Len(content) <= MaxSize
    /\ astray \in BOOLEAN

\* What is said of a byte: nothing of one that was never written.
Gives(byte, i) == content[i] # Blank => byte = content[i]

\* The chain covers the size of the entry and holds what was written, each byte
\* at its place, whichever handles wrote it and however truncate cut and
\* extended the file (pfs_fuse_write, extendFileWrite, pfs_fat32_truncate), as
\* long as the positions of the handles serve the writes and the file does not
\* reach past what a cut has left of its chain.
FileHoldsContents ==
    ~ astray =>
        /\ entry.size = Len(content)
        /\ \A i \in 1 .. Len(content) :
              LET c == Nth(next, entry.first, (i - 1) \div BlockSize)
              IN  c \in DataCluster /\ Gives(data[c][(i - 1) % BlockSize], i)

\* A read that the position of its handle serves gives what was last written,
\* by whatever handle, and no byte more or less than the file has
\* (pfs_fat32_read, and the position it leaves for the next one).
ReadsGiveContents ==
    ~ astray => \A h \in Handle, pages \in 1 .. MaxPages, block \in 0 .. Blocks(entry.size) - 1 :
        LET f == handle[h]
            n == Length(f, block, pages)
            bytes == BytesRead(f, block, n)
        IN  (f.open /\ ServesRead(f, block, n)) =>
                /\ Len(bytes) = Min({pages * BlockSize, Len(content) - block * BlockSize})
                /\ \A i \in DOMAIN bytes : Gives(bytes[i], block * BlockSize + i)
=============================================================================
