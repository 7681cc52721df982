---------------------------- MODULE PfsDirectory ----------------------------
(***************************************************************************)
(* The directories of a volume as the threads of the file system client     *)
(* (grage-pfs) use them: pfs-fuse.c, pfs-fat32.c and pfs-fat-utils.c.  A    *)
(* directory is a block of slots of 32 bytes; a name takes two, the long    *)
(* entry with the name and the short one with the rest.  A handler reads a  *)
(* block, changes slots in its copy and writes it back whole, each in a     *)
(* step of its own, with no lock.  Short names, dates and the first cluster *)
(* of a file are left out (FatAlloc has the clusters of files).             *)
(* External: the kernel and libfuse let one operation at a time change the  *)
(* names of a directory or work on a file, keep the path of an operation in *)
(* place, look a directory up before they use it, and do not unlink a file  *)
(* that is open.                                                            *)
(***************************************************************************)
EXTENDS Integers, Sequences, FiniteSets, SequencesExt

CONSTANTS
    Thread,           \* the threads of FUSE
    Handle,           \* what open() returns
    Name,             \* the names operations use
    Asked,            \* bound: the paths they name, of two names at most
    Other,            \* a name the volume has when mounted
    None,             \* no name, no thread, no path
    SlotsPerBlock,    \* v->bpc / 32, 128 in the code
    SlotsPerSector,   \* v->bps / 32, 16 in the code
    MountedRoots,     \* roots of the volumes: label slots, pairs, clusters
    MaxDirectories,   \* bound: clusters for new directories
    MaxSize,          \* bound: the largest size written or set
    MaxAsked,         \* bound: the operations asked of the client
    MaxCrashes        \* bound: times the client is killed

Path == { <<n>> : n \in Name } \cup { <<n, m>> : n \in Name, m \in Name }

ASSUME DirectoryAssumption ==
    /\ Asked \subseteq Path
    /\ None \notin Name \cup Handle \cup Path /\ Other \notin Name \cup {None}
    /\ SlotsPerSector \in Nat /\ SlotsPerBlock \in Nat
    /\ 2 < SlotsPerSector /\ SlotsPerSector <= SlotsPerBlock
    /\ \A r \in MountedRoots :
          /\ r.label \in 0 .. 1 /\ r.pairs \in Nat /\ r.clusters \in 1 .. 2
          /\ r.label + 2 * r.pairs <= SlotsPerBlock
    /\ MaxDirectories \in Nat \ {0} /\ MaxSize \in Nat
    /\ MaxAsked \in Nat /\ MaxCrashes \in Nat

Root == 2                               \* v->root
Second == 3                             \* the cluster the root goes on in
Eoc == 4 + MaxDirectories               \* ends a chain, is no cluster
Cluster == {0} \cup 2 .. Eoc - 1        \* 0: what precedes the data area
Offset == 0 .. SlotsPerBlock - 1

VARIABLES
    slots,       \* the blocks of the directories
    rootNext,    \* where the chain of the root goes on
    nextFree,    \* v->nextFreeCluster: what the next directory takes
    taken,       \* clusters whose entry in the table is not free
    handle,      \* the FatFile of each open file
    th,          \* where each thread stands, with its local variables
    asked,       \* operations asked
    crashes,     \* times the client was killed
    tree,        \* ghost: what the answers so far say of each path
    spoiled,     \* ghost: directories with a block written over another's change
    uncertain    \* ghost: paths the answers say nothing certain of

ghosts == <<tree, spoiled, uncertain>>
vars == <<slots, rootNext, nextFree, taken, handle, th, asked, crashes, ghosts>>

-----------------------------------------------------------------------------
\* Slots.  LDIR_Ord tells the last ones and the free ones; LDIR_Attr the long
\* ones, which have the name; a short one has DIR_Attr, cluster and size.
Slot == [ord : {"end", "free", "used"}, long : BOOLEAN, name : Name \cup {Other, None},
         dir : BOOLEAN, first : Cluster, size : 0 .. MaxSize]
EndSlot == [ord |-> "end", long |-> FALSE, name |-> None,
            dir |-> FALSE, first |-> 0, size |-> 0]
LongSlot(n) == [EndSlot EXCEPT !.ord = "used", !.long = TRUE, !.name = n]
ShortSlot(dir, first) ==
    [EndSlot EXCEPT !.ord = "used", !.dir = dir, !.first = first]
IsFree(s) == s.ord # "used"

\* The blocks of a directory: only the root of a mounted volume has two.
Chain(c) == IF c = Root /\ rootNext # Eoc THEN <<Root, rootNext>> ELSE <<c>>
NextCluster(c) == IF c = Root THEN rootNext ELSE Eoc
At(chain, i) == slots[chain[i \div SlotsPerBlock + 1]][i % SlotsPerBlock]
Ends(chain) == Len(chain) * SlotsPerBlock
DirectoryOf(c) == IF c = Second THEN Root ELSE c

\* A FatFile.  It is sound when its entry was read where it is: an entry past
\* the first block is taken to be in the first (source), and the short entry
\* of the last pair of a block is read from the next block.
FatFile == [found : {"yes", "no", "outside"}, source : Cluster, offset : Offset,
            entry : Slot, sound : BOOLEAN]
Result(found) == [found |-> found, source |-> 0, offset |-> 0, entry |-> EndSlot,
                  sound |-> TRUE]
NotFound == Result("no")
Outside == Result("outside")    \* a cluster the volume does not have is read

Found(c, i) ==
    LET chain == Chain(c)
        last == (i + 2) % SlotsPerBlock = 0
    IN  IF i + 2 >= Ends(chain) THEN Outside
        ELSE [found |-> "yes", source |-> c, offset |-> i % SlotsPerBlock,
              entry |-> IF At(chain, i).long THEN At(chain, IF last THEN i + 2 ELSE i + 1)
                        ELSE At(chain, i),
              sound |-> i + 2 < SlotsPerBlock]

\* The loop of openNonRootDirectory: long entries take two slots, and what is
\* not the last slot is compared by its name, free or not.
LookIn(c, n) ==
    LET chain == Chain(c)
        scan[i \in 0 .. Ends(chain)] ==
            IF i = Ends(chain) THEN Outside
            ELSE IF At(chain, i).ord = "end" THEN NotFound
            ELSE IF At(chain, i).name = n THEN Found(c, i)
            ELSE scan[IF At(chain, i).long /\ (i + 1) % SlotsPerBlock # 0
                      THEN i + 2 ELSE i + 1]
    IN  scan[0]

RootFile == [Result("yes") EXCEPT !.entry = ShortSlot(TRUE, Root)]

\* pfs_fat32_open: NotFound is NULL.
Open(path) ==
    FoldLeft(LAMBDA f, n : IF f.found = "yes" THEN LookIn(f.entry.first, n) ELSE f,
             RootFile, path)

\* A faulty Listing: a free slot is taken for the last one.
ListingToFree(c) ==
    LET read[i \in 0 .. SlotsPerBlock + 1] ==
            IF i >= SlotsPerBlock THEN [end |-> FALSE, names |-> <<>>]
            ELSE IF IsFree(slots[c][i]) THEN [end |-> TRUE, names |-> <<>>]
            ELSE IF slots[c][i].long
                 THEN [read[i + 2] EXCEPT !.names = <<slots[c][i].name>> \o @]
            ELSE [read[i + 1] EXCEPT !.names = <<None>> \o @]
    IN  read[0]

\* pfs_fuse_readdir over readDirectory: the names before the last slot.  One
\* that does not come in the first block sends the reading astray.
Listing(c) ==
    LET read[i \in 0 .. SlotsPerBlock + 1] ==
            IF i >= SlotsPerBlock THEN [end |-> FALSE, names |-> <<>>]
            ELSE LET s == slots[c][i] IN
                 IF s.ord = "free" THEN read[i + 1]
                 ELSE IF s.long THEN [read[i + 2] EXCEPT !.names = <<s.name>> \o @]
                 ELSE IF s.ord = "end" THEN [end |-> TRUE, names |-> <<>>]
                 ELSE [read[i + 1] EXCEPT !.names = <<None>> \o @]
    IN  read[0]

\* A faulty IsEmpty: a free slot is taken for the last one.
IsEmptyAtFree(c) ==
    CASE slots[c][2].ord \in {"free", "end"} -> "yes" [] slots[c][2].ord = "used" -> "no"

\* pfs_fat32_isDirectoryEmpty: the first slot after . and .. that is not free.
IsEmpty(c) ==
    LET scan[i \in 0 .. SlotsPerBlock + 1] ==
            IF i >= SlotsPerBlock THEN "outside"
            ELSE CASE slots[c][i].ord = "free" -> scan[IF slots[c][i].long THEN i + 2 ELSE i + 1]
                   [] slots[c][i].ord = "end" -> "yes"
                   [] slots[c][i].ord = "used" -> "no"
    IN  scan[2]

\* The search of mknod, mkdir and moveFile for two free slots in a row, from a
\* slot of a chain on: the place of the first, or none when it leaves the
\* block, or the chain.
NoPlace == 2 * SlotsPerBlock
FreePair(chain, from) ==
    LET place[i \in 0 .. Ends(chain)] ==
            IF i = Ends(chain) THEN NoPlace
            ELSE IF ~ IsFree(At(chain, i)) THEN place[i + 1]
            ELSE IF (i + 1) % SlotsPerBlock = 0 THEN NoPlace
            ELSE IF IsFree(At(chain, i + 1)) THEN i
            ELSE IF (i + 2) % SlotsPerBlock = 0 THEN NoPlace ELSE place[i + 2]
    IN  place[from]

WithPair(block, i, long, short) == [block EXCEPT ![i] = long, ![i + 1] = short]

\* pfs_fat32_unlink_dirEntry on a copy of a block: the slots are the last of
\* the directory when the one that follows is.  The rest of an erased slot is
\* copied from beyond the variable that holds its first byte.
Follows(c, i) ==
    LET k == IF slots[c][i].long THEN i + 2 ELSE i + 1
        limit == IF slots[c][i].long THEN SlotsPerBlock ELSE SlotsPerSector
    IN  IF k < limit THEN slots[c][k]
        ELSE IF NextCluster(c) = Eoc THEN None ELSE slots[NextCluster(c)][0]

\* A faulty Erased: the slots always become the last of the directory.
ErasedToEnd(c, i, garbage) ==
    IF slots[c][i].long THEN WithPair(slots[c], i, EndSlot, EndSlot)
    ELSE [slots[c] EXCEPT ![i] = EndSlot]

Erased(c, i, garbage) ==
    LET slot == [EndSlot EXCEPT !.long = garbage,
                    !.ord = IF Follows(c, i).ord = "end" THEN "end" ELSE "free"]
    IN  IF slots[c][i].long THEN WithPair(slots[c], i, slot, slot)
        ELSE [slots[c] EXCEPT ![i] = slot]

-----------------------------------------------------------------------------
\* A thread: its operation, the paths it names, its FatFile; the block it
\* writes and its copy; the cluster of a new directory; whether it writes by a
\* FatFile that is not where its entry is; whether the name is put elsewhere.
Rest == [pc |-> "idle", op |-> "none", path |-> None, to |-> None, file |-> NotFound,
         handle |-> None, block |-> 0, buf |-> [i \in Offset |-> EndSlot], new |-> 0,
         blind |-> FALSE, astray |-> FALSE]

Closed == [path |-> None, file |-> NotFound, stale |-> FALSE]
Nothing == [kind |-> "none", size |-> 0]
Below(p) == { q \in Path : q = p \/ Front(q) = p }

Init ==
    /\ \E r \in MountedRoots :
          /\ rootNext = IF r.clusters = 2 THEN Second ELSE Eoc
          /\ slots = [c \in Cluster |-> [i \in Offset |->
                 IF c # Root \/ i >= r.label + 2 * r.pairs THEN EndSlot
                 ELSE IF i < r.label THEN ShortSlot(FALSE, 0)
                 ELSE IF (i - r.label) % 2 = 0 THEN LongSlot(Other) ELSE ShortSlot(FALSE, 0)]]
    /\ nextFree = 4
    /\ taken = {}
    /\ handle = [h \in Handle |-> Closed]
    /\ th = [t \in Thread |-> Rest]
    /\ asked = 0
    /\ crashes = 0
    /\ tree = [p \in Path |-> Nothing]
    /\ spoiled = {}
    /\ uncertain = {}

\* What the kernel and libfuse keep apart: the directories an operation
\* changes, the paths it makes, moves or removes, those it needs in place.
Paths(w) == {w.path, w.to} \ {None}
Directories(w) == IF w.op = "record" THEN {} ELSE { Front(p) : p \in Paths(w) }
Moves(w) == IF w.op = "record" THEN {} ELSE Paths(w)
Pins(w) == Paths(w) \cup { Front(p) : p \in Paths(w) }
Conflict(v, w) ==
    \/ Directories(v) \cap Directories(w) # {}
    \/ Moves(v) \cap (Pins(w) \cup Directories(w)) # {}
    \/ Moves(w) \cap (Pins(v) \cup Directories(v)) # {}
    \/ v.op = "record" /\ w.op = "record" /\ v.path = w.path

Starts(t, w) ==
    /\ th[t].pc = "idle"
    /\ \A u \in Thread : th[u].pc # "idle" => ~ Conflict(th[u], w)

IsDirectory(p) == Open(p).found = "yes" /\ Open(p).entry.dir

Goes(t, w) == th' = [th EXCEPT ![t] = w]
Strays(t, w) == Goes(t, [Rest EXCEPT !.pc = "outside", !.op = w.op, !.path = w.path, !.to = w.to])
Puts(t, w, block, buf) == Goes(t, [w EXCEPT !.pc = "put", !.block = block, !.buf = buf])

-----------------------------------------------------------------------------
\* mknod and mkdir.  mkdir takes a cluster first: nextFree, and the table tells
\* the next one.  That one is left is a bound of this module: the code goes on
\* past the end of the table of a full volume (FatAlloc).
AssignCluster ==
    /\ nextFree < Eoc - 1
    /\ taken' = taken \cup {nextFree}
    /\ \E c \in nextFree + 1 .. Eoc - 1 :
          /\ c \notin taken /\ \A d \in nextFree + 1 .. c - 1 : d \in taken
          /\ nextFree' = c

Create(t, p, op, dir) ==
    LET w == [Rest EXCEPT !.op = op, !.path = p, !.new = IF dir THEN nextFree ELSE 0,
                          !.blind = dir /\ nextFree \in taken]
        chain == Chain(Open(Front(p)).entry.first)
        i == FreePair(chain, 0)
        block == chain[i \div SlotsPerBlock + 1]
    IN  /\ Starts(t, w)
        /\ IsDirectory(Front(p))
        /\ \/ /\ Open(p).found = "outside"
              /\ Strays(t, w)
              /\ UNCHANGED <<nextFree, taken>>
           \/ /\ Open(p).found = "no"
              /\ IF dir THEN AssignCluster ELSE UNCHANGED <<nextFree, taken>>
              /\ IF i = NoPlace THEN Strays(t, w)
                 ELSE Puts(t, w, block, WithPair(slots[block], i % SlotsPerBlock,
                                                 LongSlot(Last(p)), ShortSlot(dir, w.new)))
        /\ UNCHANGED <<slots, rootNext, handle, crashes, ghosts>>

Mknod(t, p) == Create(t, p, "mknod", FALSE)
Mkdir(t, p) == Len(p) = 1 /\ Create(t, p, "mkdir", TRUE)

\* unlink and rmdir erase the pair; what is freed then is of FatAlloc.
Erase(t, w) ==
    IF Follows(w.file.source, w.file.offset) = None THEN Strays(t, w)
    ELSE \E garbage \in BOOLEAN :
            Puts(t, w, w.file.source, Erased(w.file.source, w.file.offset, garbage))

Unlink(t, p) ==
    LET f == Open(p)
        w == [Rest EXCEPT !.op = "unlink", !.path = p, !.file = f, !.blind = ~ f.sound]
    IN  /\ Starts(t, w)
        /\ \A h \in Handle : handle[h].path # p
        /\ f.found = "outside" \/ (f.found = "yes" /\ ~ f.entry.dir)
        /\ IF f.found = "yes" THEN Erase(t, w) ELSE Strays(t, w)
        /\ UNCHANGED <<slots, rootNext, nextFree, taken, handle, crashes, ghosts>>

Rmdir(t, p) ==
    LET f == Open(p)
        w == [Rest EXCEPT !.op = "rmdir", !.path = p, !.file = f, !.blind = ~ f.sound]
    IN  /\ Starts(t, w)
        /\ IsDirectory(p)
        /\ IsEmpty(f.entry.first) # "no"
        /\ IF IsEmpty(f.entry.first) = "yes" THEN Erase(t, w) ELSE Strays(t, w)
        /\ UNCHANGED <<slots, rootNext, nextFree, taken, handle, crashes, ghosts>>

-----------------------------------------------------------------------------
\* rename: within a directory the pair is written over.
Rename(t, p, q) ==
    LET f == Open(p)
        w == [Rest EXCEPT !.op = "rename", !.path = p, !.to = q, !.file = f,
                          !.blind = ~ f.sound]
    IN  /\ p # q /\ Front(p) = Front(q)
        /\ Starts(t, w)
        /\ Open(q).found # "yes" /\ f.found # "no"
        /\ IF Open(q).found = "outside" \/ f.found = "outside" THEN Strays(t, w)
           ELSE Puts(t, w, f.source,
                     WithPair(slots[f.source], f.offset, LongSlot(Last(q)), f.entry))
        /\ UNCHANGED <<slots, rootNext, nextFree, taken, handle, crashes, ghosts>>

\* To another directory (moveFile): the pair is put in a free place of the block
\* nextCluster names, which for the root is not its first.  Beyond the first
\* sector the long entry is lost, and the short one written after the old
\* directory's block.
MoveBlock(q) ==
    IF Len(q) > 1 THEN Open(Front(q)).entry.first ELSE IF rootNext = Eoc THEN 0 ELSE rootNext

Move(t, p, q) ==
    LET f == Open(p)
        i == FreePair(<<MoveBlock(q)>>, 2)
        lost == i + 1 >= SlotsPerSector
        astray == lost \/ Len(q) = 1
        w == [Rest EXCEPT !.op = "move", !.path = p, !.to = q, !.file = f,
                          !.blind = ~ f.sound \/ DirectoryOf(f.source) \in spoiled \/ astray,
                          !.astray = astray]
        next == NextCluster(f.source)
    IN  /\ Front(p) # Front(q)
        /\ Starts(t, w)
        /\ IsDirectory(Front(q))
        /\ f.found = "yes" => ~ f.entry.dir
        /\ Open(q).found # "yes" /\ f.found # "no"
        /\ IF \/ Open(q).found = "outside" \/ f.found = "outside" \/ i = NoPlace
              \/ lost /\ next = Eoc
           THEN Strays(t, w)
           ELSE IF lost THEN Puts(t, w, next, [slots[next] EXCEPT ![0] = f.entry])
           ELSE Puts(t, w, MoveBlock(q), WithPair(slots[MoveBlock(q)], i,
                                                  LongSlot(Last(q)), f.entry))
        /\ UNCHANGED <<slots, rootNext, nextFree, taken, handle, crashes, ghosts>>

-----------------------------------------------------------------------------
\* Files that are open, and the size in their entry: extendFileWrite and
\* updateFilesize write the entry of the handle, truncate that of the path.
OpenFile(h, p) ==
    /\ handle[h] = Closed
    /\ \A i \in Handle : handle[i].path # p
    /\ \A u \in Thread : th[u].pc # "idle" => p \notin Moves(th[u]) /\ Front(p) \notin Moves(th[u])
    /\ Open(p).found = "yes" /\ ~ Open(p).entry.dir
    /\ handle' = [handle EXCEPT ![h] = [path |-> p, file |-> Open(p), stale |-> FALSE]]
    /\ UNCHANGED <<slots, rootNext, nextFree, taken, th, crashes, ghosts>>

Release(h) ==
    /\ handle[h] # Closed
    /\ \A u \in Thread : th[u].handle # h
    /\ handle' = [handle EXCEPT ![h] = Closed]
    /\ UNCHANGED <<slots, rootNext, nextFree, taken, th, crashes, ghosts>>

PutsEntry(t, w) ==
    Puts(t, w, w.file.source, [slots[w.file.source] EXCEPT ![w.file.offset + 1] = w.file.entry])

\* A faulty Write: the size counts the byte after the last one.
WriteOneMore(t, h, size) ==
    LET f == [handle[h].file EXCEPT !.entry.size = size + 1]
        w == [Rest EXCEPT !.op = "record", !.path = handle[h].path, !.handle = h, !.file = f,
                          !.blind = ~ f.sound \/ handle[h].stale]
    IN  /\ handle[h].path # None
        /\ handle[h].file.entry.size < size
        /\ Starts(t, w)
        /\ PutsEntry(t, w)
        /\ handle' = [handle EXCEPT ![h].file = f]
        /\ UNCHANGED <<slots, rootNext, nextFree, taken, crashes, ghosts>>

Write(t, h, size) ==
    LET f == [handle[h].file EXCEPT !.entry.size = size]
        w == [Rest EXCEPT !.op = "record", !.path = handle[h].path, !.handle = h, !.file = f,
                          !.blind = ~ f.sound \/ handle[h].stale]
    IN  /\ handle[h].path # None
        /\ handle[h].file.entry.size < size
        /\ Starts(t, w)
        /\ PutsEntry(t, w)
        /\ handle' = [handle EXCEPT ![h].file = f]
        /\ UNCHANGED <<slots, rootNext, nextFree, taken, crashes, ghosts>>

Truncate(t, p, size) ==
    LET f == [Open(p) EXCEPT !.entry.size = size]
        w == [Rest EXCEPT !.op = "record", !.path = p, !.file = f, !.blind = ~ f.sound]
    IN  /\ Starts(t, w)
        /\ f.found = "yes" /\ ~ f.entry.dir
        /\ PutsEntry(t, w)
        /\ UNCHANGED <<slots, rootNext, nextFree, taken, handle, crashes, ghosts>>

-----------------------------------------------------------------------------
\* What may be said of a directory: no block of it was written over a change
\* of another thread, by a FatFile that is elsewhere, beyond its last slot, or
\* by mkdir on a cluster in use; and no operation on it was cut short.
Intact(d) ==
    /\ Root \notin spoiled
    /\ d \notin uncertain
    /\ Open(d).found = "yes" /\ Open(d).sound
    /\ Open(d).entry.first \notin spoiled

\* What is said of the paths once an operation is answered.
From(w, q) == w.path \o SubSeq(q, Len(w.to) + 1, Len(q))
To(w, q) == w.to \o SubSeq(q, Len(w.path) + 1, Len(q))
IsRename(w) == w.op \in {"rename", "move", "moved"}

TreeAfter(w) ==
    [q \in Path |->
        IF IsRename(w) /\ q \in Below(w.to)
        THEN IF From(w, q) \in Path THEN tree[From(w, q)] ELSE Nothing
        ELSE IF q \notin Below(w.path) THEN tree[q]
        ELSE IF q # w.path \/ IsRename(w) \/ w.op \in {"unlink", "rmdir"} THEN Nothing
        ELSE CASE w.op = "mknod" -> [kind |-> "file", size |-> 0]
               [] w.op = "mkdir" -> [kind |-> "dir", size |-> 0]
               [] w.op = "record" -> [kind |-> "file", size |-> w.file.entry.size]]

UncertainAfter(w) ==
    IF IsRename(w)
    THEN { q \in Path : IF q \in Below(w.to)
                        THEN \/ w.astray \/ ~ Intact(Front(w.path))
                             \/ From(w, q) \in uncertain
                        ELSE q \in uncertain \ Below(w.path) }
    ELSE IF w.op # "record" THEN uncertain \ Below(w.path)
    ELSE IF w.handle # None /\ handle[w.handle].stale THEN uncertain \cup {w.path}
    ELSE uncertain

\* The kernel knows an open file by the path it has now; its FatFile is stale
\* when the entry was put in another directory, or lost with its directory.
HandlesAfter(w) ==
    [h \in Handle |->
        IF IsRename(w) /\ handle[h].path \in Below(w.path)
        THEN [handle[h] EXCEPT !.path = IF To(w, @) \in Path THEN To(w, @) ELSE None,
                               !.stale = @ \/ Front(w.to) # Front(w.path)]
        ELSE IF w.op = "rmdir" /\ handle[h].path \in Below(w.path)
        THEN [handle[h] EXCEPT !.stale = TRUE]
        ELSE handle[h]]

Answers(t) ==
    LET w == th[t]
    IN  /\ tree' = TreeAfter(w)
        /\ uncertain' = UncertainAfter(w)
        /\ handle' = HandlesAfter(w)
        /\ taken' = IF w.op = "rmdir" THEN taken \ {w.file.entry.first} ELSE taken
        /\ Goes(t, Rest)

\* A block is written: over the change of another thread, when that one has
\* written it since, which is known when the first of them does.
Put(t) ==
    LET w == th[t]
        clash == \E u \in Thread \ {t} : th[u].pc = "put" /\ th[u].block = w.block
    IN  /\ w.pc = "put"
        /\ slots' = [slots EXCEPT ![w.block] = w.buf]
        /\ spoiled' = spoiled
               \cup (IF w.op = "mkdir" /\ w.blind THEN {w.new} ELSE {})
               \cup (IF clash \/ (w.op # "mkdir" /\ w.blind) THEN {DirectoryOf(w.block)} ELSE {})
        /\ \/ /\ w.op = "mkdir"
              /\ Goes(t, [w EXCEPT !.pc = "dots"])
              /\ UNCHANGED <<taken, handle, tree, uncertain>>
           \/ /\ w.op = "move"
              /\ Goes(t, [w EXCEPT !.pc = "erase"])
              /\ UNCHANGED <<taken, handle, tree, uncertain>>
           \/ /\ w.op \notin {"mkdir", "move"}
              /\ Answers(t)
        /\ UNCHANGED <<rootNext, nextFree, crashes>>

\* mkdir ends with the entries . and .. of the new directory.
PutDots(t) ==
    LET w == th[t]
        parent == Open(Front(w.path)).entry.first
    IN  /\ w.pc = "dots"
        /\ slots' = [slots EXCEPT ![w.new][0] = ShortSlot(TRUE, w.new),
                                  ![w.new][1] = ShortSlot(TRUE, IF parent = Root THEN 0
                                                                ELSE parent)]
        /\ Answers(t)
        /\ UNCHANGED <<rootNext, nextFree, crashes, spoiled>>

\* moveFile ends with the erasure of the old pair.
EraseOld(t) ==
    /\ th[t].pc = "erase"
    /\ Erase(t, [th[t] EXCEPT !.op = "moved", !.blind = ~ th[t].file.sound])
    /\ UNCHANGED <<slots, rootNext, nextFree, taken, handle, crashes, ghosts>>

\* The client is killed and mounts the volume again: the hint of FSInfo is the
\* one of the first mount.  What was being done is done in part.
Crash ==
    /\ crashes < MaxCrashes
    /\ crashes' = crashes + 1
    /\ th' = [t \in Thread |-> Rest]
    /\ handle' = [h \in Handle |-> Closed]
    /\ nextFree' = 4
    /\ uncertain' = uncertain \cup
           UNION { UNION { Below(p) : p \in Paths(th[t]) } : t \in Thread }
    /\ UNCHANGED <<slots, rootNext, taken, tree, spoiled>>

-----------------------------------------------------------------------------
Asks(t) ==
    \/ \E p \in Asked : Mknod(t, p) \/ Mkdir(t, p) \/ Unlink(t, p) \/ Rmdir(t, p)
    \/ \E p \in Asked, q \in Asked : Rename(t, p, q) \/ Move(t, p, q)
    \/ \E h \in Handle, size \in 1 .. MaxSize : Write(t, h, size)
    \/ \E p \in Asked, size \in 0 .. MaxSize : Truncate(t, p, size)

Works(t) == Put(t) \/ PutDots(t) \/ EraseOld(t)

Next ==
    \/ /\ asked < MaxAsked /\ asked' = asked + 1
       /\ \E t \in Thread : Asks(t)
    \/ /\ UNCHANGED asked
       /\ \/ \E t \in Thread : Works(t)
          \/ \E h \in Handle : Release(h) \/ \E p \in Asked : OpenFile(h, p)
          \/ Crash

Spec == Init /\ [][Next]_vars
-----------------------------------------------------------------------------
Block == [Offset -> Slot]

ThreadState ==
    [pc : {"idle", "put", "dots", "erase", "outside"},
     op : {"none", "mknod", "mkdir", "unlink", "rmdir", "rename", "move", "moved", "record"},
     path : Path \cup {None}, to : Path \cup {None}, file : FatFile,
     handle : Handle \cup {None}, block : Cluster, buf : Block, new : Cluster,
     blind : BOOLEAN, astray : BOOLEAN]

\* The state of the directories: every entry names a cluster they may have, and
\* no size beyond the largest that was written or set (extendFileWrite).
TypeOK ==
    /\ slots \in [Cluster -> Block]
    /\ rootNext \in {Second, Eoc}
    /\ nextFree \in 4 .. Eoc - 1
    /\ taken \subseteq Cluster
    /\ handle \in [Handle -> [path : Path \cup {None}, file : FatFile, stale : BOOLEAN]]
    /\ th \in [Thread -> ThreadState]
    /\ asked \in 0 .. MaxAsked
    /\ crashes \in 0 .. MaxCrashes
    /\ tree \in [Path -> [kind : {"none", "file", "dir"}, size : 0 .. MaxSize]]
    /\ spoiled \subseteq Cluster
    /\ uncertain \subseteq Path

\* What may be said of a path: its directory is intact, and no operation on it
\* is under way, was cut short or put it elsewhere.
Settled(p) == \A t \in Thread : p \notin UNION { Below(q) : q \in Paths(th[t]) }

Known(p) == Intact(Front(p)) /\ p \notin uncertain /\ Settled(p)

\* The last pair of a directory, whose short entry is looked for elsewhere.
AtTheEnd(p) ==
    LET chain == Chain(Open(Front(p)).entry.first)
    IN  At(chain, Ends(chain) - 2).name = Last(p)

\* open finds what was created, with the kind and the size last recorded, and
\* nothing that was removed or renamed, whatever the threads do to the other
\* names of its directory (the pairs of mknod, mkdir, rename and unlink do not
\* overlap, and none of them cuts the directory short).
NamesAreFound ==
    \A p \in Path : Known(p) =>
        LET f == Open(p)
        IN  IF tree[p].kind = "none" THEN f.found # "yes"
            ELSE \/ AtTheEnd(p)
                 \/ /\ f.found = "yes"
                    /\ f.sound => /\ f.entry.dir = (tree[p].kind = "dir")
                                  /\ f.entry.size = tree[p].size

\* readdir gives every name of a directory once, and no other, as long as its
\* first block has a last slot (readDirectory against the pairs and the free
\* slots that the other operations leave).
NamesAreListed ==
    \A d \in {<<>>} \cup { <<n>> : n \in Name } :
        LET names == Listing(Open(d).entry.first).names
        IN  (IsDirectory(d) /\ Intact(d) /\ Listing(Open(d).entry.first).end)
            => \A n \in Name : (d \o <<n>> \in Path /\ Known(d \o <<n>>)) =>
                  Cardinality({ i \in DOMAIN names : names[i] = n })
                      = IF tree[d \o <<n>>].kind = "none" THEN 0 ELSE 1

\* A directory is removed only when no name is left in it, although the slots
\* of removed names stay in it (isDirectoryEmpty, unlink_dirEntry).
RemovedDirectoriesAreEmpty ==
    [][\A t \in Thread : (th[t].op = "rmdir" /\ th'[t].op = "none" /\ crashes' = crashes) =>
          \A q \in Below(th[t].path) \ {th[t].path} :
             (Intact(th[t].path) /\ q \notin uncertain) => tree[q].kind = "none"]_vars
=============================================================================
