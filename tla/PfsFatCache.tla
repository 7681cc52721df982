----------------------------- MODULE PfsFatCache -----------------------------
(***************************************************************************)
(* The cache of the sectors of the file allocation table that all threads   *)
(* of the client share (grage-pfs): pfs-cache.c and the cached get and put  *)
(* of pfs-endpoint.c over a list of linux-commons-list.c.  The list has a   *)
(* mutex for each insertion and each removal; nothing holds it from one to  *)
(* the next, and nothing holds it while a node is read or written.          *)
(* A sector stands for the set of the changes made to it, so a copy that    *)
(* lacks a change and is written over one that has it loses the change.     *)
(* A thread finds a node in one step and uses it in a later one: in between *)
(* another may take it off the list and free it.                            *)
(* A thread that changes an entry gets its sector, changes the copy and     *)
(* puts it; fatLock, which only the allocator takes, is left out (FatAlloc).*)
(* External: the disk serves a request when it arrives (PpdPlanifier has    *)
(* the order of the disk).  A copy of a sector in memory is one step, and   *)
(* so is a search of the list.                                              *)
(***************************************************************************)
EXTENDS Naturals, Sequences, SequencesExt

CONSTANTS
    Thread,         \* the threads of FUSE
    Sector,         \* sectors of the table
    None,           \* no sector, no node
    MaxCount,       \* cacheSectorsFatMaxCount, a fifth of the table
    MaxUpdates,     \* bound: changes made to the table
    MaxReads,       \* bound: entries only read
    MaxFlushes      \* bound: files closed

ASSUME CacheAssumption ==
    /\ None \notin Sector
    /\ MaxCount \in Nat \ {0}
    /\ MaxUpdates \in Nat /\ MaxReads \in Nat /\ MaxFlushes \in Nat

Update == 1 .. MaxUpdates
Content == SUBSET Update

VARIABLES
    disk,        \* what the disk has in each sector
    list,        \* listaCacheFat, from its first node
    th,          \* where each thread stands, with its local variables
    updates,     \* changes begun
    reads,       \* reads begun
    flushes,     \* flushes begun
    done,        \* ghost: the changes that were put in each sector
    exposed,     \* ghost: sectors of which an old copy may be written
    unmarked     \* ghost: sectors put in a node that is not marked for flush

counters == <<updates, reads, flushes>>
ghosts == <<done, exposed, unmarked>>
vars == <<disk, list, th, counters, ghosts>>

-----------------------------------------------------------------------------
\* CacheSectorRecord.  Nodes have identities: a pointer to one is kept across
\* steps in which others may free it.  A get makes one at most, and so does a put.
NodeId == 1 .. 2 * MaxUpdates + MaxReads
Node == [id : NodeId, sector : Sector, content : Content, modificado : BOOLEAN]

IndexOf(s) == SelectInSeq(list, LAMBDA n : n.sector = s)
Cached(s) == IndexOf(s) # 0
IsLive(id) == \E i \in DOMAIN list : list[i].id = id

NodeOf(id) == list[SelectInSeq(list, LAMBDA n : n.id = id)]

\* What a get of a sector gives: the first node of the list that has it.
Visible(s) == IF Cached(s) THEN list[IndexOf(s)].content ELSE disk[s]

\* A thread: its operation and sector, the copy it holds of it, whether it gets
\* or puts it; the number of its read, or of its change; the node it found, the
\* copy of that node on its way to the disk; what is left of a flush.
Rest == [pc |-> "idle", op |-> "none", sector |-> None, copy |-> {}, number |-> 0,
         node |-> None, out |-> None, outCopy |-> {}, left |-> <<>>,
         before |-> [s \in Sector |-> {}]]

Init ==
    /\ disk = [s \in Sector |-> {}]
    /\ list = <<>>
    /\ th = [t \in Thread |-> Rest]
    /\ updates = 0 /\ reads = 0 /\ flushes = 0
    /\ done = [s \in Sector |-> {}]
    /\ exposed = {}
    /\ unmarked = {}

Goes(t, w) == th' = [th EXCEPT ![t] = w]

\* A copy of a sector that a thread has, or asked the disk for, and may still
\* write: to a node, in a new node, or to the disk.
Carries(w, s) == (w.sector = s /\ w.pc # "found") \/ w.out = s

ExposedBy(t, s) ==
    IF \E u \in Thread \ {t} : Carries(th[u], s) THEN {s} ELSE {}

\* A node is written over by a pointer to it.  The memory of one that was freed
\* is that of no node of the list, or of one that was made since.
LandsOn(id) == IF IsLive(id) THEN {id} ELSE {id} \cup {n.id : n \in ToSet(list)}

\* The sectors of the nodes that such a write spoils.
Spoils(pointer, id) ==
    IF id # pointer /\ IsLive(id) THEN {NodeOf(id).sector} ELSE {}

-----------------------------------------------------------------------------
\* pfs_endpoint_callCachedGetSector.  An update goes on to hold the copy.
Got(t, w) ==
    Goes(t, IF w.op = "update" THEN [w EXCEPT !.pc = "holds"] ELSE Rest)

Get(t, op, s) ==
    LET w == [Rest EXCEPT !.op = op, !.sector = s]
    IN  /\ th[t].pc = "idle"
        /\ \/ op = "update" /\ updates < MaxUpdates /\ updates' = updates + 1
              /\ UNCHANGED <<reads, flushes>>
           \/ op = "read" /\ reads < MaxReads /\ reads' = reads + 1
              /\ UNCHANGED <<updates, flushes>>
        /\ LET v == [w EXCEPT !.number = IF op = "update" THEN updates' ELSE reads']
           IN  Goes(t, IF Cached(s) THEN [v EXCEPT !.pc = "found", !.node = list[IndexOf(s)].id]
                       ELSE [v EXCEPT !.pc = "fetch"])
        /\ UNCHANGED <<disk, list, ghosts>>

\* pfs_endpoint_buildDiskSectorFromCacheCluster, of the node that was found.  Of
\* one that was freed, what its memory says, a change then goes where that says;
\* or it says no sector, and the disk is asked.
Copy(t) ==
    LET w == [th[t] EXCEPT !.node = None]
        id == th[t].node
    IN  /\ th[t].pc = "found"
        /\ \/ /\ IsLive(id)
              /\ Got(t, [w EXCEPT !.copy = NodeOf(id).content])
              /\ exposed' = exposed
           \/ /\ ~ IsLive(id)
              /\ \E s \in Sector : /\ Got(t, [w EXCEPT !.sector = s])
                                   /\ exposed' = exposed \cup {s}
           \/ /\ ~ IsLive(id)
              /\ Goes(t, [w EXCEPT !.pc = "fetch"])
              /\ exposed' = exposed \cup (IF Cached(w.sector) THEN {w.sector} ELSE {})
        /\ UNCHANGED <<disk, list, counters, done, unmarked>>

Fetch(t) ==
    LET w == th[t]
    IN  /\ w.pc = "fetch"
        /\ Goes(t, [w EXCEPT !.pc = "refill", !.copy = disk[w.sector]])
        /\ UNCHANGED <<disk, list, counters, ghosts>>

\* pfs_endpoint_utils_putInCache: the node of the sector is to be written over,
\* or a new one is made.
Search(t, w) ==
    Goes(t, IF Cached(w.sector)
            THEN [w EXCEPT !.pc = "over", !.node = list[IndexOf(w.sector)].id]
            ELSE [w EXCEPT !.pc = "insert"])

\* What was fetched goes in the cache too: over a node made since.
Refill(t) ==
    /\ th[t].pc = "refill"
    /\ Search(t, th[t])
    /\ UNCHANGED <<disk, list, counters, ghosts>>

\* pfs_endpoint_callCachedPutSector, of the copy with the change.
Put(t) ==
    /\ th[t].pc = "holds"
    /\ Search(t, [th[t] EXCEPT !.copy = @ \cup {th[t].number}, !.op = "put"])
    /\ UNCHANGED <<disk, list, counters, ghosts>>

\* A faulty Written: the node is not marked for flush.
WrittenUnmarked(id, content) ==
    [i \in DOMAIN list |->
        IF list[i].id = id THEN [list[i] EXCEPT !.content = content] ELSE list[i]]

Written(id, content) ==
    [i \in DOMAIN list |->
        IF list[i].id = id THEN [list[i] EXCEPT !.content = content, !.modificado = TRUE]
        ELSE list[i]]

\* The node that was found is written over and marked.  A change put in one that
\* was freed is lost, and what was fetched is not.
Overwrite(t) ==
    LET w == th[t]
    IN  /\ w.pc = "over"
        /\ \E id \in LandsOn(w.node) :
              /\ list' = Written(id, w.copy)
              /\ exposed' = exposed \cup Spoils(w.node, id) \cup
                    (CASE w.op = "put" /\ IsLive(w.node) -> ExposedBy(t, w.sector)
                       [] w.op = "put" /\ ~ IsLive(w.node) -> {w.sector}
                       [] w.op # "put" /\ IsLive(w.node) ->
                             IF w.copy = NodeOf(w.node).content THEN {} ELSE {w.sector}
                       [] OTHER -> {})
        /\ IF w.op = "put"
           THEN /\ done' = [done EXCEPT ![w.sector] = @ \cup {w.number}]
                /\ unmarked' = unmarked \ {w.sector}
                /\ Goes(t, Rest)
           ELSE /\ Got(t, [w EXCEPT !.node = None])
                /\ UNCHANGED <<done, unmarked>>
        /\ UNCHANGED <<disk, counters>>

-----------------------------------------------------------------------------
\* A faulty Insert: a node that is not marked leaves without being written.
InsertOverUnmarked(t) ==
    LET w == th[t]
    IN  /\ w.pc = "insert"
        /\ Goes(t, IF Len(list) >= MaxCount
                   THEN [w EXCEPT !.pc = IF list[1].modificado THEN "chosen" ELSE "remove",
                                  !.node = list[1].id, !.out = list[1].sector]
                   ELSE [w EXCEPT !.pc = "add"])
        /\ UNCHANGED <<disk, list, counters, ghosts>>

\* pfs_cache_put_sectors.  The node that leaves is the first, the last one that
\* came: no state is less than 0.  It is written whether it was changed or not.
Insert(t) ==
    LET w == th[t]
    IN  /\ w.pc = "insert"
        /\ Goes(t, IF Len(list) >= MaxCount THEN [w EXCEPT !.pc = "chosen", !.node = list[1].id]
                   ELSE [w EXCEPT !.pc = "add"])
        /\ UNCHANGED <<disk, list, counters, ghosts>>

\* The node that leaves, or that a flush writes, is copied for the call: of one
\* that was freed, what its memory says.
CopyOut(t) ==
    LET w == th[t]
        v == [w EXCEPT !.pc = "write"]
    IN  /\ w.pc = "chosen"
        /\ \/ /\ IsLive(w.node)
              /\ LET n == NodeOf(w.node)
                 IN  Goes(t, [v EXCEPT !.out = n.sector, !.outCopy = n.content])
              /\ exposed' = exposed
           \/ /\ ~ IsLive(w.node)
              /\ \E s \in Sector : /\ Goes(t, [v EXCEPT !.out = s])
                                   /\ exposed' = exposed \cup {s}
        /\ UNCHANGED <<disk, list, counters, done, unmarked>>

\* pfs_endpoint_callPutSector.
Write(t) ==
    LET w == th[t]
    IN  /\ w.pc = "write"
        /\ disk' = [disk EXCEPT ![w.out] = w.outCopy]
        /\ Goes(t, [w EXCEPT !.pc = IF w.op = "flush" THEN "mark" ELSE "remove"])
        /\ UNCHANGED <<list, counters, ghosts>>

\* commons_list_removeNode takes the first node with the sector of the victim;
\* of a victim that was freed meanwhile, whatever its memory says.
RemoveVictim(t) ==
    LET w == th[t]
    IN  /\ w.pc = "remove"
        /\ \/ /\ IsLive(w.node)
              /\ list' = RemoveAt(list, IndexOf(w.out))
              /\ exposed' = exposed
           \/ /\ ~ IsLive(w.node)
              /\ \E i \in DOMAIN list :
                    /\ list' = RemoveAt(list, i)
                    /\ exposed' = exposed \cup {list[i].sector}
           \/ /\ ~ IsLive(w.node)
              /\ UNCHANGED <<list, exposed>>
        /\ Goes(t, [w EXCEPT !.pc = "add", !.out = None, !.outCopy = {}])
        /\ UNCHANGED <<disk, counters, done, unmarked>>

\* A faulty NewId: the node that left is the one that comes (nodo = auxNode, a
\* line that the search for the node that leaves has in a comment).
NewIdOfVictim(w) ==
    CASE w.node # None -> w.node
      [] w.node = None /\ w.op = "update" -> w.number
      [] w.node = None /\ w.op = "put" -> MaxUpdates + w.number
      [] OTHER -> 2 * MaxUpdates + w.number

\* The new node comes first, and is not marked.
NewId(w) == CASE w.op = "update" -> w.number
              [] w.op = "put" -> MaxUpdates + w.number
              [] w.op = "read" -> 2 * MaxUpdates + w.number

Add(t) ==
    LET w == th[t]
        n == [id |-> NewId(w), sector |-> w.sector, content |-> w.copy, modificado |-> FALSE]
    IN  /\ w.pc = "add"
        /\ list' = <<n>> \o list
        /\ exposed' = exposed \cup (IF Cached(w.sector) THEN {w.sector} ELSE {})
                             \cup (IF w.op = "put" THEN ExposedBy(t, w.sector) ELSE {})
        /\ IF w.op = "put"
           THEN /\ done' = [done EXCEPT ![w.sector] = @ \cup {w.number}]
                /\ unmarked' = unmarked \cup {w.sector}
                /\ Goes(t, Rest)
           ELSE /\ Got(t, [w EXCEPT !.node = None])
                /\ UNCHANGED <<done, unmarked>>
        /\ UNCHANGED <<disk, counters>>

-----------------------------------------------------------------------------
\* pfs_fuse_flush: pfs_fat32_fatCacheFlush goes through the list while others
\* insert and remove; the nodes it finds are those of its start.
Flush(t) ==
    /\ th[t].pc = "idle"
    /\ flushes < MaxFlushes /\ flushes' = flushes + 1
    /\ Goes(t, [Rest EXCEPT !.pc = "visit", !.op = "flush",
                            !.left = [i \in DOMAIN list |-> list[i].id],
                            !.before = [s \in Sector |-> IF s \in unmarked THEN {} ELSE done[s]]])
    /\ UNCHANGED <<disk, list, updates, reads, ghosts>>

\* A node that is not marked is left out; one that was freed, either way.
Visit(t) ==
    LET w == th[t]
        id == Head(w.left)
    IN  /\ w.pc = "visit" /\ w.left # <<>>
        /\ \/ /\ IsLive(id) => NodeOf(id).modificado
              /\ Goes(t, [w EXCEPT !.pc = "chosen", !.node = id])
           \/ /\ IsLive(id) => ~ NodeOf(id).modificado
              /\ Goes(t, [w EXCEPT !.left = Tail(@)])
        /\ UNCHANGED <<disk, list, counters, ghosts>>

Unmarked(id) ==
    [i \in DOMAIN list |->
        IF list[i].id = id THEN [list[i] EXCEPT !.modificado = FALSE] ELSE list[i]]

Mark(t) ==
    LET w == th[t]
    IN  /\ w.pc = "mark"
        /\ \E id \in LandsOn(w.node) : /\ list' = Unmarked(id)
                                       /\ exposed' = exposed \cup Spoils(w.node, id)
        /\ Goes(t, [w EXCEPT !.pc = "visit", !.left = Tail(@), !.node = None,
                             !.out = None, !.outCopy = {}])
        /\ UNCHANGED <<disk, counters, done, unmarked>>

FlushEnd(t) ==
    /\ th[t].pc = "visit" /\ th[t].left = <<>>
    /\ Goes(t, Rest)
    /\ UNCHANGED <<disk, list, counters, ghosts>>

-----------------------------------------------------------------------------
Asks(t) ==
    \/ \E s \in Sector, op \in {"read", "update"} : Get(t, op, s)
    \/ Flush(t)

Works(t) ==
    \/ Copy(t) \/ Fetch(t) \/ Refill(t) \/ Put(t) \/ Overwrite(t)
    \/ Insert(t) \/ CopyOut(t) \/ Write(t) \/ RemoveVictim(t) \/ Add(t)
    \/ Visit(t) \/ Mark(t) \/ FlushEnd(t)

Next == \E t \in Thread : Asks(t) \/ Works(t)

Spec == Init /\ [][Next]_vars
-----------------------------------------------------------------------------
ThreadState ==
    [pc : {"idle", "found", "fetch", "refill", "holds", "over", "insert", "chosen", "write",
           "remove", "add", "visit", "mark"},
     op : {"none", "read", "update", "put", "flush"},
     sector : Sector \cup {None}, copy : Content, number : 0 .. MaxUpdates + MaxReads,
     node : NodeId \cup {None}, out : Sector \cup {None}, outCopy : Content,
     left : Seq(NodeId), before : [Sector -> Content]]

\* The state of the cache: the list never has a node twice, whoever inserts and
\* removes (pfs_cache_put_sectors).
TypeOK ==
    /\ disk \in [Sector -> Content]
    /\ list \in Seq(Node)
    /\ \A i, j \in DOMAIN list : list[i].id = list[j].id => i = j
    /\ th \in [Thread -> ThreadState]
    /\ updates \in 0 .. MaxUpdates /\ reads \in 0 .. MaxReads /\ flushes \in 0 .. MaxFlushes
    /\ done \in [Sector -> Content]
    /\ exposed \subseteq Sector
    /\ unmarked \subseteq Sector

\* A get gives every change that was put in its sector, from the cache or from
\* the disk, unless a put met another thread that had a copy of the sector on
\* its way to a node or to the disk, two nodes were made for the sector, or a node
\* was freed between the step that found it and the one that used it: the
\* evictions, the refills and the flushes of other sectors lose nothing.
ChangesAreKept == \A s \in Sector \ exposed : Visible(s) = done[s]

\* "Se bajan a disco los sectores de FAT cacheados" (pfs-fuse.c:163): after a
\* flush the disk has the changes that were put before it, except those of a
\* sector whose node was evicted between its get and its put: the node that
\* the put makes is not marked, and flush leaves it out.
FlushWritesChanges ==
    [][\A t \in Thread :
          (th[t].op = "flush" /\ th'[t].op = "none") =>
             \A s \in Sector \ exposed : th[t].before[s] \subseteq disk[s]]_vars
=============================================================================
