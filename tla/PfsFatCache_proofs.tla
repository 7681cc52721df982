------------------------- MODULE PfsFatCache_proofs -------------------------
(***************************************************************************)
(* The cache of the table, for any number of threads, sectors and nodes: no *)
(* node is in the list twice, evictions, refills and flushes lose no change *)
(* of a sector that is not exposed, and a flush writes what was put before  *)
(* it.  A thread keeps the pointer it found over steps in which others may  *)
(* free its node.                                                           *)
(***************************************************************************)
EXTENDS PfsFatCache, SequenceTheorems, WellFoundedInduction, TLAPS

\* The nodes of the list, in no order.
Nodes == ToSet(list)

\* A thread that gets or puts a sector, one that points to a node, and one with
\* a copy of a node on its way to the disk.
HasSector(w) == w.op \in {"read", "update", "put"}
HasNode(w) == w.pc \in {"found", "over", "chosen", "write", "remove", "mark"}
HasOut(w) == w.pc \in {"write", "remove", "mark"}

Role(w) ==
    /\ HasSector(w) => /\ w.sector \in Sector
                       /\ w.pc \in {"found", "fetch", "refill", "holds", "over", "insert",
                                    "chosen", "write", "remove", "add"}
    /\ w.op = "none" => w.pc = "idle"
    /\ w.op = "flush" => w.pc \in {"visit", "chosen", "write", "mark"}
    /\ w.pc \in {"found", "fetch", "refill"} => w.op # "put"
    /\ w.pc = "holds" => w.op = "update"
    /\ IF HasOut(w) THEN w.out \in Sector ELSE w.out = None
    /\ HasNode(w) => w.node \in NodeId
    /\ w.op = "flush" /\ HasNode(w) => w.left # <<>> /\ w.node = Head(w.left)
    /\ w.op \in {"update", "put"} => w.number \in 1 .. updates
    /\ w.op = "read" => w.number \in 1 .. reads

\* Numbers are of one request each.
Changes(w) == w.op \in {"update", "put"}
Roles ==
    /\ \A t \in Thread : Role(th[t])
    /\ \A t, u \in Thread : th[t].number = th[u].number =>
          \/ t = u
          \/ ~ (Changes(th[t]) /\ Changes(th[u])) /\ ~ (th[t].op = "read" /\ th[u].op = "read")

\* The identities that the list, or a pointer of a thread, still names are
\* those of nodes made before.
Named(id) ==
    \/ \E n \in Nodes : n.id = id
    \/ \E t \in Thread : \/ HasNode(th[t]) /\ th[t].node = id
                         \/ id \in ToSet(th[t].left)
Begun(id) ==
    \/ id \in 1 .. updates
    \/ id \in MaxUpdates + 1 .. MaxUpdates + updates
    \/ id \in 2 * MaxUpdates + 1 .. 2 * MaxUpdates + reads
Makes(w, id) ==
    \/ w.op = "update" /\ w.pc # "holds" /\ id = w.number
    \/ w.op \in {"update", "put"} /\ id = MaxUpdates + w.number
    \/ w.op = "read" /\ id = 2 * MaxUpdates + w.number
Fresh ==
    \A id \in NodeId : Named(id) => Begun(id) /\ \A t \in Thread : ~ Makes(th[t], id)

\* A node that a thread points to is of the sector it gets or puts, or writes.
Points(w, n) ==
    n.id = w.node => /\ w.pc \in {"found", "over"} => n.sector = w.sector
                     /\ HasOut(w) => n.sector = w.out
PointsRight == \A t \in Thread, n \in Nodes : Points(th[t], n)

\* Of a sector that is not exposed every copy has the changes that were put.
CopyRight(w, s) ==
    /\ HasSector(w) /\ w.sector = s =>
          /\ w.pc = "fetch" => disk[s] = done[s]
          /\ w.pc \notin {"found", "fetch"} => w.copy = IF w.op = "put" THEN done[s] \cup {w.number} ELSE done[s]
    /\ w.out = s => w.outCopy = done[s]
    /\ w.out = s /\ w.pc \in {"remove", "mark"} => disk[s] = done[s]
Copies == \A t \in Thread, s \in Sector \ exposed : CopyRight(th[t], s)

\* It has one node at most, and the node or the disk has the changes.
OneNode == \A n, m \in Nodes : n.sector = m.sector => n = m \/ n.sector \in exposed
Held ==
    \A s \in Sector \ exposed :
        /\ \A n \in Nodes : n.sector = s => n.content = done[s]
        /\ disk[s] = done[s] \/ \E n \in Nodes : n.sector = s

\* A node that is not marked has nothing the disk lacks.
Marked ==
    \A s \in Sector \ exposed :
        \A n \in Nodes : n.sector = s => n.modificado \/ s \in unmarked \/ disk[s] = done[s]

\* What a flush still has to write is in a node it has still to visit.
Writes(w, s) ==
    /\ w.before[s] \subseteq done[s]
    /\ \/ w.before[s] \subseteq disk[s]
       \/ \E n \in Nodes : n.sector = s /\ n.modificado /\ n.id \in ToSet(w.left)
Flushes == \A t \in Thread, s \in Sector \ exposed : th[t].op = "flush" => Writes(th[t], s)

CacheInv ==
    /\ TypeOK /\ Roles /\ Fresh /\ PointsRight
    /\ Copies /\ OneNode /\ Held /\ Marked /\ Flushes

-----------------------------------------------------------------------------
(* The list.                                                                *)

LEMMA NatMin ==
  ASSUME NEW T \in SUBSET Nat, T # {}
  PROVE  Min(T) \in T /\ \A y \in T : Min(T) <= y
  <1>1. \E x \in T : \A y \in T : ~ (<<y, x>> \in OpToRel(<, Nat))
    <2>1. IsWellFoundedOn(OpToRel(<, Nat), Nat)
      BY NatLessThanWellFounded
    <2>2. QED
      BY <2>1, WFMin
  <1>2. PICK x \in T : \A y \in T : ~ (<<y, x>> \in OpToRel(<, Nat))
    BY <1>1
  <1>3. \A y \in T : y \in Nat /\ x \in Nat /\ ~ (y < x)
    BY <1>2 DEF OpToRel
  <1>4. \E z \in T : \A y \in T : z =< y
    BY <1>3
  <1>5. QED
    BY <1>4 DEF Min

LEMMA InNodes == \A i \in DOMAIN list : list[i] \in Nodes
  BY DEF Nodes, ToSet

LEMMA NodesAt == \A n \in Nodes : \E i \in DOMAIN list : list[i] = n
  BY DEF Nodes, ToSet

\* commons_list_getNode: the first node with the sector.
LEMMA IndexFacts ==
  ASSUME list \in Seq(Node), NEW s
  PROVE  /\ Cached(s) => /\ IndexOf(s) \in DOMAIN list /\ list[IndexOf(s)] \in Nodes
                         /\ list[IndexOf(s)].sector = s
         /\ ~ Cached(s) => \A n \in Nodes : n.sector # s
  <1> DEFINE I == { i \in 1 .. Len(list) : list[i].sector = s }
  <1>1. IndexOf(s) = IF I # {} THEN Min(I) ELSE 0
    BY DEF IndexOf, SelectInSeq
  <1>2. I \in SUBSET Nat
    OBVIOUS
  <1>3. CASE I # {}
    <2>1. Min(I) \in I
      BY <1>2, <1>3, NatMin
    <2>2. IndexOf(s) \in DOMAIN list /\ list[IndexOf(s)].sector = s /\ IndexOf(s) # 0
      BY <1>1, <1>3, <2>1
    <2>3. QED
      BY <2>2, InNodes DEF Cached
  <1>4. CASE I = {}
    <2>1. ~ Cached(s)
      BY <1>1, <1>4 DEF Cached
    <2>2. \A i \in DOMAIN list : list[i].sector # s
      BY <1>4
    <2>3. QED
      BY <2>1, <2>2, NodesAt
  <1>5. QED
    BY <1>3, <1>4

IdsDiffer == \A i, j \in DOMAIN list : list[i].id = list[j].id => i = j

LEMMA SameNode ==
  ASSUME IdsDiffer
  PROVE  \A n, m \in Nodes : n.id = m.id => n = m
  BY NodesAt DEF IdsDiffer

\* A node is written over.
LEMMA ReplacedNodes ==
  ASSUME list \in Seq(Node), IdsDiffer, NEW i \in DOMAIN list, NEW m \in Node, m.id = list[i].id,
         list' = [list EXCEPT ![i] = m]
  PROVE  /\ list' \in Seq(Node) /\ IdsDiffer'
         /\ Nodes' = (Nodes \ {list[i]}) \cup {m}
  <1>1. PICK n : n = list[i] /\ n \in Nodes
    BY InNodes
  <1>2. list' \in Seq(Node) /\ DOMAIN list' = DOMAIN list
        /\ \A j \in DOMAIN list : list'[j] = IF j = i THEN m ELSE list[j]
    OBVIOUS
  <1>3. IdsDiffer'
    BY <1>2 DEF IdsDiffer
  <1>4. Nodes' = (Nodes \ {n}) \cup {m}
    <2>1. ASSUME NEW x \in Nodes' PROVE x \in (Nodes \ {n}) \cup {m}
      <3>1. PICK j \in DOMAIN list : list'[j] = x
        BY <1>2, <2>1 DEF Nodes, ToSet
      <3>2. CASE j = i
        BY <1>2, <3>1, <3>2
      <3>3. CASE j # i
        <4>1. x = list[j] /\ x \in Nodes
          BY <1>2, <3>1, <3>3, InNodes
        <4>2. x.id # n.id
          BY <1>1, <3>3, <4>1 DEF IdsDiffer
        <4>3. QED
          BY <4>1, <4>2
      <3>4. QED
        BY <3>2, <3>3
    <2>2. ASSUME NEW x \in (Nodes \ {n}) \cup {m} PROVE x \in Nodes'
      <3>1. CASE x = m
        BY <1>2, <3>1 DEF Nodes, ToSet
      <3>2. CASE x \in Nodes \ {n}
        <4>1. PICK j \in DOMAIN list : list[j] = x
          BY <3>2, NodesAt
        <4>2. list'[j] = x /\ j \in DOMAIN list'
          BY <1>1, <1>2, <3>2, <4>1
        <4>3. QED
          BY <4>2 DEF Nodes, ToSet
      <3>3. QED
        BY <2>2, <3>1, <3>2
    <2>3. QED
      BY <2>1, <2>2
  <1>5. QED
    BY <1>1, <1>2, <1>3, <1>4

\* What a pointer finds.
LEMMA LiveFacts ==
  ASSUME list \in Seq(Node), NEW id, IsLive(id)
  PROVE  NodeOf(id) \in Nodes /\ NodeOf(id).id = id
  <1> DEFINE I == { i \in 1 .. Len(list) : list[i].id = id }
  <1>1. I # {}
    BY DEF IsLive
  <1>2. NodeOf(id) = list[Min(I)]
    BY <1>1 DEF NodeOf, SelectInSeq
  <1>3. Min(I) \in I
    <2>1. I \in SUBSET Nat
      OBVIOUS
    <2>2. QED
      BY <1>1, <2>1, NatMin
  <1>4. Min(I) \in DOMAIN list /\ list[Min(I)].id = id
    BY <1>3
  <1>5. QED
    BY <1>2, <1>4, InNodes

LEMMA LiveNode ==
  ASSUME list \in Seq(Node), IdsDiffer, NEW n \in Nodes
  PROVE  IsLive(n.id) /\ NodeOf(n.id) = n
  <1>1. IsLive(n.id)
    BY NodesAt DEF IsLive
  <1>2. QED
    BY <1>1, LiveFacts, SameNode

\* A write through a pointer: to its node, to nothing, or to another node.
LEMMA LandsFacts ==
  ASSUME list \in Seq(Node), IdsDiffer, NEW p, NEW id \in LandsOn(p)
  PROVE  \/ ~ IsLive(id) /\ ~ IsLive(p)
         \/ \E i \in DOMAIN list : /\ list[i].id = id /\ list[i] \in Nodes
                                   /\ \/ IsLive(p) /\ id = p /\ Spoils(p, id) = {}
                                      \/ ~ IsLive(p) /\ Spoils(p, id) = {list[i].sector}
  <1>1. IsLive(p) => id = p
    BY DEF LandsOn
  <1>2. CASE ~ IsLive(id)
    BY <1>1, <1>2
  <1>3. CASE IsLive(id)
    <2>1. PICK n \in Nodes : n = NodeOf(id) /\ n.id = id
      BY <1>3, LiveFacts
    <2>2. PICK i \in DOMAIN list : list[i] = n
      BY NodesAt
    <2>3. Spoils(p, id) = IF id # p THEN {n.sector} ELSE {}
      BY <1>3, <2>1 DEF Spoils
    <2>4. QED
      BY <1>1, <1>3, <2>1, <2>2, <2>3
  <1>4. QED
    BY <1>2, <1>3

Rewritten(n, c) == [n EXCEPT !.content = c, !.modificado = TRUE]
Cleared(n) == [n EXCEPT !.modificado = FALSE]

\* Both writes, of a node that is in the list and of one that is not.
LEMMA WrittenList ==
  ASSUME list \in Seq(Node), IdsDiffer, NEW id, NEW c
  PROVE  /\ ~ IsLive(id) => Written(id, c) = list /\ Unmarked(id) = list
         /\ \A i \in DOMAIN list : list[i].id = id =>
               /\ Written(id, c) = [list EXCEPT ![i] = Rewritten(list[i], c)]
               /\ Unmarked(id) = [list EXCEPT ![i] = Cleared(list[i])]
  <1>1. PICK k \in Nat : list \in [1 .. k -> Node] /\ DOMAIN list = 1 .. k
    BY SeqDef
  <1>2. list = [i \in DOMAIN list |-> list[i]]
    BY <1>1
  <1>3. ~ IsLive(id) => Written(id, c) = list /\ Unmarked(id) = list
    <2>1. ~ IsLive(id) => \A i \in DOMAIN list : list[i].id # id
      BY DEF IsLive
    <2>2. QED
      BY <1>2, <2>1 DEF Written, Unmarked
  <1>4. ASSUME NEW i \in DOMAIN list, list[i].id = id
        PROVE  /\ Written(id, c) = [list EXCEPT ![i] = Rewritten(list[i], c)]
               /\ Unmarked(id) = [list EXCEPT ![i] = Cleared(list[i])]
    <2>1. \A j \in DOMAIN list : list[j].id = id <=> j = i
      BY <1>4 DEF IdsDiffer
    <2>2. QED
      BY <2>1 DEF Written, Unmarked, Rewritten, Cleared
  <1>5. QED
    BY <1>3, <1>4

\* commons_list_removeNode.
LEMMA RemovedNodes ==
  ASSUME list \in Seq(Node), IdsDiffer, NEW i \in DOMAIN list, list' = RemoveAt(list, i)
  PROVE  /\ list' \in Seq(Node) /\ IdsDiffer'
         /\ list[i] \in Nodes /\ Nodes' = Nodes \ {list[i]}
  <1>1. PICK k \in Nat : k = Len(list) /\ DOMAIN list = 1 .. k /\ i \in 1 .. k
    BY LenProperties
  <1>2. PICK p, q : p = SubSeq(list, 1, i - 1) /\ q = SubSeq(list, i + 1, k)
    OBVIOUS
  <1>3. /\ p \in Seq(Node) /\ Len(p) = i - 1 /\ \A j \in 1 .. i - 1 : p[j] = list[j]
    <2>1. \A j \in 1 .. i - 1 : list[j] \in Node
      BY <1>1
    <2>2. QED
      BY <1>1, <1>2, <2>1
  <1>4. /\ q \in Seq(Node) /\ Len(q) = k - i /\ \A j \in 1 .. k - i : q[j] = list[i + j]
    <2>1. \A j \in i + 1 .. k : list[j] \in Node
      BY <1>1
    <2>2. QED
      BY <1>1, <1>2, <2>1, SMTT(60)
  <1>5. list' = p \o q
    BY <1>1, <1>2 DEF RemoveAt
  <1>6. /\ list' \in Seq(Node) /\ DOMAIN list' = 1 .. k - 1
        /\ \A j \in 1 .. k - 1 : list'[j] = IF j < i THEN list[j] ELSE list[j + 1]
    <2>1. list' \in Seq(Node) /\ Len(list') = k - 1
      BY <1>1, <1>3, <1>4, <1>5
    <2>2. \A j \in 1 .. i - 1 : list'[j] = p[j]
      BY <1>1, <1>3, <1>4, <1>5
    <2>3. \A j \in 1 .. k - i : list'[i - 1 + j] = q[j]
      BY <1>1, <1>3, <1>4, <1>5, SMTT(60)
    <2>4. ASSUME NEW j \in 1 .. k - 1, ~ (j < i)
          PROVE  list'[j] = list[j + 1]
      <3>1. j - (i - 1) \in 1 .. k - i /\ i - 1 + (j - (i - 1)) = j /\ i + (j - (i - 1)) = j + 1
        BY <1>1, <2>4
      <3>2. QED
        BY <1>4, <2>3, <3>1
    <2>5. ASSUME NEW j \in 1 .. k - 1, j < i
          PROVE  list'[j] = list[j]
      <3>1. j \in 1 .. i - 1
        BY <1>1, <2>5
      <3>2. QED
        BY <1>3, <2>2, <3>1
    <2>6. QED
      BY <1>1, <2>1, <2>4, <2>5
  <1>7. IdsDiffer'
    <2> SUFFICES ASSUME NEW a \in 1 .. k - 1, NEW b \in 1 .. k - 1, list'[a].id = list'[b].id
                 PROVE  a = b
      BY <1>6 DEF IdsDiffer
    <2>1. PICK c \in 1 .. k, d \in 1 .. k : /\ c = IF a < i THEN a ELSE a + 1
                                           /\ d = IF b < i THEN b ELSE b + 1
      BY <1>1
    <2>2. list'[a] = list[c] /\ list'[b] = list[d]
      BY <1>6, <2>1
    <2>3. c = d
      BY <1>1, <2>2 DEF IdsDiffer
    <2>4. QED
      BY <1>1, <2>1, <2>3
  <1>8. Nodes' = Nodes \ {list[i]}
    <2>1. ASSUME NEW x \in Nodes' PROVE x \in Nodes \ {list[i]}
      <3>1. PICK j \in 1 .. k - 1 : list'[j] = x
        BY <1>6, <2>1 DEF Nodes, ToSet
      <3>2. PICK c \in 1 .. k : c = (IF j < i THEN j ELSE j + 1) /\ c # i
        BY <1>1
      <3>3. x = list[c]
        BY <1>6, <3>1, <3>2
      <3>4. x \in Nodes /\ x.id # list[i].id
        BY <1>1, <3>2, <3>3, InNodes DEF IdsDiffer
      <3>5. QED
        BY <3>4
    <2>2. ASSUME NEW x \in Nodes \ {list[i]} PROVE x \in Nodes'
      <3>1. PICK c \in 1 .. k : list[c] = x /\ c # i
        BY <1>1, <2>2, NodesAt
      <3>2. PICK j \in 1 .. k - 1 : j = IF c < i THEN c ELSE c - 1
        BY <1>1, <3>1
      <3>3. list'[j] = x
        BY <1>1, <1>6, <3>1, <3>2
      <3>4. QED
        BY <1>6, <3>3 DEF Nodes, ToSet
    <2>3. QED
      BY <2>1, <2>2
  <1>9. QED
    BY <1>6, <1>7, <1>8, InNodes

\* commons_list_addNode.
LEMMA AddedNodes ==
  ASSUME list \in Seq(Node), IdsDiffer, NEW n \in Node, list' = <<n>> \o list,
         \A m \in Nodes : m.id # n.id
  PROVE  list' \in Seq(Node) /\ IdsDiffer' /\ Nodes' = Nodes \cup {n}
  <1>1. PICK k \in Nat : k = Len(list) /\ DOMAIN list = 1 .. k
    BY LenProperties
  <1>2. /\ list' \in Seq(Node) /\ DOMAIN list' = 1 .. k + 1
        /\ \A j \in 1 .. k + 1 : list'[j] = IF j = 1 THEN n ELSE list[j - 1]
    BY <1>1
  <1>3. \A j \in 1 .. k + 1 : j # 1 => j - 1 \in 1 .. k
    BY <1>1
  <1>4. \A j \in 1 .. k + 1 : j # 1 => list'[j] \in Nodes
    BY <1>1, <1>2, <1>3, InNodes
  <1>5. IdsDiffer'
    <2> SUFFICES ASSUME NEW a \in 1 .. k + 1, NEW b \in 1 .. k + 1, list'[a].id = list'[b].id
                 PROVE  a = b
      BY <1>2 DEF IdsDiffer
    <2>1. CASE a = 1 \/ b = 1
      BY <1>2, <1>4, <2>1
    <2>2. CASE a # 1 /\ b # 1
      <3>1. list'[a] = list[a - 1] /\ list'[b] = list[b - 1]
        BY <1>2, <2>2
      <3>2. a - 1 \in DOMAIN list /\ b - 1 \in DOMAIN list
        BY <1>1, <1>3, <2>2
      <3>3. a - 1 = b - 1
        BY <3>1, <3>2 DEF IdsDiffer
      <3>4. QED
        BY <3>3
    <2>3. QED
      BY <2>1, <2>2
  <1>6. Nodes' = Nodes \cup {n}
    <2>1. ASSUME NEW x \in Nodes' PROVE x \in Nodes \cup {n}
      BY <1>2, <1>4, <2>1 DEF Nodes, ToSet
    <2>2. ASSUME NEW x \in Nodes PROVE x \in Nodes'
      <3>1. PICK c \in 1 .. k : list[c] = x
        BY <1>1, NodesAt
      <3>2. c + 1 \in 1 .. k + 1 /\ list'[c + 1] = x
        BY <1>1, <1>2, <3>1
      <3>3. QED
        BY <1>2, <3>2 DEF Nodes, ToSet
    <2>3. n \in Nodes'
      BY <1>1, <1>2 DEF Nodes, ToSet
    <2>4. QED
      BY <2>1, <2>2, <2>3
  <1>7. QED
    BY <1>2, <1>5, <1>6

-----------------------------------------------------------------------------
(* What a step of one thread leaves as it was.                              *)

LEMMA RolesKeep ==
  ASSUME Roles, NEW t \in Thread, \A u \in Thread : u # t => th'[u] = th[u],
         UNCHANGED <<updates, reads>>, Role(th[t])',
         \/ th'[t].op \in {"none", "flush"}
         \/ /\ th'[t].number = th[t].number
            /\ Changes(th'[t]) => Changes(th[t])
            /\ th'[t].op = "read" => th[t].op = "read"
  PROVE  Roles'
  <1>1. \A u \in Thread : Role(th[u])'
    <2> SUFFICES ASSUME NEW u \in Thread, u # t PROVE Role(th[u])'
      OBVIOUS
    <2>1. th'[u] = th[u] /\ Role(th[u])
      BY DEF Roles
    <2>2. QED
      BY <2>1 DEF Role, HasSector, HasOut, HasNode
  <1>2. ASSUME NEW v \in Thread, v # t, th'[t].number = th'[v].number
        PROVE  ~ (Changes(th'[t]) /\ Changes(th'[v])) /\ ~ (th'[t].op = "read" /\ th'[v].op = "read")
    <2>1. CASE th'[t].op \in {"none", "flush"}
      BY <2>1 DEF Changes
    <2>2. CASE /\ th'[t].number = th[t].number
               /\ Changes(th'[t]) => Changes(th[t])
               /\ th'[t].op = "read" => th[t].op = "read"
      <3>1. th'[v] = th[v] /\ th[t].number = th[v].number
        BY <1>2, <2>2
      <3>2. ~ (Changes(th[t]) /\ Changes(th[v])) /\ ~ (th[t].op = "read" /\ th[v].op = "read")
        BY <1>2, <3>1 DEF Roles
      <3>3. QED
        BY <2>2, <3>1, <3>2
    <2>3. QED
      BY <2>1, <2>2
  <1>3. ASSUME NEW u \in Thread, NEW v \in Thread, th'[u].number = th'[v].number, u # v
        PROVE  ~ (Changes(th'[u]) /\ Changes(th'[v])) /\ ~ (th'[u].op = "read" /\ th'[v].op = "read")
    <2>1. CASE u # t /\ v # t
      <3>1. th'[u] = th[u] /\ th'[v] = th[v] /\ th[u].number = th[v].number
        BY <1>3, <2>1
      <3>2. QED
        BY <1>3, <3>1 DEF Roles
    <2>2. CASE u = t
      BY <1>2, <1>3, <2>2
    <2>3. CASE v = t
      BY <1>2, <1>3, <2>3
    <2>4. QED
      BY <2>1, <2>2, <2>3
  <1>4. QED
    BY <1>1, <1>3 DEF Roles

LEMMA FreshKeep ==
  ASSUME Fresh, NEW t \in Thread, \A u \in Thread : u # t => th'[u] = th[u],
         UNCHANGED <<updates, reads>>,
         \A n \in Nodes' : \E m \in Nodes : m.id = n.id,
         HasNode(th'[t]) => Named(th'[t].node),
         \A id \in ToSet(th'[t].left) : Named(id),
         \A id \in NodeId : Makes(th'[t], id) => Makes(th[t], id)
  PROVE  Fresh'
  <1> SUFFICES ASSUME NEW id \in NodeId, Named(id)'
               PROVE  Begun(id)' /\ \A u \in Thread : ~ Makes(th'[u], id)
    BY DEF Fresh, Makes
  <1>1. Named(id)
    <2>1. CASE \E n \in Nodes' : n.id = id
      BY <2>1 DEF Named
    <2>2. CASE \E u \in Thread : \/ HasNode(th'[u]) /\ th'[u].node = id
                                 \/ id \in ToSet(th'[u].left)
      <3>1. PICK u \in Thread : \/ HasNode(th'[u]) /\ th'[u].node = id
                                \/ id \in ToSet(th'[u].left)
        BY <2>2
      <3>2. CASE u = t
        BY <3>1, <3>2
      <3>3. CASE u # t
        BY <3>1, <3>3 DEF Named
      <3>4. QED
        BY <3>2, <3>3
    <2>3. QED
      BY <2>1, <2>2 DEF Named
  <1>2. Begun(id) /\ \A u \in Thread : ~ Makes(th[u], id)
    BY <1>1 DEF Fresh
  <1>3. QED
    BY <1>2 DEF Begun

LEMMA PointsKeep ==
  ASSUME PointsRight, NEW t \in Thread, \A u \in Thread : u # t => th'[u] = th[u],
         \A n \in Nodes' : \E m \in Nodes : m.id = n.id /\ m.sector = n.sector,
         \A n \in Nodes : Points(th'[t], n)
  PROVE  PointsRight'
  <1> SUFFICES ASSUME NEW u \in Thread, NEW n \in Nodes' PROVE Points(th'[u], n)
    BY DEF PointsRight
  <1>1. PICK m \in Nodes : m.id = n.id /\ m.sector = n.sector
    OBVIOUS
  <1>2. Points(th'[u], m)
    BY DEF PointsRight
  <1>3. QED
    BY <1>1, <1>2 DEF Points

\* A step that leaves the list alone, and of a sector that is not exposed writes
\* to the disk what was put in it, if it writes at all.
LEMMA DiskKeeps ==
  ASSUME CacheInv, NEW t \in Thread, \A u \in Thread : u # t => th'[u] = th[u],
         UNCHANGED list, exposed \subseteq exposed',
         \A s \in Sector \ exposed' : done'[s] = done[s] /\ (s \in unmarked <=> s \in unmarked'),
         \A s \in Sector \ exposed' : disk'[s] = disk[s] \/ disk'[s] = done[s],
         TypeOK', Roles', Fresh',
         \A n \in Nodes : Points(th'[t], n),
         \A s \in Sector \ exposed' : CopyRight(th[t], s)',
         th'[t].op = "flush" => \A s \in Sector \ exposed' : Writes(th[t], s)'
  PROVE  CacheInv'
  <1> USE DEF CacheInv
  <1>1. Nodes' = Nodes
    BY DEF Nodes
  <1>2. PointsRight'
    BY <1>1, PointsKeep
  <1>3. Copies'
    <2> SUFFICES ASSUME NEW u \in Thread, NEW s \in Sector \ exposed' PROVE CopyRight(th[u], s)'
      BY DEF Copies
    <2>1. CASE u = t
      BY <2>1
    <2>2. CASE u # t
      <3>1. CopyRight(th[u], s) /\ th'[u] = th[u]
        BY <2>2 DEF Copies
      <3>2. done'[s] = done[s] /\ (disk'[s] = disk[s] \/ disk'[s] = done[s])
        OBVIOUS
      <3>3. QED
        BY <3>1, <3>2 DEF CopyRight
    <2>3. QED
      BY <2>1, <2>2
  <1>4. OneNode'
    BY <1>1 DEF OneNode
  <1>5. Held'
    BY <1>1 DEF Held
  <1>6. Marked'
    BY <1>1 DEF Marked
  <1>7. Flushes'
    <2> SUFFICES ASSUME NEW u \in Thread, NEW s \in Sector \ exposed', th'[u].op = "flush"
                 PROVE  Writes(th[u], s)'
      BY DEF Flushes
    <2>1. CASE u = t
      BY <2>1
    <2>2. CASE u # t
      <3>1. Writes(th[u], s) /\ th'[u] = th[u]
        BY <2>2 DEF Flushes
      <3>2. done'[s] = done[s] /\ (disk'[s] = disk[s] \/ disk'[s] = done[s])
        OBVIOUS
      <3>3. QED
        BY <1>1, <3>1, <3>2 DEF Writes
    <2>3. QED
      BY <2>1, <2>2
  <1>8. QED
    BY <1>2, <1>3, <1>4, <1>5, <1>6, <1>7

\* What a get gives of a sector that is not exposed.
LEMMA VisibleIsDone ==
  ASSUME TypeOK, Held, NEW s \in Sector \ exposed
  PROVE  /\ Visible(s) = done[s] /\ Visible(s) \in Content
         /\ ~ Cached(s) => disk[s] = done[s]
  <1>1. list \in Seq(Node) /\ done[s] \in Content /\ disk[s] \in Content
    BY DEF TypeOK
  <1>2. CASE Cached(s)
    <2>1. list[IndexOf(s)] \in Nodes /\ list[IndexOf(s)].sector = s
      BY <1>1, <1>2, IndexFacts
    <2>2. QED
      BY <1>1, <1>2, <2>1 DEF Held, Visible
  <1>3. CASE ~ Cached(s)
    <2>1. \A n \in Nodes : n.sector # s
      BY <1>1, <1>3, IndexFacts
    <2>2. QED
      BY <1>1, <1>3, <2>1 DEF Held, Visible
  <1>4. QED
    BY <1>2, <1>3

LEMMA VisibleType ==
  ASSUME TypeOK, NEW s \in Sector
  PROVE  Visible(s) \in Content
  <1>1. list \in Seq(Node) /\ disk[s] \in Content
    BY DEF TypeOK
  <1>2. Cached(s) => list[IndexOf(s)] \in Node
    BY <1>1, IndexFacts
  <1>3. QED
    BY <1>1, <1>2 DEF Visible, Node

\* The thread of a step, and what it carries.
LEMMA ThreadType ==
  ASSUME CacheInv, NEW t \in Thread
  PROVE  /\ th \in [Thread -> ThreadState] /\ th[t] \in ThreadState /\ Role(th[t])
         /\ \A n \in Nodes : Points(th[t], n)
         /\ \A s \in Sector \ exposed : CopyRight(th[t], s)
         /\ list \in Seq(Node) /\ IdsDiffer /\ Nodes \subseteq Node
  <1>1. TypeOK
    BY DEF CacheInv
  <1>2. list \in Seq(Node) /\ IdsDiffer /\ th \in [Thread -> ThreadState]
    BY <1>1 DEF TypeOK, IdsDiffer
  <1>3. Nodes \subseteq Node
    BY <1>2, NodesAt
  <1>4. QED
    BY <1>2, <1>3 DEF CacheInv, Roles, PointsRight, Copies

\* Where a thread stands tells what it does.
LEMMA OpFacts ==
  ASSUME CacheInv, NEW t \in Thread
  PROVE  /\ th[t].pc \in {"over", "add"} => /\ th[t].op \in {"read", "update", "put"}
                                            /\ th[t].sector \in Sector /\ th[t].out = None
                                            /\ th[t].copy \in Content
         /\ th[t].pc = "found" => /\ th[t].op \in {"read", "update"}
                                  /\ th[t].sector \in Sector /\ th[t].out = None
                                  /\ th[t].copy \in Content
         /\ th[t].pc = "mark" => /\ th[t].op = "flush" /\ th[t].out \in Sector
                                 /\ th[t].left # <<>> /\ th[t].node = Head(th[t].left)
  <1>1. th[t] \in ThreadState /\ Role(th[t])
    BY ThreadType
  <1>2. th[t].op \in {"none", "read", "update", "put", "flush"} /\ th[t].copy \in Content
    BY <1>1 DEF ThreadState
  <1>3. CASE th[t].pc \in {"over", "add", "found"}
    <2>1. th[t].op \in {"read", "update", "put"}
      BY <1>1, <1>2, <1>3 DEF Role
    <2>2. th[t].sector \in Sector /\ th[t].out = None
      BY <1>1, <1>3, <2>1 DEF Role, HasSector, HasOut
    <2>3. th[t].pc = "found" => th[t].op # "put"
      BY <1>1 DEF Role
    <2>4. QED
      BY <1>2, <1>3, <2>1, <2>2, <2>3
  <1>4. CASE th[t].pc = "mark"
    <2>1. th[t].op = "flush"
      BY <1>1, <1>2, <1>4 DEF Role, HasSector
    <2>2. QED
      BY <1>1, <1>4, <2>1 DEF Role, HasOut, HasNode
  <1>5. QED
    BY <1>3, <1>4

-----------------------------------------------------------------------------
(* A get, and the thread that goes on with it.                              *)

LEMMA RestType == Rest \in ThreadState /\ Rest.pc = "idle" /\ Rest.op = "none" /\ Role(Rest)
  <1>1. 0 \in 0 .. MaxUpdates + MaxReads
    BY CacheAssumption
  <1>2. QED
    BY <1>1, EmptySeq DEF Rest, ThreadState, Content, Role, HasSector, HasOut, HasNode

LEMMA RestIsRight ==
  /\ \A id : ~ Makes(Rest, id)
  /\ ~ HasNode(Rest) /\ ToSet(Rest.left) = {}
  /\ \A n : Points(Rest, n)
  /\ \A s \in Sector : Rest.out # s /\ ~ HasSector(Rest)
  BY CacheAssumption DEF Rest, Makes, HasNode, HasOut, ToSet, Points, HasSector

\* A number that was not given.
LEMMA GetFresh ==
  ASSUME CacheInv, NEW t \in Thread, \A u \in Thread : u # t => th'[u] = th[u],
         UNCHANGED list, th'[t].left = <<>>, HasNode(th'[t]) => Named(th'[t].node),
         updates' \in 0 .. MaxUpdates, reads' \in 0 .. MaxReads,
         \/ /\ th'[t].op = "update" /\ th'[t].number = updates + 1
            /\ updates' = updates + 1 /\ reads' = reads
         \/ /\ th'[t].op = "read" /\ th'[t].number = reads + 1
            /\ reads' = reads + 1 /\ updates' = updates,
         Role(th[t])'
  PROVE  Roles' /\ Fresh'
  <1>1. updates \in 0 .. MaxUpdates /\ reads \in 0 .. MaxReads /\ MaxUpdates \in Nat /\ MaxReads \in Nat
    BY CacheAssumption DEF CacheInv, TypeOK
  <1>2. updates <= updates' /\ reads <= reads' /\ updates' \in Nat /\ reads' \in Nat
    BY <1>1
  <1>3. \A u \in Thread : Role(th[u])'
    <2> SUFFICES ASSUME NEW u \in Thread, u # t PROVE Role(th[u])'
      OBVIOUS
    <2>1. th'[u] = th[u] /\ Role(th[u])
      BY DEF CacheInv, Roles
    <2>2. QED
      BY <1>1, <1>2, <2>1 DEF Role, HasSector, HasOut, HasNode
  <1>4. ASSUME NEW v \in Thread, v # t, th'[t].number = th'[v].number
        PROVE  ~ (Changes(th'[t]) /\ Changes(th'[v])) /\ ~ (th'[t].op = "read" /\ th'[v].op = "read")
    <2>1. th'[v] = th[v] /\ Role(th[v])
      BY <1>4 DEF CacheInv, Roles
    <2>2. QED
      BY <1>1, <1>4, <2>1 DEF Role, Changes
  <1>5. Roles'
    <2>1. ASSUME NEW u \in Thread, NEW v \in Thread, th'[u].number = th'[v].number, u # v
          PROVE  ~ (Changes(th'[u]) /\ Changes(th'[v])) /\ ~ (th'[u].op = "read" /\ th'[v].op = "read")
      <3>1. CASE u # t /\ v # t
        <4>1. th'[u] = th[u] /\ th'[v] = th[v] /\ th[u].number = th[v].number
          BY <2>1, <3>1
        <4>2. QED
          BY <2>1, <4>1 DEF CacheInv, Roles
      <3>2. CASE u = t
        BY <1>4, <2>1, <3>2
      <3>3. CASE v = t
        BY <1>4, <2>1, <3>3
      <3>4. QED
        BY <3>1, <3>2, <3>3
    <2>2. QED
      BY <1>3, <2>1 DEF Roles
  <1>6. Fresh'
    <2> SUFFICES ASSUME NEW id \in NodeId, Named(id)'
                 PROVE  Begun(id)' /\ \A u \in Thread : ~ Makes(th'[u], id)
      BY DEF Fresh, Makes
    <2>1. Nodes' = Nodes /\ ToSet(th'[t].left) = {}
      BY DEF Nodes, ToSet
    <2>2. Named(id)
      <3>1. CASE \E n \in Nodes' : n.id = id
        BY <2>1, <3>1 DEF Named
      <3>2. CASE \E u \in Thread : \/ HasNode(th'[u]) /\ th'[u].node = id
                                   \/ id \in ToSet(th'[u].left)
        <4>1. PICK u \in Thread : \/ HasNode(th'[u]) /\ th'[u].node = id
                                  \/ id \in ToSet(th'[u].left)
          BY <3>2
        <4>2. CASE u = t
          BY <2>1, <4>1, <4>2
        <4>3. CASE u # t
          BY <4>1, <4>3 DEF Named
        <4>4. QED
          BY <4>2, <4>3
      <3>3. QED
        BY <3>1, <3>2 DEF Named
    <2>3. Begun(id) /\ \A u \in Thread : ~ Makes(th[u], id)
      BY <2>2 DEF CacheInv, Fresh
    <2>4. Begun(id)'
      BY <1>1, <1>2, <2>3 DEF Begun
    <2>5. ~ Makes(th'[t], id)
      <3>1. \/ id \in 1 .. updates
            \/ id \in MaxUpdates + 1 .. MaxUpdates + updates
            \/ id \in 2 * MaxUpdates + 1 .. 2 * MaxUpdates + reads
        BY <2>3 DEF Begun
      <3>3. CASE th'[t].op = "update" /\ th'[t].number = updates + 1 /\ updates' = updates + 1
        BY <1>1, <3>1, <3>3 DEF Makes
      <3>4. CASE th'[t].op = "read" /\ th'[t].number = reads + 1 /\ reads' = reads + 1
        BY <1>1, <3>1, <3>4 DEF Makes
      <3>5. QED
        BY <3>3, <3>4
    <2>6. QED
      BY <2>3, <2>4, <2>5
  <1>7. QED
    BY <1>5, <1>6

\* pfs_endpoint_callCachedGetSector.
LEMMA Asking ==
  ASSUME NEW z \in ThreadState, NEW op \in {"read", "update"}, NEW s \in Sector,
         NEW k \in 0 .. MaxUpdates + MaxReads
  PROVE  [z EXCEPT !.op = op, !.sector = s, !.number = k, !.pc = "fetch"] \in ThreadState
  BY DEF ThreadState

LEMMA GetKeeps ==
  ASSUME CacheInv, NEW t \in Thread, NEW op \in {"read", "update"}, NEW s \in Sector, Get(t, op, s)
  PROVE  CacheInv'
  <1> DEFINE k == IF op = "update" THEN updates' ELSE reads'
  <1>1. /\ th \in [Thread -> ThreadState] /\ TypeOK /\ Held /\ list \in Seq(Node) /\ Nodes \subseteq Node
        /\ updates \in 0 .. MaxUpdates /\ reads \in 0 .. MaxReads
        /\ MaxUpdates \in Nat /\ MaxReads \in Nat
    BY ThreadType, CacheAssumption DEF CacheInv, TypeOK
  <1>2. /\ \/ op = "update" /\ updates' = updates + 1 /\ updates < MaxUpdates /\ reads' = reads
           \/ op = "read" /\ reads' = reads + 1 /\ reads < MaxReads /\ updates' = updates
        /\ UNCHANGED <<disk, list, flushes, done, exposed, unmarked>>
    BY DEF Get, ghosts
  <1>3. k \in 1 .. MaxUpdates + MaxReads /\ updates' \in 0 .. MaxUpdates /\ reads' \in 0 .. MaxReads
    BY <1>1, <1>2
  <1>4. PICK r : th' = [th EXCEPT ![t] = r] /\
          \/ /\ Cached(s)
             /\ r = [Rest EXCEPT !.op = op, !.sector = s, !.number = k, !.pc = "found",
                                 !.node = list[IndexOf(s)].id]
          \/ ~ Cached(s) /\ r = [Rest EXCEPT !.op = op, !.sector = s, !.number = k, !.pc = "fetch"]
    BY DEF Get, Goes, Rest
  <1>5. th'[t] = r /\ \A u \in Thread : u # t => th'[u] = th[u]
    BY <1>1, <1>4
  <1>6. Cached(s) => /\ list[IndexOf(s)] \in Nodes /\ list[IndexOf(s)].sector = s
                     /\ list[IndexOf(s)].id \in NodeId /\ Named(list[IndexOf(s)].id)
    <2>1. Cached(s) => list[IndexOf(s)] \in Nodes /\ list[IndexOf(s)].sector = s
      BY <1>1, IndexFacts
    <2>2. QED
      BY <1>1, <2>1 DEF Node, Named
  <1>7. PICK z : /\ z = Rest /\ z \in ThreadState /\ z.left = <<>> /\ z.out = None
    BY RestType DEF Rest
  <1>8. /\ r \in ThreadState
        /\ r.left = <<>> /\ r.out = None /\ r.pc \in {"found", "fetch"}
        /\ r.op = op /\ r.number = k /\ r.sector = s
        /\ r.pc = "found" => Cached(s) /\ r.node = list[IndexOf(s)].id
        /\ r.pc = "fetch" => ~ Cached(s)
    <2> HIDE DEF k
    <2>1. k \in 0 .. MaxUpdates + MaxReads
      BY <1>1, <1>3
    <2>2. PICK a : a = [z EXCEPT !.op = op, !.sector = s, !.number = k, !.pc = "fetch"]
      OBVIOUS
    <2>3. a \in ThreadState
      BY <1>7, <2>1, <2>2, Asking
    <2>4. /\ a.left = <<>> /\ a.out = None /\ a.pc = "fetch" /\ a.op = op /\ a.number = k /\ a.sector = s
      BY <1>7, <2>2 DEF ThreadState
    <2>5. CASE Cached(s)
      <3>1. PICK i \in NodeId : i = list[IndexOf(s)].id
        BY <1>6, <2>5
      <3>2. r = [a EXCEPT !.pc = "found", !.node = i]
        BY <1>4, <1>7, <2>2, <2>5, <3>1
      <3>3. r \in ThreadState
        BY <2>3, <3>2 DEF ThreadState
      <3>4. /\ r.left = <<>> /\ r.out = None /\ r.pc = "found" /\ r.op = op /\ r.number = k
            /\ r.sector = s /\ r.node = i
        BY <2>3, <2>4, <3>2 DEF ThreadState
      <3>5. QED
        BY <2>5, <3>1, <3>3, <3>4
    <2>6. CASE ~ Cached(s)
      <3>1. r = a
        BY <1>4, <1>7, <2>2, <2>6
      <3>2. QED
        BY <2>3, <2>4, <2>6, <3>1
    <2>7. QED
      BY <2>5, <2>6
  <1>9. TypeOK'
    BY <1>1, <1>2, <1>3, <1>4, <1>8 DEF TypeOK
  <1>10. Role(th[t])'
    BY <1>1, <1>2, <1>5, <1>6, <1>8 DEF Role, HasSector, HasOut, HasNode
  <1>11. HasNode(r) => Named(r.node)
    BY <1>6, <1>8 DEF HasNode
  <1>12. Roles' /\ Fresh'
    BY <1>1, <1>2, <1>3, <1>5, <1>8, <1>10, <1>11, GetFresh
  <1>13. \A n \in Nodes : Points(th'[t], n)
    <2>1. \A n, m \in Nodes : n.id = m.id => n = m
      BY ThreadType, SameNode
    <2>2. QED
      BY <1>5, <1>6, <1>8, <2>1 DEF Points, HasOut
  <1>14. \A x \in Sector \ exposed' : CopyRight(th[t], x)'
    <2> SUFFICES ASSUME NEW x \in Sector \ exposed' PROVE CopyRight(th[t], x)'
      OBVIOUS
    <2>1. r.out # x
      BY <1>8, CacheAssumption
    <2>2. x = s => (~ Cached(s) => disk[s] = done[s])
      BY <1>1, <1>2, VisibleIsDone
    <2>3. QED
      BY <1>2, <1>5, <1>8, <2>1, <2>2 DEF CopyRight, HasSector
  <1>15. th'[t].op # "flush"
    BY <1>5, <1>8
  <1>16. QED
    BY <1>2, <1>5, <1>9, <1>12, <1>13, <1>14, <1>15, DiskKeeps

\* The step of a thread that keeps its number, and names no more nodes.
LEMMA GoesOn ==
  ASSUME CacheInv, NEW t \in Thread, \A u \in Thread : u # t => th'[u] = th[u],
         UNCHANGED <<list, updates, reads>>, Role(th[t])',
         \/ th'[t].op \in {"none", "flush"}
         \/ /\ th'[t].number = th[t].number
            /\ \/ th'[t].op = th[t].op /\ (th[t].pc = "holds" => th'[t].pc = "holds")
               \/ th[t].pc = "holds" /\ th'[t].op = "put",
         HasNode(th'[t]) => Named(th'[t].node),
         \A id \in ToSet(th'[t].left) : Named(id)
  PROVE  Roles' /\ Fresh'
  <1>1. Nodes' = Nodes
    BY DEF Nodes
  <1>2. Role(th[t])
    BY DEF CacheInv, Roles
  <1>3. Roles'
    <2>1. \/ th'[t].op \in {"none", "flush"}
          \/ /\ th'[t].number = th[t].number
             /\ Changes(th'[t]) => Changes(th[t])
             /\ th'[t].op = "read" => th[t].op = "read"
      BY <1>2 DEF Changes, Role
    <2>2. QED
      BY <2>1, RolesKeep DEF CacheInv
  <1>4. \A id \in NodeId : Makes(th'[t], id) => Makes(th[t], id)
    BY <1>2 DEF Makes, Role
  <1>5. Fresh'
    BY <1>1, <1>4, FreshKeep DEF CacheInv
  <1>6. QED
    BY <1>3, <1>5

\* A step that changes nothing but where its thread stands, and may expose sectors.
LEMMA ThreadKeeps ==
  ASSUME CacheInv, NEW t \in Thread, NEW r \in ThreadState, th' = [th EXCEPT ![t] = r],
         UNCHANGED <<disk, list, updates, reads, done, unmarked>>, flushes' \in 0 .. MaxFlushes,
         exposed \subseteq exposed', exposed' \subseteq Sector, Role(r),
         \/ r.op \in {"none", "flush"}
         \/ /\ r.number = th[t].number
            /\ \/ r.op = th[t].op /\ (th[t].pc = "holds" => r.pc = "holds")
               \/ th[t].pc = "holds" /\ r.op = "put",
         HasNode(r) => Named(r.node),
         \A id \in ToSet(r.left) : Named(id),
         \A n \in Nodes : Points(r, n),
         \A s \in Sector \ exposed' : CopyRight(r, s),
         r.op = "flush" => \A s \in Sector \ exposed' : Writes(r, s)
  PROVE  CacheInv'
  <1>1. th \in [Thread -> ThreadState] /\ TypeOK
    BY ThreadType DEF CacheInv
  <1>2. th'[t] = r /\ \A u \in Thread : u # t => th'[u] = th[u]
    BY <1>1
  <1>3. TypeOK'
    BY <1>1 DEF TypeOK
  <1>4. Role(th[t])'
    BY <1>2 DEF Role
  <1>5. Roles' /\ Fresh'
    BY <1>2, <1>4, GoesOn
  <1>6. \A s \in Sector \ exposed' : CopyRight(th[t], s)'
    BY <1>2 DEF CopyRight
  <1>7. Nodes' = Nodes
    BY DEF Nodes
  <1>8. th'[t].op = "flush" => \A s \in Sector \ exposed' : Writes(th[t], s)'
    BY <1>2, <1>7 DEF Writes
  <1>9. \A n \in Nodes : Points(th'[t], n)
    BY <1>2
  <1>10. QED
    BY <1>2, <1>3, <1>5, <1>6, <1>8, <1>9, DiskKeeps

\* The thread got its copy: a read is over, a change goes on to hold it.
LEMMA GotFacts ==
  ASSUME CacheInv, NEW t \in Thread, NEW w \in ThreadState, NEW s \in Sector, NEW c \in Content,
         w.op = th[t].op, w.op \in {"read", "update"}, w.number = th[t].number, w.sector = s, w.copy = c,
         w.out = None, w.left = th[t].left, Got(t, w)
  PROVE  \E r \in ThreadState :
            /\ th' = [th EXCEPT ![t] = r] /\ Role(r) /\ ~ HasNode(r) /\ r.out = None
            /\ ToSet(r.left) \subseteq ToSet(th[t].left)
            /\ \A n : Points(r, n)
            /\ \A x \in Sector : r.out # x
            /\ r.op # "flush" /\ r.op # "put" /\ r.pc \in {"idle", "holds"}
            /\ r.pc = "idle" <=> r.op = "none"
            /\ r.pc = "holds" => /\ r.op = "update" /\ r.op = th[t].op /\ r.sector = s /\ r.copy = c
                                 /\ r.number = th[t].number
  <1>1. Role(th[t])
    BY ThreadType
  <1>2. CASE w.op = "update"
    <2>1. PICK r : r = [w EXCEPT !.pc = "holds"]
      OBVIOUS
    <2>2. /\ r \in ThreadState /\ r.pc = "holds" /\ r.op = "update" /\ r.sector = s /\ r.copy = c
          /\ r.number = th[t].number /\ r.out = None /\ r.left = th[t].left
      BY <1>2, <2>1 DEF ThreadState
    <2>3. th' = [th EXCEPT ![t] = r]
      BY <1>2, <2>1 DEF Got, Goes
    <2>4. Role(r)
      BY <1>1, <1>2, <2>2 DEF Role, HasSector, HasOut, HasNode
    <2>5. ~ HasNode(r) /\ \A n : Points(r, n)
      BY <2>2 DEF HasNode, HasOut, Points
    <2>6. QED
      BY <1>2, <2>2, <2>3, <2>4, <2>5, CacheAssumption
  <1>3. CASE w.op # "update"
    <2>1. PICK r : r = Rest
      OBVIOUS
    <2>2. th' = [th EXCEPT ![t] = r]
      BY <1>3, <2>1 DEF Got, Goes
    <2>3. r \in ThreadState /\ r.pc = "idle" /\ r.op = "none" /\ Role(r) /\ r.out = None
      BY <2>1, RestType DEF Rest
    <2>4. ~ HasNode(r) /\ ToSet(r.left) = {} /\ \A n : Points(r, n)
      BY <2>1, RestIsRight
    <2>5. QED
      BY <2>2, <2>3, <2>4, CacheAssumption
  <1>4. QED
    BY <1>2, <1>3

\* The node that was found is copied, or what the memory of one that was freed says.
LEMMA CopyKeeps ==
  ASSUME CacheInv, NEW t \in Thread, Copy(t)
  PROVE  CacheInv'
  <1>1. /\ th \in [Thread -> ThreadState] /\ th[t] \in ThreadState /\ Role(th[t]) /\ th[t].pc = "found"
        /\ TypeOK /\ list \in Seq(Node) /\ Nodes \subseteq Node /\ IdsDiffer
    BY ThreadType DEF CacheInv, Copy
  <1>2. /\ th[t].op \in {"read", "update"} /\ th[t].sector \in Sector /\ th[t].out = None
        /\ th[t].copy \in Content
    BY <1>1, OpFacts
  <1>3. PICK w : w = [th[t] EXCEPT !.node = None]
    OBVIOUS
  <1>4. /\ w \in ThreadState /\ w.pc = "found" /\ w.op = th[t].op /\ w.number = th[t].number
        /\ w.sector = th[t].sector /\ w.copy = th[t].copy /\ w.out = None /\ w.left = th[t].left
    <2>1. w \in ThreadState
      BY <1>1, <1>3 DEF ThreadState
    <2>2. /\ w.pc = "found" /\ w.op = th[t].op /\ w.number = th[t].number /\ w.sector = th[t].sector
          /\ w.copy = th[t].copy /\ w.out = th[t].out /\ w.left = th[t].left
      BY <1>1, <1>3 DEF ThreadState
    <2>3. QED
      BY <1>2, <2>1, <2>2
  <1>5. PICK id : id = th[t].node
    OBVIOUS
  <1>6. UNCHANGED <<disk, list, updates, reads, flushes, done, unmarked>> /\ flushes' \in 0 .. MaxFlushes
    BY <1>1 DEF Copy, counters, TypeOK
  <1>7. \A i \in ToSet(th[t].left) : Named(i)
    BY DEF Named
  <1>8. ASSUME NEW x \in Sector, NEW c \in Content, NEW v \in ThreadState, Got(t, v),
               v.op = th[t].op, v.number = th[t].number, v.sector = x, v.copy = c,
               v.out = None, v.left = th[t].left,
               exposed \subseteq exposed', exposed' \subseteq Sector,
               x \notin exposed' => c = done[x]
        PROVE  CacheInv'
    <2>1. PICK r \in ThreadState :
            /\ th' = [th EXCEPT ![t] = r] /\ Role(r) /\ ~ HasNode(r)
            /\ ToSet(r.left) \subseteq ToSet(th[t].left)
            /\ \A n : Points(r, n)
            /\ \A y \in Sector : r.out # y
            /\ r.op # "flush" /\ r.op # "put" /\ r.pc \in {"idle", "holds"}
            /\ r.pc = "idle" <=> r.op = "none"
            /\ r.pc = "holds" => /\ r.op = "update" /\ r.op = th[t].op /\ r.sector = x /\ r.copy = c
                                 /\ r.number = th[t].number
      BY <1>2, <1>8, GotFacts
    <2>2. \A y \in Sector \ exposed' : CopyRight(r, y)
      BY <1>8, <2>1 DEF CopyRight, HasSector
    <2>3. \/ r.op \in {"none", "flush"}
          \/ /\ r.number = th[t].number
             /\ \/ r.op = th[t].op /\ (th[t].pc = "holds" => r.pc = "holds")
                \/ th[t].pc = "holds" /\ r.op = "put"
      BY <1>1, <2>1
    <2>4. QED
      BY <1>6, <1>7, <1>8, <2>1, <2>2, <2>3, ThreadKeeps
  <1>9. CASE IsLive(id) /\ Got(t, [w EXCEPT !.copy = NodeOf(id).content]) /\ exposed' = exposed
    <2>1. PICK n \in Nodes : n = NodeOf(id) /\ n.id = id
      BY <1>1, <1>9, LiveFacts
    <2>2. n \in Node /\ n.sector = th[t].sector /\ n.content \in Content
      BY <1>1, <1>5, <2>1, ThreadType DEF Points, Node
    <2>3. PICK v : v = [w EXCEPT !.copy = n.content]
      OBVIOUS
    <2>4. /\ v \in ThreadState /\ v.op = th[t].op /\ v.number = th[t].number /\ v.sector = th[t].sector
          /\ v.copy = n.content /\ v.out = None /\ v.left = th[t].left
      BY <1>4, <2>2, <2>3 DEF ThreadState
    <2>5. n.sector \notin exposed => n.content = done[n.sector]
      BY <2>2, <1>2 DEF CacheInv, Held
    <2>6. Got(t, v) /\ exposed' \subseteq Sector
      BY <1>1, <1>9, <2>1, <2>3 DEF TypeOK
    <2>7. QED
      BY <1>2, <1>8, <1>9, <2>2, <2>4, <2>5, <2>6
  <1>10. CASE \E x \in Sector : Got(t, [w EXCEPT !.sector = x]) /\ exposed' = exposed \cup {x}
    <2>1. PICK x \in Sector : Got(t, [w EXCEPT !.sector = x]) /\ exposed' = exposed \cup {x}
      BY <1>10
    <2>2. PICK v : v = [w EXCEPT !.sector = x]
      OBVIOUS
    <2>3. /\ v \in ThreadState /\ v.op = th[t].op /\ v.number = th[t].number /\ v.sector = x
          /\ v.copy = th[t].copy /\ v.out = None /\ v.left = th[t].left
      BY <1>4, <2>2 DEF ThreadState
    <2>4. exposed' \subseteq Sector
      BY <1>1, <2>1 DEF TypeOK
    <2>5. QED
      BY <1>2, <1>8, <2>1, <2>2, <2>3, <2>4
  <1>11. CASE /\ Goes(t, [w EXCEPT !.pc = "fetch"])
              /\ exposed' = exposed \cup (IF Cached(w.sector) THEN {w.sector} ELSE {})
    <2>1. PICK r : r = [w EXCEPT !.pc = "fetch"]
      OBVIOUS
    <2>2. /\ r \in ThreadState /\ r.pc = "fetch" /\ r.op = th[t].op /\ r.number = th[t].number
          /\ r.sector = th[t].sector /\ r.out = None /\ r.left = th[t].left
      BY <1>4, <2>1 DEF ThreadState
    <2>3. th' = [th EXCEPT ![t] = r]
      BY <1>11, <2>1 DEF Goes
    <2>4. Role(r) /\ ~ HasNode(r) /\ \A n \in Nodes : Points(r, n)
      BY <1>1, <1>2, <2>2 DEF Role, HasSector, HasOut, HasNode, Points
    <2>5. exposed \subseteq exposed' /\ exposed' \subseteq Sector
      BY <1>1, <1>2, <1>4, <1>11 DEF TypeOK
    <2>6. \A x \in Sector \ exposed' : CopyRight(r, x)
      <3> SUFFICES ASSUME NEW x \in Sector \ exposed' PROVE CopyRight(r, x)
        OBVIOUS
      <3>1. r.out # x
        BY <2>2, CacheAssumption
      <3>2. x = th[t].sector => disk[x] = done[x]
        BY <1>1, <1>4, <1>11, VisibleIsDone DEF CacheInv
      <3>3. QED
        BY <2>2, <3>1, <3>2 DEF CopyRight
    <2>7. QED
      BY <1>1, <1>2, <1>6, <1>7, <2>2, <2>3, <2>4, <2>5, <2>6, ThreadKeeps
  <1>12. QED
    BY <1>3, <1>5, <1>9, <1>10, <1>11 DEF Copy

LEMMA FetchKeeps ==
  ASSUME CacheInv, NEW t \in Thread, Fetch(t)
  PROVE  CacheInv'
  <1>1. /\ th[t] \in ThreadState /\ Role(th[t]) /\ th[t].pc = "fetch" /\ TypeOK
    BY ThreadType DEF CacheInv, Fetch
  <1>2. /\ th[t].sector \in Sector /\ disk[th[t].sector] \in Content
        /\ th[t].op \in {"read", "update"} /\ th[t].out = None
    <2>1. th[t].op \in {"none", "read", "update", "put", "flush"}
      BY <1>1 DEF ThreadState
    <2>2. QED
      BY <1>1, <2>1 DEF Role, HasSector, HasOut, TypeOK
  <1>3. PICK r : r = [th[t] EXCEPT !.pc = "refill", !.copy = disk[th[t].sector]]
    OBVIOUS
  <1>4. /\ r \in ThreadState /\ r.pc = "refill" /\ r.copy = disk[th[t].sector]
        /\ r.op = th[t].op /\ r.sector = th[t].sector /\ r.number = th[t].number
        /\ r.out = None /\ r.left = th[t].left
    BY <1>1, <1>2, <1>3 DEF ThreadState
  <1>5. /\ th' = [th EXCEPT ![t] = r]
        /\ UNCHANGED <<disk, list, updates, reads, flushes, done, exposed, unmarked>>
        /\ flushes' \in 0 .. MaxFlushes /\ exposed' \subseteq Sector
    BY <1>1, <1>3 DEF Fetch, Goes, counters, ghosts, TypeOK
  <1>6. Role(r) /\ ~ HasNode(r) /\ \A n \in Nodes : Points(r, n)
    BY <1>1, <1>2, <1>4 DEF Role, HasSector, HasOut, HasNode, Points
  <1>7. \A id \in ToSet(r.left) : Named(id)
    BY <1>4 DEF Named
  <1>8. \A s \in Sector \ exposed' : CopyRight(r, s)
    <2> SUFFICES ASSUME NEW s \in Sector \ exposed' PROVE CopyRight(r, s)
      OBVIOUS
    <2>1. CopyRight(th[t], s)
      BY <1>5, ThreadType
    <2>2. r.out # s
      BY <1>4, CacheAssumption
    <2>3. QED
      BY <1>1, <1>2, <1>4, <2>1, <2>2 DEF CopyRight, HasSector
  <1>9. QED
    BY <1>1, <1>2, <1>4, <1>5, <1>6, <1>7, <1>8, ThreadKeeps

\* The search of pfs_endpoint_utils_putInCache.
LEMMA SearchKeeps ==
  ASSUME CacheInv, NEW t \in Thread, NEW w \in ThreadState, Search(t, w),
         HasSector(w), w.sector \in Sector, w.left = th[t].left, w.out = None, w.number = th[t].number,
         \/ th[t].pc = "refill" /\ w.op = th[t].op
         \/ th[t].pc = "holds" /\ w.op = "put",
         \A s \in Sector \ exposed : s = w.sector =>
             w.copy = IF w.op = "put" THEN done[s] \cup {w.number} ELSE done[s],
         UNCHANGED <<disk, list, updates, reads, flushes, done, exposed, unmarked>>
  PROVE  CacheInv'
  <1>1. Role(th[t]) /\ TypeOK /\ list \in Seq(Node) /\ Nodes \subseteq Node
    BY ThreadType DEF CacheInv
  <1>2. PICK s \in Sector : s = w.sector
    OBVIOUS
  <1>3. Cached(s) => /\ list[IndexOf(s)] \in Nodes /\ list[IndexOf(s)].sector = s
                     /\ list[IndexOf(s)].id \in NodeId /\ Named(list[IndexOf(s)].id)
    <2>1. Cached(s) => list[IndexOf(s)] \in Nodes /\ list[IndexOf(s)].sector = s
      BY <1>1, IndexFacts
    <2>2. QED
      BY <1>1, <2>1 DEF Node, Named
  <1>4. PICK r : /\ th' = [th EXCEPT ![t] = r]
                 /\ \/ Cached(s) /\ r = [w EXCEPT !.pc = "over", !.node = list[IndexOf(s)].id]
                    \/ r = [w EXCEPT !.pc = "insert"]
    BY <1>2 DEF Search, Goes
  <1>5. /\ r \in ThreadState /\ r.pc \in {"over", "insert"} /\ r.op = w.op /\ r.sector = s
        /\ r.copy = w.copy /\ r.number = w.number /\ r.out = None /\ r.left = w.left
        /\ r.pc = "over" => Cached(s) /\ r.node = list[IndexOf(s)].id
    <2>1. CASE Cached(s) /\ r = [w EXCEPT !.pc = "over", !.node = list[IndexOf(s)].id]
      <3>1. PICK i \in NodeId : i = list[IndexOf(s)].id
        BY <1>3, <2>1
      <3>2. r = [w EXCEPT !.pc = "over", !.node = i]
        BY <2>1, <3>1
      <3>3. QED
        BY <1>2, <2>1, <3>1, <3>2 DEF ThreadState
    <2>2. CASE r = [w EXCEPT !.pc = "insert"]
      BY <1>2, <2>2 DEF ThreadState
    <2>3. QED
      BY <1>4, <2>1, <2>2
  <1>6. Role(r)
    <2>1. r.op \in {"update", "put"} => r.number \in 1 .. updates
      BY <1>1, <1>5 DEF Role
    <2>2. r.op = "read" => r.number \in 1 .. reads
      BY <1>1, <1>5 DEF Role
    <2>3. QED
      BY <1>3, <1>5, <2>1, <2>2 DEF Role, HasSector, HasOut, HasNode
  <1>7. HasNode(r) => Named(r.node)
    BY <1>3, <1>5 DEF HasNode
  <1>8. \A id \in ToSet(r.left) : Named(id)
    BY <1>5 DEF Named
  <1>9. \A n \in Nodes : Points(r, n)
    <2>1. \A n, m \in Nodes : n.id = m.id => n = m
      BY ThreadType, SameNode
    <2>2. QED
      BY <1>3, <1>5, <2>1 DEF Points, HasOut
  <1>10. \A x \in Sector \ exposed' : CopyRight(r, x)
    <2> SUFFICES ASSUME NEW x \in Sector \ exposed PROVE CopyRight(r, x)
      OBVIOUS
    <2>1. r.out # x
      BY <1>5, CacheAssumption
    <2>2. QED
      BY <1>2, <1>5, <2>1 DEF CopyRight
  <1>11. flushes' \in 0 .. MaxFlushes /\ exposed' \subseteq Sector
    BY <1>1 DEF TypeOK
  <1>12. r.op # "flush"
    BY <1>5 DEF HasSector
  <1>13. \/ r.op \in {"none", "flush"}
         \/ /\ r.number = th[t].number
            /\ \/ r.op = th[t].op /\ (th[t].pc = "holds" => r.pc = "holds")
               \/ th[t].pc = "holds" /\ r.op = "put"
    BY <1>5
  <1>14. QED
    BY <1>4, <1>5, <1>6, <1>7, <1>8, <1>9, <1>10, <1>11, <1>12, <1>13, ThreadKeeps

LEMMA RefillKeeps ==
  ASSUME CacheInv, NEW t \in Thread, Refill(t)
  PROVE  CacheInv'
  <1>1. /\ th[t] \in ThreadState /\ Role(th[t]) /\ th[t].pc = "refill"
        /\ Search(t, th[t]) /\ UNCHANGED <<disk, list, updates, reads, flushes, done, exposed, unmarked>>
    BY ThreadType DEF Refill, counters, ghosts
  <1>2. /\ HasSector(th[t]) /\ th[t].sector \in Sector /\ th[t].out = None
    <2>1. th[t].op \in {"none", "read", "update", "put", "flush"}
      BY <1>1 DEF ThreadState
    <2>2. QED
      BY <1>1, <2>1 DEF Role, HasSector, HasOut
  <1>3. \A s \in Sector \ exposed : s = th[t].sector =>
            th[t].copy = IF th[t].op = "put" THEN done[s] \cup {th[t].number} ELSE done[s]
    BY <1>1, <1>2, ThreadType DEF CopyRight
  <1>4. QED
    BY <1>1, <1>2, <1>3, SearchKeeps

\* pfs_endpoint_callCachedPutSector.
LEMMA PutKeeps ==
  ASSUME CacheInv, NEW t \in Thread, Put(t)
  PROVE  CacheInv'
  <1>1. /\ th[t] \in ThreadState /\ Role(th[t]) /\ th[t].pc = "holds" /\ th[t].op = "update" /\ TypeOK
        /\ UNCHANGED <<disk, list, updates, reads, flushes, done, exposed, unmarked>>
    BY ThreadType DEF Put, counters, ghosts, Role, CacheInv
  <1>2. /\ HasSector(th[t]) /\ th[t].sector \in Sector /\ th[t].out = None
    BY <1>1 DEF Role, HasSector, HasOut
  <1>3. th[t].number \in Update
    BY <1>1, CacheAssumption DEF Role, TypeOK, Update
  <1>4. PICK c \in Content : c = th[t].copy \cup {th[t].number}
    BY <1>1, <1>3 DEF ThreadState, Content
  <1>5. PICK w : w = [th[t] EXCEPT !.copy = c, !.op = "put"]
    OBVIOUS
  <1>6. /\ w \in ThreadState /\ w.op = "put" /\ w.copy = c /\ w.sector = th[t].sector
        /\ w.number = th[t].number /\ w.out = None /\ w.left = th[t].left
    BY <1>1, <1>2, <1>5 DEF ThreadState
  <1>7. Search(t, w)
    BY <1>4, <1>5 DEF Put
  <1>8. \A s \in Sector \ exposed : s = w.sector =>
            w.copy = IF w.op = "put" THEN done[s] \cup {w.number} ELSE done[s]
    <2> SUFFICES ASSUME NEW s \in Sector \ exposed, s = th[t].sector PROVE th[t].copy = done[s]
      BY <1>4, <1>6
    <2>1. CopyRight(th[t], s)
      BY ThreadType
    <2>2. QED
      BY <1>1, <1>2, <2>1 DEF CopyRight
  <1>9. HasSector(w)
    BY <1>6 DEF HasSector
  <1>10. QED
    BY <1>1, <1>2, <1>6, <1>7, <1>8, <1>9, SearchKeeps

\* The node that leaves is chosen.
LEMMA InsertKeeps ==
  ASSUME CacheInv, NEW t \in Thread, Insert(t)
  PROVE  CacheInv'
  <1>1. /\ th[t] \in ThreadState /\ Role(th[t]) /\ th[t].pc = "insert"
        /\ TypeOK /\ list \in Seq(Node) /\ Nodes \subseteq Node
    BY ThreadType DEF CacheInv, Insert
  <1>2. HasSector(th[t]) /\ th[t].sector \in Sector /\ th[t].out = None
    <2>1. th[t].op \in {"none", "read", "update", "put", "flush"}
      BY <1>1 DEF ThreadState
    <2>2. QED
      BY <1>1, <2>1 DEF Role, HasSector, HasOut
  <1>3. PICK r : th' = [th EXCEPT ![t] = r] /\
          \/ Len(list) >= MaxCount /\ r = [th[t] EXCEPT !.pc = "chosen", !.node = list[1].id]
          \/ r = [th[t] EXCEPT !.pc = "add"]
    BY DEF Insert, Goes
  <1>4. /\ UNCHANGED <<disk, list, updates, reads, flushes, done, exposed, unmarked>>
        /\ flushes' \in 0 .. MaxFlushes /\ exposed' \subseteq Sector
    BY <1>1 DEF Insert, counters, ghosts, TypeOK
  <1>5. Len(list) >= MaxCount => list[1].id \in NodeId /\ Named(list[1].id)
    <2>1. Len(list) >= MaxCount => 1 \in DOMAIN list
      BY <1>1, CacheAssumption
    <2>2. Len(list) >= MaxCount => list[1] \in Nodes
      BY <2>1, InNodes
    <2>3. QED
      BY <1>1, <2>2 DEF Node, Named
  <1>6. /\ r \in ThreadState /\ r.pc \in {"chosen", "add"} /\ r.copy = th[t].copy
        /\ r.op = th[t].op /\ r.sector = th[t].sector /\ r.number = th[t].number
        /\ r.left = th[t].left /\ r.out = None
        /\ r.pc = "chosen" => r.node \in NodeId /\ Named(r.node)
    <2>1. CASE Len(list) >= MaxCount /\ r = [th[t] EXCEPT !.pc = "chosen", !.node = list[1].id]
      <3>1. PICK i \in NodeId : i = list[1].id /\ Named(i)
        BY <1>5, <2>1
      <3>2. r = [th[t] EXCEPT !.pc = "chosen", !.node = i]
        BY <2>1, <3>1
      <3>3. QED
        BY <1>1, <1>2, <3>1, <3>2 DEF ThreadState
    <2>2. CASE r = [th[t] EXCEPT !.pc = "add"]
      BY <1>1, <1>2, <2>2 DEF ThreadState
    <2>3. QED
      BY <1>3, <2>1, <2>2
  <1>7. Role(r) /\ (HasNode(r) => Named(r.node)) /\ \A n \in Nodes : Points(r, n)
    BY <1>1, <1>2, <1>6 DEF Role, HasSector, HasOut, HasNode, Points
  <1>8. \A id \in ToSet(r.left) : Named(id)
    BY <1>6 DEF Named
  <1>9. \A s \in Sector \ exposed' : CopyRight(r, s)
    <2> SUFFICES ASSUME NEW s \in Sector \ exposed' PROVE CopyRight(r, s)
      OBVIOUS
    <2>1. CopyRight(th[t], s)
      BY <1>4, ThreadType
    <2>2. r.out # s
      BY <1>6, CacheAssumption
    <2>3. QED
      BY <1>1, <1>2, <1>6, <2>1, <2>2 DEF CopyRight, HasSector
  <1>10. QED
    BY <1>1, <1>2, <1>3, <1>4, <1>6, <1>7, <1>8, <1>9, ThreadKeeps DEF HasSector

\* The node that leaves, or that a flush writes, is copied.
LEMMA CopyOutKeeps ==
  ASSUME CacheInv, NEW t \in Thread, CopyOut(t)
  PROVE  CacheInv'
  <1>1. /\ th[t] \in ThreadState /\ Role(th[t]) /\ th[t].pc = "chosen"
        /\ TypeOK /\ list \in Seq(Node) /\ Nodes \subseteq Node /\ IdsDiffer
    BY ThreadType DEF CacheInv, CopyOut
  <1>2. /\ UNCHANGED <<disk, list, updates, reads, flushes, done, unmarked>>
        /\ flushes' \in 0 .. MaxFlushes
    BY <1>1 DEF CopyOut, counters, TypeOK
  <1>3. th[t].outCopy \in Content /\ HasNode(th[t]) /\ Named(th[t].node)
    BY <1>1 DEF ThreadState, HasNode, Named
  <1>4. ASSUME NEW x \in Sector, NEW c \in Content, NEW r,
               r = [th[t] EXCEPT !.pc = "write", !.out = x, !.outCopy = c],
               th' = [th EXCEPT ![t] = r], exposed \subseteq exposed', exposed' \subseteq Sector,
               x \notin exposed' => c = done[x],
               \A n \in Nodes : n.id = th[t].node => n.sector = x
        PROVE  CacheInv'
    <2>1. /\ r \in ThreadState /\ r.pc = "write" /\ r.copy = th[t].copy
          /\ r.op = th[t].op /\ r.sector = th[t].sector /\ r.number = th[t].number
          /\ r.left = th[t].left /\ r.out = x /\ r.outCopy = c /\ r.node = th[t].node
          /\ r.before = th[t].before
      BY <1>1, <1>4 DEF ThreadState
    <2>2. th[t].op # "none"
      BY <1>1 DEF Role
    <2>3. Role(r) /\ Named(r.node)
      BY <1>1, <1>3, <2>1, <2>2 DEF Role, HasSector, HasOut, HasNode
    <2>4. \A n \in Nodes : Points(r, n)
      BY <1>4, <2>1 DEF Points
    <2>5. \A id \in ToSet(r.left) : Named(id)
      BY <2>1 DEF Named
    <2>6. \A s \in Sector \ exposed' : CopyRight(r, s)
      <3> SUFFICES ASSUME NEW s \in Sector \ exposed' PROVE CopyRight(r, s)
        OBVIOUS
      <3>1. CopyRight(th[t], s)
        BY <1>4, ThreadType
      <3>2. QED
        BY <1>1, <1>4, <2>1, <3>1 DEF CopyRight, HasSector
    <2>7. r.op = "flush" => \A s \in Sector \ exposed' : Writes(r, s)
      <3> SUFFICES ASSUME r.op = "flush", NEW s \in Sector \ exposed' PROVE Writes(r, s)
        OBVIOUS
      <3>1. Writes(th[t], s)
        BY <1>4, <2>1 DEF CacheInv, Flushes
      <3>2. QED
        BY <2>1, <3>1 DEF Writes
    <2>8. QED
      BY <1>1, <1>2, <1>4, <2>1, <2>3, <2>4, <2>5, <2>6, <2>7, ThreadKeeps
  <1>5. CASE /\ IsLive(th[t].node) /\ exposed' = exposed
             /\ th' = [th EXCEPT ![t] = [th[t] EXCEPT !.pc = "write", !.out = NodeOf(th[t].node).sector,
                                                     !.outCopy = NodeOf(th[t].node).content]]
    <2>1. PICK n \in Nodes : n = NodeOf(th[t].node) /\ n.id = th[t].node
      BY <1>1, <1>5, LiveFacts
    <2>2. n \in Node /\ n.sector \in Sector /\ n.content \in Content
      BY <1>1 DEF Node
    <2>3. n.sector \notin exposed => n.content = done[n.sector]
      BY <2>2 DEF CacheInv, Held
    <2>4. \A m \in Nodes : m.id = th[t].node => m.sector = n.sector
      BY <1>1, <2>1, SameNode
    <2>5. exposed' \subseteq Sector
      BY <1>1, <1>5 DEF TypeOK
    <2>6. th' = [th EXCEPT ![t] = [th[t] EXCEPT !.pc = "write", !.out = n.sector, !.outCopy = n.content]]
      BY <1>5, <2>1
    <2>7. QED
      BY <1>4, <1>5, <2>2, <2>3, <2>4, <2>5, <2>6
  <1>6. CASE /\ ~ IsLive(th[t].node)
             /\ \E x \in Sector : /\ th' = [th EXCEPT ![t] = [th[t] EXCEPT !.pc = "write", !.out = x]]
                                  /\ exposed' = exposed \cup {x}
    <2>1. PICK x \in Sector : /\ th' = [th EXCEPT ![t] = [th[t] EXCEPT !.pc = "write", !.out = x]]
                              /\ exposed' = exposed \cup {x}
      BY <1>6
    <2>2. PICK c \in Content : c = th[t].outCopy
      BY <1>3
    <2>3. [th[t] EXCEPT !.pc = "write", !.out = x] = [th[t] EXCEPT !.pc = "write", !.out = x, !.outCopy = c]
      BY <1>1, <2>2 DEF ThreadState
    <2>4. \A n \in Nodes : n.id # th[t].node
      BY <1>1, <1>6, LiveNode
    <2>5. exposed' \subseteq Sector
      BY <1>1, <2>1 DEF TypeOK
    <2>6. QED
      BY <1>4, <2>1, <2>3, <2>4, <2>5
  <1>7. PICK v : v = [th[t] EXCEPT !.pc = "write"]
    OBVIOUS
  <1>8. /\ [v EXCEPT !.out = NodeOf(th[t].node).sector, !.outCopy = NodeOf(th[t].node).content]
            = [th[t] EXCEPT !.pc = "write", !.out = NodeOf(th[t].node).sector,
                            !.outCopy = NodeOf(th[t].node).content]
        /\ \A x : [v EXCEPT !.out = x] = [th[t] EXCEPT !.pc = "write", !.out = x]
    BY <1>1, <1>7 DEF ThreadState
  <1>9. QED
    BY <1>5, <1>6, <1>7, <1>8 DEF CopyOut, Goes

\* pfs_endpoint_callPutSector.
LEMMA WriteKeeps ==
  ASSUME CacheInv, NEW t \in Thread, Write(t)
  PROVE  CacheInv'
  <1>1. /\ th \in [Thread -> ThreadState] /\ th[t] \in ThreadState /\ Role(th[t]) /\ th[t].pc = "write"
        /\ TypeOK /\ th[t].out \in Sector /\ th[t].outCopy \in Content /\ th[t].op # "none"
    BY ThreadType DEF CacheInv, Write, Role, HasOut, ThreadState
  <1>2. PICK p \in {"mark", "remove"} : p = IF th[t].op = "flush" THEN "mark" ELSE "remove"
    OBVIOUS
  <1>3. PICK r : r = [th[t] EXCEPT !.pc = p]
    OBVIOUS
  <1>4. /\ r \in ThreadState /\ r.pc = p /\ r.op = th[t].op /\ r.before = th[t].before
        /\ r.copy = th[t].copy /\ r.sector = th[t].sector /\ r.number = th[t].number
        /\ r.node = th[t].node
        /\ r.out = th[t].out /\ r.outCopy = th[t].outCopy /\ r.left = th[t].left
    BY <1>1, <1>2, <1>3 DEF ThreadState
  <1>5. /\ th' = [th EXCEPT ![t] = r] /\ disk' = [disk EXCEPT ![r.out] = r.outCopy]
        /\ UNCHANGED <<list, updates, reads, flushes, done, exposed, unmarked>>
    BY <1>2, <1>3, <1>4 DEF Write, Goes, counters, ghosts
  <1>6. th'[t] = r /\ \A u \in Thread : u # t => th'[u] = th[u]
    BY <1>1, <1>5
  <1>7. /\ disk' \in [Sector -> Content]
        /\ \A s \in Sector : disk'[s] = IF s = r.out THEN r.outCopy ELSE disk[s]
    BY <1>1, <1>4, <1>5 DEF TypeOK
  <1>8. TypeOK'
    BY <1>1, <1>4, <1>5, <1>7 DEF TypeOK
  <1>9. Role(th[t])'
    BY <1>1, <1>2, <1>4, <1>5, <1>6 DEF Role, HasSector, HasOut, HasNode
  <1>10. Named(r.node) /\ \A id \in ToSet(r.left) : Named(id)
    BY <1>1, <1>4 DEF Named, HasNode
  <1>11. Roles' /\ Fresh'
    BY <1>1, <1>4, <1>5, <1>6, <1>9, <1>10, GoesOn
  <1>12. \A n \in Nodes : Points(th'[t], n)
    <2>1. \A n \in Nodes : Points(th[t], n)
      BY ThreadType
    <2>2. QED
      BY <1>1, <1>2, <1>4, <1>6, <2>1 DEF Points, HasOut
  <1>13. \A s \in Sector \ exposed' : CopyRight(th[t], s)
    BY <1>5, ThreadType
  <1>14. \A s \in Sector \ exposed' : CopyRight(th[t], s)'
    <2> SUFFICES ASSUME NEW s \in Sector \ exposed' PROVE CopyRight(th[t], s)'
      OBVIOUS
    <2>1. CopyRight(th[t], s)
      BY <1>13
    <2>2. QED
      BY <1>1, <1>2, <1>4, <1>5, <1>6, <1>7, <2>1 DEF CopyRight, HasSector
  <1>15. \A s \in Sector \ exposed' : disk'[s] = disk[s] \/ disk'[s] = done[s]
    BY <1>4, <1>7, <1>13 DEF CopyRight
  <1>16. th'[t].op = "flush" => \A s \in Sector \ exposed' : Writes(th[t], s)'
    <2> SUFFICES ASSUME th[t].op = "flush", NEW s \in Sector \ exposed' PROVE Writes(th[t], s)'
      BY <1>4, <1>6
    <2>1. Nodes' = Nodes /\ done' = done
      BY <1>5 DEF Nodes
    <2>2. Writes(th[t], s) /\ (disk'[s] = disk[s] \/ disk'[s] = done[s])
      BY <1>5, <1>15 DEF CacheInv, Flushes
    <2>3. QED
      BY <1>4, <1>6, <2>1, <2>2 DEF Writes
  <1>17. QED
    BY <1>5, <1>6, <1>8, <1>11, <1>12, <1>14, <1>15, <1>16, DiskKeeps

-----------------------------------------------------------------------------
(* A flush.                                                                 *)

LEMMA TailSet ==
  ASSUME NEW T, NEW q \in Seq(T), q # <<>>
  PROVE  Tail(q) \in Seq(T) /\ Head(q) \in T /\ ToSet(q) = {Head(q)} \cup ToSet(Tail(q))
  <1>1. PICK k \in Nat : k = Len(q) /\ DOMAIN q = 1 .. k /\ k # 0
    BY EmptySeq, LenProperties
  <1>2. /\ Tail(q) \in Seq(T) /\ DOMAIN Tail(q) = 1 .. k - 1 /\ Head(q) = q[1] /\ Head(q) \in T
        /\ \A i \in 1 .. k - 1 : Tail(q)[i] = q[i + 1]
    BY <1>1, HeadTailProperties
  <1>3. ASSUME NEW x \in ToSet(q) PROVE x \in {Head(q)} \cup ToSet(Tail(q))
    <2>1. PICK i \in 1 .. k : q[i] = x
      BY <1>1, <1>3 DEF ToSet
    <2>2. CASE i = 1
      BY <1>2, <2>1, <2>2
    <2>3. CASE i # 1
      <3>1. i - 1 \in 1 .. k - 1 /\ Tail(q)[i - 1] = x
        BY <1>1, <1>2, <2>1, <2>3
      <3>2. QED
        BY <1>2, <3>1 DEF ToSet
    <2>4. QED
      BY <2>2, <2>3
  <1>4. Head(q) \in ToSet(q)
    BY <1>1, <1>2 DEF ToSet
  <1>5. ASSUME NEW x \in ToSet(Tail(q)) PROVE x \in ToSet(q)
    <2>1. PICK i \in 1 .. k - 1 : Tail(q)[i] = x
      BY <1>2, <1>5 DEF ToSet
    <2>2. i + 1 \in 1 .. k /\ q[i + 1] = x
      BY <1>1, <1>2, <2>1
    <2>3. QED
      BY <1>1, <2>2 DEF ToSet
  <1>6. QED
    BY <1>2, <1>3, <1>4, <1>5

\* pfs_fuse_flush: all that was put is on the disk, or in a node it will visit.
LEMMA FlushKeeps ==
  ASSUME CacheInv, NEW t \in Thread, Flush(t)
  PROVE  CacheInv'
  <1>1. /\ th \in [Thread -> ThreadState] /\ list \in Seq(Node) /\ Nodes \subseteq Node /\ TypeOK
        /\ flushes \in 0 .. MaxFlushes /\ MaxFlushes \in Nat
    BY ThreadType, CacheAssumption DEF CacheInv, TypeOK
  <1>2. PICK q, b : /\ q = [i \in DOMAIN list |-> list[i].id]
                    /\ b = [s \in Sector |-> IF s \in unmarked THEN {} ELSE done[s]]
    OBVIOUS
  <1>3. PICK r : r = [Rest EXCEPT !.pc = "visit", !.op = "flush", !.left = q, !.before = b]
    OBVIOUS
  <1>4. /\ th' = [th EXCEPT ![t] = r] /\ flushes' = flushes + 1 /\ flushes < MaxFlushes
        /\ UNCHANGED <<disk, list, updates, reads, done, exposed, unmarked>>
    BY <1>2, <1>3 DEF Flush, Goes, ghosts
  <1>5. q \in Seq(NodeId) /\ \A n \in Nodes : n.id \in ToSet(q)
    <2>1. PICK k \in Nat : DOMAIN list = 1 .. k
      BY <1>1, LenProperties
    <2>2. \A i \in 1 .. k : list[i].id \in NodeId
      BY <1>1, <2>1, InNodes DEF Node
    <2>3. q \in [1 .. k -> NodeId]
      BY <1>2, <2>1, <2>2
    <2>4. q \in Seq(NodeId)
      BY <2>1, <2>3, SeqDef
    <2>5. \A i \in DOMAIN list : list[i].id \in ToSet(q)
      BY <1>2 DEF ToSet
    <2>6. QED
      BY <2>4, <2>5, NodesAt
  <1>6. b \in [Sector -> Content] /\ \A s \in Sector : b[s] = IF s \in unmarked THEN {} ELSE done[s]
    BY <1>1, <1>2 DEF TypeOK, Content
  <1>7. /\ r \in ThreadState /\ r.pc = "visit" /\ r.op = "flush" /\ r.left = q /\ r.before = b
        /\ r.out = None
    <2>1. PICK z : z = Rest /\ z \in ThreadState /\ z.out = None
      BY RestType DEF Rest
    <2>2. QED
      BY <1>3, <1>5, <1>6, <2>1, ZenonT(60) DEF ThreadState
  <1>8. Role(r) /\ ~ HasNode(r) /\ \A n \in Nodes : Points(r, n)
    BY <1>7 DEF Role, HasSector, HasOut, HasNode, Points
  <1>9. \A id \in ToSet(r.left) : Named(id)
    <2>1. \A i \in DOMAIN list : Named(list[i].id)
      BY InNodes DEF Named
    <2>2. QED
      BY <1>2, <1>7, <2>1 DEF ToSet
  <1>10. \A s \in Sector \ exposed' : CopyRight(r, s)
    BY <1>7, CacheAssumption DEF CopyRight, HasSector
  <1>11. \A s \in Sector \ exposed' : Writes(r, s)
    <2> SUFFICES ASSUME NEW s \in Sector \ exposed PROVE Writes(r, s)
      BY <1>4
    <2>1. CASE s \in unmarked
      BY <1>6, <1>7, <2>1 DEF Writes
    <2>2. CASE s \notin unmarked /\ disk[s] = done[s]
      BY <1>6, <1>7, <2>2 DEF Writes
    <2>3. CASE s \notin unmarked /\ disk[s] # done[s]
      <3>1. PICK n \in Nodes : n.sector = s
        BY <2>3 DEF CacheInv, Held
      <3>2. n.modificado
        BY <2>3, <3>1 DEF CacheInv, Marked
      <3>3. n.id \in ToSet(r.left)
        BY <1>5, <1>7
      <3>4. QED
        BY <1>6, <1>7, <2>3, <3>1, <3>2, <3>3 DEF Writes
    <2>4. QED
      BY <2>1, <2>2, <2>3
  <1>12. flushes' \in 0 .. MaxFlushes /\ exposed' \subseteq Sector
    BY <1>1, <1>4 DEF TypeOK
  <1>13. QED
    BY <1>4, <1>7, <1>8, <1>9, <1>10, <1>11, <1>12, ThreadKeeps

LEMMA FlushEndKeeps ==
  ASSUME CacheInv, NEW t \in Thread, FlushEnd(t)
  PROVE  CacheInv'
  <1>1. TypeOK
    BY DEF CacheInv
  <1>2. /\ th' = [th EXCEPT ![t] = Rest]
        /\ UNCHANGED <<disk, list, updates, reads, flushes, done, exposed, unmarked>>
        /\ flushes' \in 0 .. MaxFlushes /\ exposed' \subseteq Sector
    BY <1>1 DEF FlushEnd, Goes, counters, ghosts, TypeOK
  <1>3. PICK r : r = Rest
    OBVIOUS
  <1>4. r \in ThreadState /\ r.op = "none" /\ Role(r)
    BY <1>3, RestType
  <1>5. /\ ~ HasNode(r) /\ ToSet(r.left) = {}
        /\ \A n : Points(r, n)
        /\ \A s \in Sector : r.out # s /\ ~ HasSector(r)
    BY <1>3, RestIsRight
  <1>6. \A s \in Sector \ exposed' : CopyRight(r, s)
    BY <1>5 DEF CopyRight
  <1>7. QED
    BY <1>2, <1>3, <1>4, <1>5, <1>6, ThreadKeeps

\* The node that is next is looked at.  One that is not marked has nothing to
\* write, nor has one that was freed, whose sector another has written.
LEMMA VisitKeeps ==
  ASSUME CacheInv, NEW t \in Thread, Visit(t)
  PROVE  CacheInv'
  <1>1. /\ th[t] \in ThreadState /\ Role(th[t]) /\ th[t].pc = "visit"
        /\ TypeOK /\ list \in Seq(Node) /\ IdsDiffer /\ th[t].left # <<>>
    BY ThreadType DEF CacheInv, Visit
  <1>2. th[t].op = "flush" /\ th[t].out = None
    <2>1. th[t].op \in {"none", "read", "update", "put", "flush"}
      BY <1>1 DEF ThreadState
    <2>2. QED
      BY <1>1, <2>1 DEF Role, HasSector, HasOut
  <1>3. PICK id, q : id = Head(th[t].left) /\ q = Tail(th[t].left)
    OBVIOUS
  <1>4. /\ q \in Seq(NodeId) /\ id \in NodeId /\ ToSet(th[t].left) = {id} \cup ToSet(q)
    <2>1. th[t].left \in Seq(NodeId)
      BY <1>1 DEF ThreadState
    <2>2. QED
      BY <1>1, <1>3, <2>1, TailSet
  <1>5. /\ UNCHANGED <<disk, list, updates, reads, flushes, done, exposed, unmarked>>
        /\ flushes' \in 0 .. MaxFlushes /\ exposed' \subseteq Sector
    BY <1>1 DEF Visit, counters, ghosts, TypeOK
  <1>6. \A s \in Sector \ exposed : Writes(th[t], s)
    BY <1>2 DEF CacheInv, Flushes
  <1>7. Named(id) /\ \A i \in ToSet(q) : Named(i)
    BY <1>4 DEF Named
  <1>8. CASE th' = [th EXCEPT ![t] = [th[t] EXCEPT !.pc = "chosen", !.node = id]]
    <2>1. PICK r : r = [th[t] EXCEPT !.pc = "chosen", !.node = id]
      OBVIOUS
    <2>2. /\ r \in ThreadState /\ r.pc = "chosen" /\ r.node = id /\ r.out = None
          /\ r.left = th[t].left /\ r.op = "flush" /\ r.before = th[t].before
      BY <1>1, <1>2, <1>4, <2>1 DEF ThreadState
    <2>3. Role(r) /\ \A n \in Nodes : Points(r, n)
      BY <1>1, <1>3, <1>4, <2>2 DEF Role, HasSector, HasOut, HasNode, Points
    <2>4. \A s \in Sector \ exposed' : CopyRight(r, s) /\ Writes(r, s)
      <3>1. \A s \in Sector \ exposed' : CopyRight(r, s)
        BY <2>2, CacheAssumption DEF CopyRight, HasSector
      <3>2. \A s \in Sector \ exposed' : Writes(r, s)
        BY <1>5, <1>6, <2>2 DEF Writes
      <3>3. QED
        BY <3>1, <3>2
    <2>5. HasNode(r) => Named(r.node)
      BY <1>7, <2>2
    <2>6. \A i \in ToSet(r.left) : Named(i)
      BY <1>4, <1>7, <2>2
    <2>7. QED
      BY <1>5, <1>8, <2>1, <2>2, <2>3, <2>4, <2>5, <2>6, ThreadKeeps
  <1>9. CASE /\ IsLive(id) => ~ NodeOf(id).modificado
             /\ th' = [th EXCEPT ![t] = [th[t] EXCEPT !.left = q]]
    <2>1. PICK r : r = [th[t] EXCEPT !.left = q]
      OBVIOUS
    <2>2. /\ r \in ThreadState /\ r.pc = "visit" /\ r.out = None /\ r.left = q /\ r.op = "flush"
          /\ r.before = th[t].before
      BY <1>1, <1>2, <1>4, <2>1 DEF ThreadState
    <2>3. Role(r) /\ ~ HasNode(r) /\ \A n \in Nodes : Points(r, n)
      BY <1>1, <2>2 DEF Role, HasSector, HasOut, HasNode, Points
    <2>4. \A s \in Sector \ exposed' : CopyRight(r, s)
      BY <2>2, CacheAssumption DEF CopyRight, HasSector
    <2>5. \A s \in Sector \ exposed' : Writes(r, s)
      <3> SUFFICES ASSUME NEW s \in Sector \ exposed PROVE Writes(r, s)
        BY <1>5
      <3>1. \A m \in Nodes : m.id = id => ~ m.modificado
        BY <1>1, <1>9, LiveNode
      <3>2. Writes(th[t], s)
        BY <1>6
      <3>3. \A m \in Nodes : m.modificado /\ m.id \in ToSet(th[t].left) => m.id \in ToSet(q)
        BY <1>4, <3>1
      <3>4. QED
        BY <2>2, <3>2, <3>3 DEF Writes
    <2>6. \A i \in ToSet(r.left) : Named(i)
      BY <1>7, <2>2
    <2>7. QED
      BY <1>5, <1>9, <2>1, <2>2, <2>3, <2>4, <2>5, <2>6, ThreadKeeps
  <1>10. PICK v : v = [th[t] EXCEPT !.left = Tail(@)]
    OBVIOUS
  <1>11. v = [th[t] EXCEPT !.left = q]
    BY <1>3, <1>10
  <1>12. QED
    BY <1>3, <1>8, <1>9, <1>10, <1>11 DEF Visit, Goes

-----------------------------------------------------------------------------
(* The list changes.                                                        *)

\* What a put leaves of the copies of others: nothing is said where there is one.
LEMMA CopiesKeep ==
  ASSUME CacheInv, NEW t \in Thread, \A u \in Thread : u # t => th'[u] = th[u],
         UNCHANGED disk, exposed \subseteq exposed',
         \A x \in Sector \ exposed' : \/ done'[x] = done[x]
                                      \/ \A u \in Thread \ {t} : ~ Carries(th[u], x),
         \A x \in Sector \ exposed' : CopyRight(th[t], x)'
  PROVE  Copies'
  <1> SUFFICES ASSUME NEW u \in Thread, NEW x \in Sector \ exposed' PROVE CopyRight(th[u], x)'
    BY DEF Copies
  <1>1. CASE u = t
    BY <1>1
  <1>2. CASE u # t /\ done'[x] = done[x]
    <2>1. CopyRight(th[u], x) /\ th'[u] = th[u]
      BY <1>2 DEF CacheInv, Copies
    <2>2. QED
      BY <1>2, <2>1 DEF CopyRight
  <1>3. CASE u # t /\ ~ Carries(th[u], x)
    BY <1>3 DEF CopyRight, Carries
  <1>4. QED
    BY <1>1, <1>2, <1>3

\* A node that is marked stays so, or its sector is on the disk.
LEMMA FlushesKeep ==
  ASSUME CacheInv, NEW t \in Thread, \A u \in Thread : u # t => th'[u] = th[u],
         UNCHANGED disk, exposed \subseteq exposed',
         \A x \in Sector : done[x] \subseteq done'[x],
         \A n \in Nodes : (n.modificado /\ n.sector \notin exposed') =>
             \/ \E m \in Nodes' : m.id = n.id /\ m.sector = n.sector /\ m.modificado
             \/ disk[n.sector] = done[n.sector],
         th'[t].op = "flush" => \A x \in Sector \ exposed' : Writes(th[t], x)'
  PROVE  Flushes'
  <1> SUFFICES ASSUME NEW u \in Thread, NEW x \in Sector \ exposed', th'[u].op = "flush"
               PROVE  Writes(th[u], x)'
    BY DEF Flushes
  <1>1. CASE u = t
    BY <1>1
  <1>2. CASE u # t
    <2>1. th'[u] = th[u] /\ Writes(th[u], x)
      BY <1>2 DEF CacheInv, Flushes
    <2>2. th[u].before[x] \subseteq done[x] /\ done[x] \subseteq done'[x]
      BY <2>1 DEF Writes
    <2>3. CASE th[u].before[x] \subseteq disk[x]
      BY <2>1, <2>2, <2>3 DEF Writes
    <2>4. CASE \E n \in Nodes : n.sector = x /\ n.modificado /\ n.id \in ToSet(th[u].left)
      <3>1. PICK n \in Nodes : n.sector = x /\ n.modificado /\ n.id \in ToSet(th[u].left)
        BY <2>4
      <3>2. CASE disk[x] = done[x]
        BY <2>1, <2>2, <3>2 DEF Writes
      <3>3. CASE \E m \in Nodes' : m.id = n.id /\ m.sector = n.sector /\ m.modificado
        BY <2>1, <2>2, <3>1, <3>3 DEF Writes
      <3>4. QED
        BY <3>1, <3>2, <3>3
    <2>5. QED
      BY <2>1, <2>3, <2>4 DEF Writes
  <1>3. QED
    BY <1>1, <1>2

\* A node is written over: by what was fetched, by a put, by the mark of a flush.
LEMMA ReplacedKeeps ==
  ASSUME CacheInv, NEW t \in Thread, \A u \in Thread : u # t => th'[u] = th[u],
         UNCHANGED disk, exposed \subseteq exposed',
         \A x \in Sector : done[x] \subseteq done'[x],
         \A x \in Sector \ exposed' : \/ done'[x] = done[x]
                                      \/ \A u \in Thread \ {t} : ~ Carries(th[u], x),
         \A x \in Sector \ exposed' : CopyRight(th[t], x)',
         th'[t].op = "flush" => \A x \in Sector \ exposed' : Writes(th[t], x)',
         NEW n \in Nodes, NEW m, m.id = n.id, m.sector = n.sector,
         Nodes' = (Nodes \ {n}) \cup {m},
         \A x \in Sector \ exposed' : x # n.sector => /\ done'[x] = done[x]
                                                      /\ x \in unmarked => x \in unmarked',
         n.sector \notin exposed' =>
             /\ m.content = done'[n.sector]
             /\ m.modificado \/ n.sector \in unmarked' \/ disk[n.sector] = done'[n.sector]
             /\ n.modificado => m.modificado \/ disk[n.sector] = done[n.sector]
  PROVE  Copies' /\ OneNode' /\ Held' /\ Marked' /\ Flushes'
  <1>1. Copies'
    BY CopiesKeep
  <1>2. PICK s : s = n.sector
    OBVIOUS
  <1>3. s \notin exposed' => \A k \in Nodes : k.sector = s => k = n
    BY <1>2 DEF CacheInv, OneNode
  <1>4. OneNode'
    <2>1. \A x, y \in Nodes : x.sector = y.sector => x = y \/ x.sector \in exposed
      BY DEF CacheInv, OneNode
    <2>2. ASSUME NEW x \in Nodes', NEW y \in Nodes', x.sector = y.sector, x.sector \notin exposed'
          PROVE  x = y
      <3>1. CASE x = m
        BY <1>2, <1>3, <2>2, <3>1
      <3>2. CASE y = m
        BY <1>2, <1>3, <2>2, <3>2
      <3>3. CASE x \in Nodes /\ y \in Nodes
        BY <2>1, <2>2, <3>3
      <3>4. QED
        BY <3>1, <3>2, <3>3
    <2>3. QED
      BY <2>2 DEF OneNode
  <1>5. Held'
    <2> SUFFICES ASSUME NEW x \in Sector \ exposed'
                 PROVE  /\ \A k \in Nodes' : k.sector = x => k.content = done'[x]
                        /\ disk'[x] = done'[x] \/ \E k \in Nodes' : k.sector = x
      BY DEF Held
    <2>1. /\ \A k \in Nodes : k.sector = x => k.content = done[x]
          /\ disk[x] = done[x] \/ \E k \in Nodes : k.sector = x
      BY DEF CacheInv, Held
    <2>2. CASE x = s
      BY <1>2, <1>3, <2>2
    <2>3. CASE x # s
      BY <1>2, <2>1, <2>3
    <2>4. QED
      BY <2>2, <2>3
  <1>6. Marked'
    <2> SUFFICES ASSUME NEW x \in Sector \ exposed', NEW k \in Nodes', k.sector = x
                 PROVE  k.modificado \/ x \in unmarked' \/ disk'[x] = done'[x]
      BY DEF Marked
    <2>1. CASE k = m
      BY <1>2, <2>1
    <2>2. CASE k \in Nodes /\ k # n
      <3>1. x # s
        BY <1>3, <2>2
      <3>2. k.modificado \/ x \in unmarked \/ disk[x] = done[x]
        BY <2>2 DEF CacheInv, Marked
      <3>3. QED
        BY <1>2, <3>1, <3>2
    <2>3. QED
      BY <2>1, <2>2
  <1>7. Flushes'
    <2>1. \A k \in Nodes : (k.modificado /\ k.sector \notin exposed') =>
             \/ \E j \in Nodes' : j.id = k.id /\ j.sector = k.sector /\ j.modificado
             \/ disk[k.sector] = done[k.sector]
      <3> SUFFICES ASSUME NEW k \in Nodes, k.modificado, k.sector \notin exposed'
                   PROVE  \/ \E j \in Nodes' : j.id = k.id /\ j.sector = k.sector /\ j.modificado
                          \/ disk[k.sector] = done[k.sector]
        OBVIOUS
      <3>1. CASE k = n
        BY <3>1
      <3>2. CASE k # n
        BY <3>2
      <3>3. QED
        BY <3>1, <3>2
    <2>2. QED
      BY <2>1, FlushesKeep
  <1>8. QED
    BY <1>1, <1>4, <1>5, <1>6, <1>7

\* Its identity and its sector stay: so do the state, and what points to it.
LEMMA ReplacedNames ==
  ASSUME CacheInv, NEW t \in Thread, NEW r \in ThreadState, th' = [th EXCEPT ![t] = r],
         UNCHANGED <<disk, updates, reads, flushes>>,
         done' \in [Sector -> Content], unmarked' \subseteq Sector, exposed' \subseteq Sector,
         Role(r), ~ HasNode(r), \A n : Points(r, n),
         ToSet(r.left) \subseteq ToSet(th[t].left),
         \/ r.op \in {"none", "flush"}
         \/ r.op = "update" /\ th[t].op = "update" /\ r.number = th[t].number,
         \A k \in NodeId : Makes(r, k) => Makes(th[t], k),
         NEW i \in DOMAIN list, NEW m \in Node, m.id = list[i].id, m.sector = list[i].sector,
         list' = [list EXCEPT ![i] = m]
  PROVE  /\ TypeOK' /\ Roles' /\ Fresh' /\ PointsRight'
         /\ list[i] \in Nodes /\ Nodes' = (Nodes \ {list[i]}) \cup {m}
  <1>1. th \in [Thread -> ThreadState] /\ TypeOK /\ list \in Seq(Node) /\ IdsDiffer
    BY ThreadType DEF CacheInv
  <1>2. th'[t] = r /\ \A u \in Thread : u # t => th'[u] = th[u]
    BY <1>1
  <1>3. /\ list' \in Seq(Node) /\ IdsDiffer' /\ list[i] \in Nodes
        /\ Nodes' = (Nodes \ {list[i]}) \cup {m}
    BY <1>1, ReplacedNodes, InNodes
  <1>4. TypeOK'
    BY <1>1, <1>3 DEF TypeOK, IdsDiffer
  <1>5. Role(th[t])'
    BY <1>2 DEF Role
  <1>6. Roles'
    <2>1. \/ th'[t].op \in {"none", "flush"}
          \/ /\ th'[t].number = th[t].number
             /\ Changes(th'[t]) => Changes(th[t])
             /\ th'[t].op = "read" => th[t].op = "read"
      BY <1>2 DEF Changes
    <2>2. QED
      BY <1>2, <1>5, <2>1, RolesKeep DEF CacheInv
  <1>7. \A k \in Nodes' : \E n \in Nodes : n.id = k.id /\ n.sector = k.sector
    BY <1>3
  <1>8. Fresh'
    <2>1. \A id \in ToSet(r.left) : Named(id)
      BY DEF Named
    <2>2. \A k \in Nodes' : \E n \in Nodes : n.id = k.id
      BY <1>7
    <2>3. QED
      BY <1>2, <2>1, <2>2, FreshKeep DEF CacheInv
  <1>9. PointsRight'
    <2>1. \A n \in Nodes : Points(th'[t], n)
      BY <1>2
    <2>2. QED
      BY <1>2, <1>7, <2>1, PointsKeep DEF CacheInv
  <1>10. QED
    BY <1>3, <1>4, <1>6, <1>8, <1>9

\* A get or a put is over with its node: a change goes on to hold its copy.
LEMMA AfterFacts ==
  ASSUME CacheInv, NEW t \in Thread, th[t].pc \in {"over", "add"},
         IF th[t].op = "put" THEN Goes(t, Rest) ELSE Got(t, [th[t] EXCEPT !.node = None])
  PROVE  \E r \in ThreadState :
            /\ th' = [th EXCEPT ![t] = r] /\ Role(r) /\ ~ HasNode(r) /\ r.out = None
            /\ ToSet(r.left) \subseteq ToSet(th[t].left)
            /\ \A n : Points(r, n)
            /\ \A x \in Sector : r.out # x
            /\ r.op # "flush" /\ r.op # "put" /\ r.pc \in {"idle", "holds"}
            /\ r.pc = "idle" <=> r.op = "none"
            /\ r.pc = "holds" => /\ r.op = "update" /\ r.op = th[t].op /\ r.sector = th[t].sector
                                 /\ r.copy = th[t].copy /\ r.number = th[t].number
  <1>1. /\ th[t] \in ThreadState /\ Role(th[t]) /\ th[t].op \in {"read", "update", "put"}
        /\ th[t].sector \in Sector /\ th[t].copy \in Content
    BY ThreadType DEF Role, HasSector, ThreadState
  <1>2. CASE th[t].op = "put"
    <2>1. PICK r : r = Rest
      OBVIOUS
    <2>2. th' = [th EXCEPT ![t] = r]
      BY <1>2, <2>1 DEF Goes
    <2>3. r \in ThreadState /\ r.pc = "idle" /\ r.op = "none" /\ Role(r) /\ r.out = None
      BY <2>1, RestType DEF Rest
    <2>4. ~ HasNode(r) /\ ToSet(r.left) = {} /\ \A n : Points(r, n)
      BY <2>1, RestIsRight
    <2>5. QED
      BY <2>2, <2>3, <2>4, CacheAssumption
  <1>3. CASE th[t].op # "put"
    <2>1. PICK w : w = [th[t] EXCEPT !.node = None]
      OBVIOUS
    <2>2. w \in ThreadState
      BY <1>1, <2>1 DEF ThreadState
    <2>3. /\ w.op = th[t].op /\ w.number = th[t].number /\ w.sector = th[t].sector
          /\ w.copy = th[t].copy /\ w.out = th[t].out /\ w.left = th[t].left
      BY <1>1, <2>1 DEF ThreadState
    <2>4. w.op \in {"read", "update"} /\ w.out = None
      BY <1>1, <1>3, <2>3 DEF Role, HasOut
    <2>5. Got(t, w)
      BY <1>3, <2>1
    <2>6. PICK s \in Sector, c \in Content : s = th[t].sector /\ c = th[t].copy
      BY <1>1
    <2>7. QED
      BY <2>2, <2>3, <2>4, <2>5, <2>6, GotFacts
  <1>4. QED
    BY <1>2, <1>3

LEMMA NodeWith ==
  ASSUME NEW n \in Node, NEW c \in Content
  PROVE  /\ Rewritten(n, c) \in Node /\ Rewritten(n, c).id = n.id /\ Rewritten(n, c).sector = n.sector
         /\ Rewritten(n, c).content = c /\ Rewritten(n, c).modificado
         /\ Cleared(n) \in Node /\ Cleared(n).id = n.id /\ Cleared(n).sector = n.sector
         /\ Cleared(n).content = n.content
  BY DEF Node, Rewritten, Cleared

\* What was fetched, or is put, goes over the node that was found, or, when it was
\* freed meanwhile, nowhere or over another one.
LEMMA OverwriteKeeps ==
  ASSUME CacheInv, NEW t \in Thread, Overwrite(t)
  PROVE  CacheInv'
  <1>1. /\ th \in [Thread -> ThreadState] /\ th[t] \in ThreadState /\ Role(th[t]) /\ th[t].pc = "over"
        /\ TypeOK /\ list \in Seq(Node) /\ IdsDiffer /\ Nodes \subseteq Node
    BY ThreadType DEF CacheInv, Overwrite
  <1>2. PICK s \in Sector, c \in Content, p \in {th[t].node} :
          s = th[t].sector /\ c = th[t].copy /\ p = th[t].node
    BY <1>1 DEF Role, HasSector, ThreadState
  <1>3. PICK id \in LandsOn(p) :
          /\ list' = Written(id, c)
          /\ exposed' = exposed \cup Spoils(p, id) \cup
                (CASE th[t].op = "put" /\ IsLive(p) -> ExposedBy(t, s)
                   [] th[t].op = "put" /\ ~ IsLive(p) -> {s}
                   [] th[t].op # "put" /\ IsLive(p) -> IF c = NodeOf(p).content THEN {} ELSE {s}
                   [] OTHER -> {})
    BY <1>2 DEF Overwrite
  <1>4. UNCHANGED <<disk, updates, reads, flushes>>
    BY DEF Overwrite, counters
  <1>5. th[t].op \in {"read", "update", "put"} /\ th[t].out = None
    BY <1>1, OpFacts
  <1>6. s \notin exposed => c = IF th[t].op = "put" THEN done[s] \cup {th[t].number} ELSE done[s]
    <2>1. s \notin exposed => CopyRight(th[t], s)
      BY ThreadType
    <2>2. QED
      BY <1>1, <1>2, <1>5, <2>1 DEF CopyRight, HasSector
  <1>7. IF th[t].op = "put" THEN Goes(t, Rest) ELSE Got(t, [th[t] EXCEPT !.node = None])
    BY DEF Overwrite
  <1>8. PICK r \in ThreadState :
            /\ th' = [th EXCEPT ![t] = r] /\ Role(r) /\ ~ HasNode(r) /\ r.out = None
            /\ ToSet(r.left) \subseteq ToSet(th[t].left)
            /\ \A n : Points(r, n)
            /\ \A x \in Sector : r.out # x
            /\ r.op # "flush" /\ r.op # "put" /\ r.pc \in {"idle", "holds"}
            /\ r.pc = "idle" <=> r.op = "none"
            /\ r.pc = "holds" => /\ r.op = "update" /\ r.op = th[t].op /\ r.sector = th[t].sector
                                 /\ r.copy = th[t].copy /\ r.number = th[t].number
    BY <1>1, <1>7, AfterFacts
  <1>9. th'[t] = r /\ \A u \in Thread : u # t => th'[u] = th[u]
    BY <1>1, <1>8
  <1>10. /\ done' \in [Sector -> Content] /\ unmarked' \subseteq Sector
         /\ \A x \in Sector : x # s => done'[x] = done[x] /\ (x \in unmarked <=> x \in unmarked')
         /\ done'[s] = IF th[t].op = "put" THEN done[s] \cup {th[t].number} ELSE done[s]
         /\ th[t].op # "put" => unmarked' = unmarked
    <2>1. CASE th[t].op = "put"
      <3>1. th[t].number \in Update
        BY <1>1, <2>1, CacheAssumption DEF Role, TypeOK, Update
      <3>2. done' = [done EXCEPT ![s] = @ \cup {th[t].number}] /\ unmarked' = unmarked \ {s}
        BY <1>2, <2>1 DEF Overwrite
      <3>3. done \in [Sector -> Content] /\ done[s] \cup {th[t].number} \in Content
        BY <1>1, <3>1 DEF TypeOK, Content
      <3>4. unmarked' \subseteq Sector
        BY <1>1, <3>2 DEF TypeOK
      <3>5. QED
        BY <2>1, <3>2, <3>3, <3>4
    <2>2. CASE th[t].op # "put"
      BY <1>1, <2>2 DEF Overwrite, TypeOK
    <2>3. QED
      BY <2>1, <2>2
  <1>11. \A x \in Sector : done[x] \subseteq done'[x]
    BY <1>10
  <1>12. \A k \in NodeId : Makes(r, k) => Makes(th[t], k)
    BY <1>1, <1>8 DEF Makes
  <1>13. \/ r.op \in {"none", "flush"}
         \/ r.op = "update" /\ th[t].op = "update" /\ r.number = th[t].number
    BY <1>8
  <1>14. Spoils(p, id) \subseteq Sector
    <2>1. IsLive(id) => NodeOf(id) \in Nodes
      BY <1>1, LiveFacts
    <2>2. QED
      BY <1>1, <2>1 DEF Spoils, Node
  <1>15. exposed \subseteq exposed' /\ exposed' \subseteq Sector
    BY <1>1, <1>3, <1>14 DEF ExposedBy, TypeOK
  \* The thread holds what was put, when it holds a copy.
  <1>16. ASSUME s \notin exposed' => done'[s] = c
         PROVE  \A x \in Sector \ exposed' : CopyRight(th[t], x)'
    BY <1>2, <1>8, <1>9, <1>16 DEF CopyRight, HasSector
  <1>17. ASSUME s \notin exposed', th[t].op # "put"
         PROVE  done'[s] = c
    BY <1>6, <1>10, <1>15, <1>17
  <1>18. CASE ~ IsLive(id) /\ ~ IsLive(p)
    <2>1. list' = list
      BY <1>1, <1>3, <1>18, WrittenList
    <2>2. th[t].op = "put" => s \in exposed'
      BY <1>3, <1>18
    <2>3. TypeOK'
      BY <1>1, <1>4, <1>8, <1>10, <1>15, <2>1 DEF TypeOK
    <2>4. Role(th[t])'
      BY <1>4, <1>8, <1>9 DEF Role
    <2>5. \A k \in ToSet(r.left) : Named(k)
      BY <1>8 DEF Named
    <2>6. Roles' /\ Fresh'
      <3>1. \/ th'[t].op \in {"none", "flush"}
            \/ /\ th'[t].number = th[t].number
               /\ \/ th'[t].op = th[t].op /\ (th[t].pc = "holds" => th'[t].pc = "holds")
                  \/ th[t].pc = "holds" /\ th'[t].op = "put"
        BY <1>1, <1>9, <1>13
      <3>2. HasNode(th'[t]) => Named(th'[t].node)
        BY <1>8, <1>9
      <3>3. QED
        BY <1>4, <1>9, <2>1, <2>4, <2>5, <3>1, <3>2, GoesOn
    <2>7. \A x \in Sector \ exposed' : done'[x] = done[x] /\ (x \in unmarked <=> x \in unmarked')
      BY <1>10, <2>2
    <2>8. \A x \in Sector \ exposed' : CopyRight(th[t], x)'
      BY <1>16, <1>17, <2>2
    <2>9. (\A n \in Nodes : Points(th'[t], n)) /\ th'[t].op # "flush"
      BY <1>8, <1>9
    <2>10. QED
      BY <1>4, <1>9, <1>15, <2>1, <2>3, <2>6, <2>7, <2>8, <2>9, DiskKeeps
  <1>19. ASSUME NEW i \in DOMAIN list, list[i].id = id, list[i] \in Nodes,
                \/ IsLive(p) /\ id = p /\ Spoils(p, id) = {}
                \/ ~ IsLive(p) /\ Spoils(p, id) = {list[i].sector}
         PROVE  CacheInv'
    <2>1. PICK n \in Node : n = list[i] /\ n \in Nodes
      BY <1>1, <1>19
    <2>2. PICK m \in Node : /\ m = Rewritten(n, c)
                            /\ m.id = n.id /\ m.sector = n.sector /\ m.content = c /\ m.modificado
      BY <2>1, NodeWith
    <2>3. list' = [list EXCEPT ![i] = m]
      <3>1. Written(id, c) = [list EXCEPT ![i] = Rewritten(list[i], c)]
        BY <1>1, <1>19, WrittenList
      <3>2. QED
        BY <1>3, <2>1, <2>2, <3>1
    <2>4. /\ TypeOK' /\ Roles' /\ Fresh' /\ PointsRight'
          /\ Nodes' = (Nodes \ {n}) \cup {m}
      <3>1. m.id = list[i].id /\ m.sector = list[i].sector
        BY <2>1, <2>2
      <3>2. QED
        BY <1>4, <1>8, <1>10, <1>12, <1>13, <1>15, <2>1, <2>3, <3>1, ReplacedNames
    <2>5. n.sector \notin exposed' => IsLive(p) /\ n.sector = s /\ NodeOf(p) = n
      <3>1. CASE IsLive(p) /\ id = p
        <4>1. n.sector = s
          BY <1>1, <1>2, <1>19, <2>1, <3>1, ThreadType DEF Points
        <4>2. QED
          BY <1>1, <1>19, <2>1, <3>1, <4>1, LiveNode
      <3>2. CASE Spoils(p, id) = {n.sector}
        BY <1>3, <3>2
      <3>3. QED
        BY <1>19, <2>1, <3>1, <3>2
    <2>6. s \notin exposed' => done'[s] = c
      <3>1. CASE th[t].op # "put"
        BY <1>17, <3>1
      <3>2. CASE th[t].op = "put"
        BY <1>6, <1>10, <1>15, <3>2
      <3>3. QED
        BY <3>1, <3>2
    <2>7. \A x \in Sector \ exposed' : CopyRight(th[t], x)'
      BY <1>16, <2>6
    <2>8. \A x \in Sector \ exposed' : \/ done'[x] = done[x]
                                       \/ \A u \in Thread \ {t} : ~ Carries(th[u], x)
      <3>1. th[t].op = "put" /\ s \notin exposed' => \A u \in Thread \ {t} : ~ Carries(th[u], s)
        <4> SUFFICES ASSUME th[t].op = "put", s \notin exposed' PROVE ExposedBy(t, s) = {}
          BY DEF ExposedBy
        <4>1. IsLive(p)
          BY <1>3
        <4>2. QED
          BY <1>3, <4>1 DEF ExposedBy
      <3>2. QED
        BY <1>10, <3>1
    <2>9. \A x \in Sector \ exposed' : x # n.sector => /\ done'[x] = done[x]
                                                       /\ x \in unmarked => x \in unmarked'
      <3> SUFFICES ASSUME NEW x \in Sector \ exposed', x # n.sector, x = s, th[t].op = "put" PROVE FALSE
        BY <1>10
      <3>1. IsLive(p) /\ id = p
        BY <1>3, <1>19
      <3>2. n.sector = s
        BY <1>1, <1>2, <1>19, <2>1, <3>1, ThreadType DEF Points
      <3>3. QED
        BY <3>2
    <2>10. n.sector \notin exposed' =>
             /\ m.content = done'[n.sector]
             /\ m.modificado \/ n.sector \in unmarked' \/ disk[n.sector] = done'[n.sector]
             /\ n.modificado => m.modificado \/ disk[n.sector] = done[n.sector]
      BY <2>2, <2>5, <2>6
    <2>11. th'[t].op # "flush"
      BY <1>8, <1>9
    <2>12. Copies' /\ OneNode' /\ Held' /\ Marked' /\ Flushes'
      BY <1>4, <1>9, <1>11, <1>15, <2>1, <2>2, <2>4, <2>7, <2>8, <2>9, <2>10, <2>11, ReplacedKeeps
    <2>13. QED
      BY <2>4, <2>12 DEF CacheInv
  <1>20. QED
    BY <1>1, <1>18, <1>19, LandsFacts

-----------------------------------------------------------------------------
(* Nodes leave and come.                                                    *)

\* A node leaves whose sector is on the disk, or exposed.
LEMMA LeavesKeeps ==
  ASSUME CacheInv, NEW t \in Thread, \A u \in Thread : u # t => th'[u] = th[u],
         UNCHANGED <<disk, done, unmarked>>, exposed \subseteq exposed',
         NEW n \in Nodes, Nodes' = Nodes \ {n},
         n.sector \notin exposed' => disk[n.sector] = done[n.sector],
         \A x \in Sector \ exposed' : CopyRight(th[t], x)',
         th'[t].op # "flush"
  PROVE  Copies' /\ OneNode' /\ Held' /\ Marked' /\ Flushes'
  <1>1. PICK s : s = n.sector
    OBVIOUS
  <1>2. s \in Sector
    BY <1>1, ThreadType DEF Node
  <1>3. Copies'
    BY CopiesKeep
  <1>4. OneNode'
    BY DEF CacheInv, OneNode
  <1>5. Held'
    <2> SUFFICES ASSUME NEW x \in Sector \ exposed'
                 PROVE  /\ \A k \in Nodes' : k.sector = x => k.content = done[x]
                        /\ disk[x] = done[x] \/ \E k \in Nodes' : k.sector = x
      BY DEF Held
    <2>1. /\ \A k \in Nodes : k.sector = x => k.content = done[x]
          /\ disk[x] = done[x] \/ \E k \in Nodes : k.sector = x
      BY DEF CacheInv, Held
    <2>2. QED
      BY <2>1
  <1>6. Marked'
    BY DEF CacheInv, Marked
  <1>7. Flushes'
    <2>1. \A k \in Nodes : k.modificado /\ k.sector \notin exposed' =>
             \/ \E m \in Nodes' : m.id = k.id /\ m.sector = k.sector /\ m.modificado
             \/ disk[k.sector] = done[k.sector]
      OBVIOUS
    <2>2. \A x \in Sector : done[x] \subseteq done'[x]
      OBVIOUS
    <2>3. QED
      BY <2>1, <2>2, FlushesKeep
  <1>8. QED
    BY <1>3, <1>4, <1>5, <1>6, <1>7

\* commons_list_removeNode: another may have removed the node, and another node
\* may be removed for it.
LEMMA RemoveKeeps ==
  ASSUME CacheInv, NEW t \in Thread, RemoveVictim(t)
  PROVE  CacheInv'
  <1>1. /\ th \in [Thread -> ThreadState] /\ th[t] \in ThreadState /\ Role(th[t]) /\ th[t].pc = "remove"
        /\ TypeOK /\ list \in Seq(Node) /\ IdsDiffer /\ Nodes \subseteq Node
        /\ th[t].out \in Sector
    BY ThreadType DEF CacheInv, RemoveVictim, Role, HasOut
  <1>2. PICK r : r = [th[t] EXCEPT !.pc = "add", !.out = None, !.outCopy = {}]
    OBVIOUS
  <1>3. /\ r \in ThreadState /\ r.pc = "add" /\ r.op = th[t].op /\ r.sector = th[t].sector
        /\ r.copy = th[t].copy /\ r.number = th[t].number /\ r.out = None /\ r.left = th[t].left
    BY <1>1, <1>2 DEF ThreadState, Content
  <1>4. /\ th' = [th EXCEPT ![t] = r]
        /\ UNCHANGED <<disk, updates, reads, flushes, done, unmarked>>
    BY <1>2 DEF RemoveVictim, Goes, counters
  <1>5. th'[t] = r /\ \A u \in Thread : u # t => th'[u] = th[u]
    BY <1>1, <1>4
  <1>6. Role(th[t])'
    BY <1>1, <1>3, <1>4, <1>5 DEF Role, HasSector, HasOut, HasNode
  <1>7. /\ ~ HasNode(r) /\ \A id \in ToSet(r.left) : Named(id)
        /\ th'[t].op # "flush" /\ \A n : Points(th'[t], n)
    BY <1>1, <1>3, <1>5 DEF Named, HasNode, HasOut, Points, Role
  <1>8. \A x \in Sector \ exposed : CopyRight(th[t], x) /\ CopyRight(th[t], x)'
    <2> SUFFICES ASSUME NEW x \in Sector \ exposed
                 PROVE  CopyRight(th[t], x) /\ CopyRight(th[t], x)'
      OBVIOUS
    <2>1. CopyRight(th[t], x)
      BY ThreadType
    <2>2. r.out # x
      BY <1>3, CacheAssumption
    <2>3. QED
      BY <1>1, <1>3, <1>4, <1>5, <2>1, <2>2 DEF CopyRight, HasSector
  <1>9. CASE UNCHANGED <<list, exposed>>
    <2>1. TypeOK'
      BY <1>1, <1>3, <1>4, <1>9 DEF TypeOK
    <2>2. Roles' /\ Fresh'
      BY <1>1, <1>3, <1>4, <1>5, <1>6, <1>7, <1>9, GoesOn
    <2>3. QED
      BY <1>4, <1>5, <1>7, <1>8, <1>9, <2>1, <2>2, DiskKeeps
  <1>10. ASSUME NEW i \in DOMAIN list, list' = RemoveAt(list, i),
                exposed \subseteq exposed', exposed' \subseteq Sector,
                list[i].sector \notin exposed' => disk[list[i].sector] = done[list[i].sector]
         PROVE  CacheInv'
    <2>1. /\ list' \in Seq(Node) /\ IdsDiffer' /\ list[i] \in Nodes /\ Nodes' = Nodes \ {list[i]}
      BY <1>1, <1>10, RemovedNodes
    <2>2. TypeOK'
      BY <1>1, <1>3, <1>4, <1>10, <2>1 DEF TypeOK, IdsDiffer
    <2>3. Roles'
      BY <1>3, <1>4, <1>5, <1>6, RolesKeep DEF CacheInv, Changes
    <2>4. Fresh'
      <3>1. \A id \in NodeId : Makes(r, id) => Makes(th[t], id)
        BY <1>1, <1>3 DEF Makes
      <3>2. QED
        BY <1>4, <1>5, <1>7, <2>1, <3>1, FreshKeep DEF CacheInv
    <2>5. PointsRight'
      BY <1>5, <1>7, <2>1, PointsKeep DEF CacheInv
    <2>6. Copies' /\ OneNode' /\ Held' /\ Marked' /\ Flushes'
      BY <1>4, <1>5, <1>7, <1>8, <1>10, <2>1, LeavesKeeps
    <2>7. QED
      BY <2>2, <2>3, <2>4, <2>5, <2>6 DEF CacheInv
  <1>11. CASE IsLive(th[t].node) /\ list' = RemoveAt(list, IndexOf(th[t].out)) /\ exposed' = exposed
    <2>1. PICK s \in Sector : s = th[t].out
      BY <1>1
    <2>2. PICK n \in Nodes : n.id = th[t].node
      BY <1>11, InNodes DEF IsLive
    <2>3. n.sector = s
      BY <1>1, <2>1, <2>2, ThreadType DEF Points, HasOut
    <2>4. Cached(s)
      BY <1>1, <2>3, IndexFacts
    <2>5. PICK i \in DOMAIN list : i = IndexOf(s) /\ list[i].sector = s
      BY <1>1, <2>4, IndexFacts
    <2>6. s \notin exposed => disk[s] = done[s]
      BY <1>1, <1>8, <2>1 DEF CopyRight
    <2>7. exposed' \subseteq Sector
      BY <1>1, <1>11 DEF TypeOK
    <2>8. QED
      BY <1>10, <1>11, <2>1, <2>5, <2>6, <2>7
  <1>12. CASE \E i \in DOMAIN list : /\ list' = RemoveAt(list, i)
                                     /\ exposed' = exposed \cup {list[i].sector}
    <2>1. PICK i \in DOMAIN list : /\ list' = RemoveAt(list, i)
                                   /\ exposed' = exposed \cup {list[i].sector}
      BY <1>12
    <2>2. list[i].sector \in Sector
      BY <1>1, InNodes DEF Node
    <2>3. exposed' \subseteq Sector
      BY <1>1, <2>1, <2>2 DEF TypeOK
    <2>4. QED
      BY <1>10, <2>1, <2>3
  <1>13. QED
    BY <1>9, <1>11, <1>12 DEF RemoveVictim

\* The identity of a new node is of no other.
LEMMA NewIdFacts ==
  ASSUME CacheInv, NEW t \in Thread, th[t].pc = "add"
  PROVE  /\ NewId(th[t]) \in NodeId /\ Makes(th[t], NewId(th[t])) /\ Begun(NewId(th[t]))
         /\ ~ Named(NewId(th[t]))
         /\ \A u \in Thread \ {t} : ~ Makes(th[u], NewId(th[t]))
  <1>1. PICK w : w = th[t]
    OBVIOUS
  <1>2. /\ Role(w) /\ w.op \in {"read", "update", "put"}
        /\ updates \in 0 .. MaxUpdates /\ reads \in 0 .. MaxReads /\ MaxUpdates \in Nat /\ MaxReads \in Nat
    BY <1>1, ThreadType, OpFacts, CacheAssumption DEF CacheInv, TypeOK
  <1>3. PICK id : id = NewId(w)
    OBVIOUS
  <1>4. /\ w.op = "update" => id = w.number /\ w.number \in 1 .. updates
        /\ w.op = "put" => id = MaxUpdates + w.number /\ w.number \in 1 .. updates
        /\ w.op = "read" => id = 2 * MaxUpdates + w.number /\ w.number \in 1 .. reads
    BY <1>2, <1>3 DEF NewId, Role
  <1>5. id \in NodeId /\ Begun(id)
    <2>1. CASE w.op = "update"
      BY <1>2, <1>4, <2>1 DEF NodeId, Begun
    <2>2. CASE w.op = "put"
      BY <1>2, <1>4, <2>2 DEF NodeId, Begun
    <2>3. CASE w.op = "read"
      BY <1>2, <1>4, <2>3 DEF NodeId, Begun
    <2>4. QED
      BY <1>2, <2>1, <2>2, <2>3
  <1>6. Makes(w, id)
    BY <1>1, <1>2, <1>4 DEF Makes
  <1>7. ~ Named(id)
    BY <1>1, <1>5, <1>6 DEF CacheInv, Fresh
  <1>8. ASSUME NEW u \in Thread \ {t}, Makes(th[u], id) PROVE FALSE
    <2>1. PICK v : v = th[u]
      OBVIOUS
    <2>2. /\ v.op \in {"update", "put"} => v.number \in 1 .. updates
          /\ v.op = "read" => v.number \in 1 .. reads
      BY <2>1, ThreadType DEF Role
    <2>3. v.number = w.number /\ (v.op = "read" <=> w.op = "read")
      BY <1>2, <1>4, <1>8, <2>1, <2>2 DEF Makes
    <2>4. v.op \in {"update", "put", "read"}
      BY <1>8, <2>1 DEF Makes
    <2>5. ~ (Changes(v) /\ Changes(w)) /\ ~ (v.op = "read" /\ w.op = "read")
      BY <1>1, <2>1, <2>3 DEF CacheInv, Roles
    <2>6. QED
      BY <1>2, <2>3, <2>4, <2>5 DEF Changes
  <1>9. QED
    BY <1>1, <1>3, <1>5, <1>6, <1>7, <1>8

\* commons_list_addNode: a node with what was fetched, or was put.
LEMMA AddKeeps ==
  ASSUME CacheInv, NEW t \in Thread, Add(t)
  PROVE  CacheInv'
  <1>1. /\ th \in [Thread -> ThreadState] /\ th[t] \in ThreadState /\ Role(th[t]) /\ th[t].pc = "add"
        /\ TypeOK /\ list \in Seq(Node) /\ IdsDiffer /\ Nodes \subseteq Node
    BY ThreadType DEF CacheInv, Add
  <1>2. PICK s \in Sector, c \in Content, id \in NodeId :
            s = th[t].sector /\ c = th[t].copy /\ id = NewId(th[t])
    BY <1>1, NewIdFacts DEF Role, HasSector, ThreadState
  <1>3. PICK n : n = [id |-> id, sector |-> s, content |-> c, modificado |-> FALSE]
    OBVIOUS
  <1>4. n \in Node /\ n.id = id /\ n.sector = s /\ n.content = c /\ n.modificado = FALSE
    BY <1>3 DEF Node
  <1>5. /\ list' = <<n>> \o list
        /\ exposed' = exposed \cup (IF Cached(s) THEN {s} ELSE {})
                              \cup (IF th[t].op = "put" THEN ExposedBy(t, s) ELSE {})
        /\ UNCHANGED <<disk, updates, reads, flushes>>
    BY <1>2, <1>3 DEF Add, counters
  <1>6. /\ list' \in Seq(Node) /\ IdsDiffer' /\ Nodes' = Nodes \cup {n}
    <2>1. \A m \in Nodes : m.id # id
      BY <1>1, <1>2, NewIdFacts DEF Named
    <2>2. QED
      BY <1>1, <1>4, <1>5, <2>1, AddedNodes
  <1>7. /\ exposed \subseteq exposed' /\ exposed' \subseteq Sector
        /\ s \notin exposed' => \A m \in Nodes : m.sector # s
        /\ s \notin exposed' /\ th[t].op = "put" => \A u \in Thread \ {t} : ~ Carries(th[u], s)
    BY <1>1, <1>5, IndexFacts DEF ExposedBy, TypeOK
  <1>8. th[t].op \in {"read", "update", "put"} /\ th[t].out = None
    BY <1>1, OpFacts
  <1>9. s \notin exposed => c = IF th[t].op = "put" THEN done[s] \cup {th[t].number} ELSE done[s]
    <2>1. s \notin exposed => CopyRight(th[t], s)
      BY ThreadType
    <2>2. QED
      BY <1>1, <1>2, <1>8, <2>1 DEF CopyRight, HasSector
  <1>10. IF th[t].op = "put" THEN Goes(t, Rest) ELSE Got(t, [th[t] EXCEPT !.node = None])
    BY DEF Add
  <1>11. PICK r \in ThreadState :
            /\ th' = [th EXCEPT ![t] = r] /\ Role(r) /\ ~ HasNode(r) /\ r.out = None
            /\ ToSet(r.left) \subseteq ToSet(th[t].left)
            /\ \A m : Points(r, m)
            /\ \A x \in Sector : r.out # x
            /\ r.op # "flush" /\ r.op # "put" /\ r.pc \in {"idle", "holds"}
            /\ r.pc = "idle" <=> r.op = "none"
            /\ r.pc = "holds" => /\ r.op = "update" /\ r.op = th[t].op /\ r.sector = th[t].sector
                                 /\ r.copy = th[t].copy /\ r.number = th[t].number
    BY <1>1, <1>10, AfterFacts
  <1>12. th'[t] = r /\ \A u \in Thread : u # t => th'[u] = th[u]
    BY <1>1, <1>11
  <1>13. /\ done' \in [Sector -> Content] /\ unmarked' \subseteq Sector /\ unmarked \subseteq unmarked'
         /\ \A x \in Sector : x # s => done'[x] = done[x]
         /\ done'[s] = IF th[t].op = "put" THEN done[s] \cup {th[t].number} ELSE done[s]
         /\ th[t].op = "put" => s \in unmarked'
    <2>1. CASE th[t].op = "put"
      <3>1. th[t].number \in Update
        BY <1>1, <2>1, CacheAssumption DEF Role, TypeOK, Update
      <3>2. done' = [done EXCEPT ![s] = @ \cup {th[t].number}] /\ unmarked' = unmarked \cup {s}
        BY <1>2, <2>1 DEF Add
      <3>3. done \in [Sector -> Content] /\ done[s] \cup {th[t].number} \in Content
        BY <1>1, <3>1 DEF TypeOK, Content
      <3>4. unmarked' \subseteq Sector
        BY <1>1, <3>2 DEF TypeOK
      <3>5. QED
        BY <2>1, <3>2, <3>3, <3>4
    <2>2. CASE th[t].op # "put"
      BY <1>1, <2>2 DEF Add, TypeOK
    <2>3. QED
      BY <2>1, <2>2
  <1>14. TypeOK'
    BY <1>1, <1>5, <1>6, <1>7, <1>11, <1>13 DEF TypeOK, IdsDiffer
  <1>15. Role(th[t])'
    BY <1>5, <1>11, <1>12 DEF Role, HasSector, HasOut, HasNode
  <1>16. Roles'
    BY <1>5, <1>11, <1>12, <1>15, RolesKeep DEF CacheInv, Changes
  <1>17. \A k \in NodeId : Makes(r, k) => Makes(th[t], k) /\ k # id
    <2>1. /\ th[t].op = "update" => id = th[t].number
          /\ th[t].op \in {"update", "put"} => th[t].number \in 1 .. updates
          /\ updates \in 0 .. MaxUpdates /\ MaxUpdates \in Nat
      BY <1>1, <1>2, CacheAssumption DEF NewId, Role, TypeOK
    <2>2. QED
      BY <1>1, <1>11, <2>1 DEF Makes
  <1>18. Fresh'
    <2> SUFFICES ASSUME NEW k \in NodeId, Named(k)'
                 PROVE  Begun(k)' /\ \A u \in Thread : ~ Makes(th'[u], k)
      BY DEF Fresh, Makes
    <2>1. CASE k = id
      <3>1. Begun(id)' /\ \A u \in Thread \ {t} : ~ Makes(th[u], id)
        BY <1>1, <1>2, <1>5, NewIdFacts DEF Begun
      <3>2. QED
        BY <1>12, <1>17, <2>1, <3>1
    <2>2. CASE k # id
      <3>1. Named(k)
        <4>1. CASE \E m \in Nodes' : m.id = k
          BY <1>4, <1>6, <2>2, <4>1 DEF Named
        <4>2. CASE \E u \in Thread : \/ HasNode(th'[u]) /\ th'[u].node = k
                                     \/ k \in ToSet(th'[u].left)
          <5>1. PICK u \in Thread : \/ HasNode(th'[u]) /\ th'[u].node = k
                                    \/ k \in ToSet(th'[u].left)
            BY <4>2
          <5>2. CASE u = t
            BY <1>11, <1>12, <5>1, <5>2 DEF Named
          <5>3. CASE u # t
            BY <1>12, <5>1, <5>3 DEF Named
          <5>4. QED
            BY <5>2, <5>3
        <4>3. QED
          BY <4>1, <4>2 DEF Named
      <3>2. Begun(k) /\ \A u \in Thread : ~ Makes(th[u], k)
        BY <3>1 DEF CacheInv, Fresh
      <3>3. QED
        BY <1>5, <1>12, <1>17, <3>2 DEF Begun
    <2>3. QED
      BY <2>1, <2>2
  <1>19. PointsRight'
    <2> SUFFICES ASSUME NEW u \in Thread, NEW m \in Nodes' PROVE Points(th'[u], m)
      BY DEF PointsRight
    <2>1. CASE u = t
      BY <1>11, <1>12, <2>1
    <2>2. CASE u # t /\ m \in Nodes
      BY <1>12, <2>2 DEF CacheInv, PointsRight
    <2>3. CASE u # t /\ m = n
      <3>1. th'[u] = th[u] /\ ~ Named(id)
        BY <1>1, <1>2, <1>12, <2>3, NewIdFacts
      <3>2. ~ (HasNode(th[u]) /\ th[u].node = id)
        BY <3>1 DEF Named
      <3>3. QED
        BY <1>4, <2>3, <3>1, <3>2 DEF Points, HasNode, HasOut
    <2>4. QED
      BY <1>6, <2>1, <2>2, <2>3
  <1>20. \A x \in Sector \ exposed' : CopyRight(th[t], x)'
    <2> SUFFICES ASSUME NEW x \in Sector \ exposed' PROVE CopyRight(th[t], x)'
      OBVIOUS
    <2>1. r.out # x
      BY <1>11, CacheAssumption
    <2>2. x = s => c = done'[s]
      BY <1>7, <1>9, <1>13
    <2>3. CASE r.pc = "idle"
      BY <1>11, <1>12, <2>1, <2>3 DEF CopyRight, HasSector
    <2>4. CASE r.pc = "holds"
      <3>1. r.op = "update" /\ r.sector = s /\ r.copy = c
        BY <1>2, <1>11, <2>4
      <3>2. QED
        BY <1>12, <2>1, <2>2, <2>4, <3>1 DEF CopyRight, HasSector
    <2>5. QED
      BY <1>11, <2>3, <2>4
  <1>21. Copies'
    <2>1. s \notin exposed' => done'[s] = done[s] \/ \A u \in Thread \ {t} : ~ Carries(th[u], s)
      BY <1>7, <1>13
    <2>2. \A x \in Sector \ exposed' : \/ done'[x] = done[x]
                                       \/ \A u \in Thread \ {t} : ~ Carries(th[u], x)
      BY <1>13, <2>1
    <2>3. QED
      BY <1>5, <1>7, <1>12, <1>20, <2>2, CopiesKeep
  <1>22. OneNode'
    <2>1. \A x, y \in Nodes : x.sector = y.sector => x = y \/ x.sector \in exposed
      BY DEF CacheInv, OneNode
    <2>2. ASSUME NEW x \in Nodes', NEW y \in Nodes', x.sector = y.sector, x.sector \notin exposed'
          PROVE  x = y
      <3>1. CASE x \in Nodes /\ y \in Nodes
        BY <1>7, <2>1, <2>2, <3>1
      <3>2. CASE x = n \/ y = n
        BY <1>4, <1>6, <1>7, <2>2, <3>2
      <3>3. QED
        BY <1>6, <3>1, <3>2
    <2>3. QED
      BY <2>2 DEF OneNode
  <1>23. Held'
    <2> SUFFICES ASSUME NEW x \in Sector \ exposed'
                 PROVE  /\ \A k \in Nodes' : k.sector = x => k.content = done'[x]
                        /\ disk'[x] = done'[x] \/ \E k \in Nodes' : k.sector = x
      BY DEF Held
    <2>1. /\ \A k \in Nodes : k.sector = x => k.content = done[x]
          /\ disk[x] = done[x] \/ \E k \in Nodes : k.sector = x
      BY <1>7 DEF CacheInv, Held
    <2>2. CASE x = s
      BY <1>4, <1>6, <1>7, <1>9, <1>13, <2>2
    <2>3. CASE x # s
      BY <1>4, <1>5, <1>6, <1>13, <2>1, <2>3
    <2>4. QED
      BY <2>2, <2>3
  <1>24. Marked'
    <2> SUFFICES ASSUME NEW x \in Sector \ exposed', NEW k \in Nodes', k.sector = x
                 PROVE  k.modificado \/ x \in unmarked' \/ disk'[x] = done'[x]
      BY DEF Marked
    <2>1. CASE k = n /\ th[t].op = "put"
      BY <1>4, <1>13, <2>1
    <2>2. CASE k = n /\ th[t].op # "put"
      <3>1. x = s /\ x \notin exposed /\ \A m \in Nodes : m.sector # s
        BY <1>4, <1>7, <2>2
      <3>2. disk[x] = done[x]
        BY <3>1 DEF CacheInv, Held
      <3>3. QED
        BY <1>5, <1>13, <2>2, <3>1, <3>2
    <2>3. CASE k \in Nodes
      <3>1. x # s /\ x \notin exposed
        BY <1>7, <2>3
      <3>2. k.modificado \/ x \in unmarked \/ disk[x] = done[x]
        BY <2>3, <3>1 DEF CacheInv, Marked
      <3>3. QED
        BY <1>5, <1>13, <3>1, <3>2
    <2>4. QED
      BY <1>6, <2>1, <2>2, <2>3
  <1>25. Flushes'
    <2>1. \A k \in Nodes : k.modificado => \E m \in Nodes' : m.id = k.id /\ m.sector = k.sector /\ m.modificado
      BY <1>6
    <2>2. \A x \in Sector : done[x] \subseteq done'[x]
      BY <1>13
    <2>3. th'[t].op # "flush"
      BY <1>11, <1>12
    <2>4. QED
      BY <1>5, <1>7, <1>12, <2>1, <2>2, <2>3, FlushesKeep
  <1>26. QED
    BY <1>14, <1>16, <1>18, <1>19, <1>21, <1>22, <1>23, <1>24, <1>25 DEF CacheInv

\* The node that was written is marked.
LEMMA MarkKeeps ==
  ASSUME CacheInv, NEW t \in Thread, Mark(t)
  PROVE  CacheInv'
  <1>1. /\ th \in [Thread -> ThreadState] /\ th[t] \in ThreadState /\ Role(th[t]) /\ th[t].pc = "mark"
        /\ TypeOK /\ list \in Seq(Node) /\ IdsDiffer /\ Nodes \subseteq Node
        /\ th[t].left # <<>> /\ th[t].op = "flush" /\ th[t].node = Head(th[t].left)
        /\ th[t].out \in Sector
    BY ThreadType, OpFacts DEF CacheInv, Mark
  <1>2. PICK p, q, s : /\ p = th[t].node /\ p = Head(th[t].left) /\ q = Tail(th[t].left)
                       /\ s = th[t].out /\ s \in Sector
    BY <1>1
  <1>3. q \in Seq(NodeId) /\ ToSet(th[t].left) = {p} \cup ToSet(q)
    <2>1. th[t].left \in Seq(NodeId)
      BY <1>1 DEF ThreadState
    <2>2. QED
      BY <1>1, <1>2, <2>1, TailSet
  <1>4. PICK r : r = [th[t] EXCEPT !.pc = "visit", !.left = q, !.node = None, !.out = None, !.outCopy = {}]
    OBVIOUS
  <1>5. r \in ThreadState
    BY <1>1, <1>3, <1>4 DEF ThreadState, Content
  <1>6. /\ r.pc = "visit" /\ r.left = q /\ r.out = None /\ r.op = "flush" /\ r.before = th[t].before
    BY <1>1, <1>4 DEF ThreadState
  <1>7. th' = [th EXCEPT ![t] = r] /\ UNCHANGED <<disk, updates, reads, flushes, done, unmarked>>
    BY <1>2, <1>4 DEF Mark, Goes, counters
  <1>8. PICK id \in LandsOn(p) : list' = Unmarked(id) /\ exposed' = exposed \cup Spoils(p, id)
    BY <1>2 DEF Mark
  <1>9. th'[t] = r /\ \A u \in Thread : u # t => th'[u] = th[u]
    BY <1>1, <1>7
  <1>10. /\ Role(r) /\ ~ HasNode(r) /\ (\A n : Points(r, n)) /\ (\A k : ~ Makes(r, k))
         /\ ToSet(r.left) \subseteq ToSet(th[t].left)
    BY <1>3, <1>6 DEF Role, HasSector, HasNode, HasOut, Points, Makes
  <1>11. Spoils(p, id) \subseteq Sector
    <2>1. IsLive(id) => NodeOf(id) \in Nodes
      BY <1>1, LiveFacts
    <2>2. QED
      BY <1>1, <2>1 DEF Spoils, Node
  <1>12. exposed \subseteq exposed' /\ exposed' \subseteq Sector
    BY <1>1, <1>8, <1>11 DEF TypeOK
  <1>13. \A x \in Sector \ exposed' : CopyRight(r, x) /\ CopyRight(th[t], x)'
    <2>1. \A x \in Sector : r.out # x
      BY <1>6, CacheAssumption
    <2>2. ~ HasSector(r)
      BY <1>6 DEF HasSector
    <2>3. \A x \in Sector \ exposed' : CopyRight(r, x)
      BY <2>1, <2>2 DEF CopyRight
    <2>4. \A x \in Sector \ exposed' : CopyRight(th[t], x)'
      <3>1. \A x \in Sector \ exposed' : th'[t].out # x
        BY <1>9, <2>1
      <3>2. th'[t].op \notin {"read", "update", "put"}
        BY <1>6, <1>9
      <3>3. QED
        BY <3>1, <3>2 DEF CopyRight, HasSector
    <2>5. QED
      BY <2>3, <2>4
  <1>14. s \notin exposed => disk[s] = done[s]
    <2>1. s \notin exposed => CopyRight(th[t], s)
      BY <1>2, ThreadType
    <2>2. QED
      BY <1>1, <1>2, <2>1 DEF CopyRight
  \* What the flush has still to write, unless the node it marks is not there.
  <1>15. ASSUME NEW x \in Sector \ exposed', ~ (r.before[x] \subseteq disk[x])
         PROVE  /\ r.before[x] \subseteq done[x]
                /\ \E n \in Nodes : /\ n.sector = x /\ n.modificado
                                    /\ n.id = p \/ n.id \in ToSet(q)
    <2>1. Writes(th[t], x)
      BY <1>1, <1>12 DEF CacheInv, Flushes
    <2>2. QED
      BY <1>3, <1>6, <1>15, <2>1 DEF Writes
  <1>16. \A x \in Sector \ exposed' : r.before[x] \subseteq done[x]
    BY <1>1, <1>6, <1>12 DEF CacheInv, Flushes, Writes
  <1>17. CASE ~ IsLive(id) /\ ~ IsLive(p)
    <2>1. list' = list
      BY <1>1, <1>8, <1>17, WrittenList
    <2>2. \A x \in Sector \ exposed' : Writes(r, x)
      <3> SUFFICES ASSUME NEW x \in Sector \ exposed', ~ (r.before[x] \subseteq disk[x])
                   PROVE  \E n \in Nodes : n.sector = x /\ n.modificado /\ n.id \in ToSet(r.left)
        BY <1>16 DEF Writes
      <3>1. \A n \in Nodes : n.id # p
        BY <1>1, <1>17, LiveNode
      <3>2. QED
        BY <1>6, <1>15, <3>1
    <2>3. \A k \in ToSet(r.left) : Named(k)
      BY <1>10 DEF Named
    <2>4. flushes' \in 0 .. MaxFlushes
      BY <1>1, <1>7 DEF TypeOK
    <2>5. QED
      BY <1>5, <1>6, <1>7, <1>10, <1>12, <1>13, <2>1, <2>2, <2>3, <2>4, ThreadKeeps
  <1>18. ASSUME NEW i \in DOMAIN list, list[i].id = id, list[i] \in Nodes,
                \/ IsLive(p) /\ id = p /\ Spoils(p, id) = {}
                \/ ~ IsLive(p) /\ Spoils(p, id) = {list[i].sector}
         PROVE  CacheInv'
    <2>1. PICK n \in Node : n = list[i] /\ n \in Nodes
      BY <1>1, <1>18
    <2>2. PICK m \in Node : /\ m = Cleared(n)
                            /\ m.id = n.id /\ m.sector = n.sector /\ m.content = n.content
      <3>1. PICK k \in Content : k = n.content
        BY <2>1 DEF Node
      <3>2. QED
        BY <2>1, NodeWith
    <2>3. list' = [list EXCEPT ![i] = m]
      <3>1. Unmarked(id) = [list EXCEPT ![i] = Cleared(list[i])]
        BY <1>1, <1>18, WrittenList
      <3>2. QED
        BY <1>8, <2>1, <2>2, <3>1
    <2>4. /\ TypeOK' /\ Roles' /\ Fresh' /\ PointsRight'
          /\ Nodes' = (Nodes \ {n}) \cup {m}
      <3>1. /\ done' \in [Sector -> Content] /\ unmarked' \subseteq Sector
        BY <1>1, <1>7 DEF TypeOK
      <3>2. r.op \in {"none", "flush"}
        BY <1>6
      <3>3. QED
        BY <1>5, <1>7, <1>10, <1>12, <2>1, <2>2, <2>3, <3>1, <3>2, ReplacedNames
    <2>5. n.sector \notin exposed' => IsLive(p) /\ n.id = p /\ n.sector = s
      <3>1. CASE IsLive(p) /\ id = p
        BY <1>1, <1>2, <1>18, <2>1, <3>1, ThreadType DEF Points, HasOut
      <3>2. CASE Spoils(p, id) = {n.sector}
        BY <1>8, <3>2
      <3>3. QED
        BY <1>18, <2>1, <3>1, <3>2
    <2>6. n.sector \notin exposed' => disk[n.sector] = done[n.sector]
      BY <1>12, <1>14, <2>5
    <2>7. \A x \in Sector \ exposed' : Writes(th[t], x)'
      <3> SUFFICES ASSUME NEW x \in Sector \ exposed', ~ (r.before[x] \subseteq disk[x])
                   PROVE  \E k \in Nodes' : k.sector = x /\ k.modificado /\ k.id \in ToSet(r.left)
        BY <1>7, <1>9, <1>16 DEF Writes
      <3>1. PICK k \in Nodes : k.sector = x /\ k.modificado /\ (k.id = p \/ k.id \in ToSet(q))
        BY <1>15
      <3>2. k # n
        <4> SUFFICES ASSUME k = n PROVE FALSE
          OBVIOUS
        <4>1. disk[x] = done[x]
          BY <2>6, <3>1
        <4>2. QED
          BY <1>16, <4>1
      <3>3. k.id # p
        <4> SUFFICES ASSUME k.id = p PROVE FALSE
          OBVIOUS
        <4>1. IsLive(p)
          BY <1>1, LiveNode
        <4>2. n.id = k.id
          BY <1>18, <2>1, <4>1
        <4>3. QED
          BY <1>1, <2>1, <3>2, <4>2, SameNode
      <3>4. QED
        BY <1>6, <2>4, <3>1, <3>2, <3>3
    <2>8. n.sector \notin exposed' =>
             /\ m.content = done'[n.sector]
             /\ m.modificado \/ n.sector \in unmarked' \/ disk[n.sector] = done'[n.sector]
             /\ n.modificado => m.modificado \/ disk[n.sector] = done[n.sector]
      <3>1. n.sector \notin exposed' => n.content = done[n.sector]
        BY <1>12, <2>1 DEF CacheInv, Held, Node
      <3>2. QED
        BY <1>7, <2>2, <2>6, <3>1
    <2>9. Copies' /\ OneNode' /\ Held' /\ Marked' /\ Flushes'
      BY <1>7, <1>9, <1>12, <1>13, <2>1, <2>2, <2>4, <2>7, <2>8, ReplacedKeeps
    <2>10. QED
      BY <2>4, <2>9 DEF CacheInv
  <1>19. QED
    BY <1>1, <1>17, <1>18, LandsFacts

-----------------------------------------------------------------------------
LEMMA InitKeeps == Init => CacheInv
  <1> SUFFICES ASSUME Init PROVE CacheInv
    OBVIOUS
  <1>1. /\ list = <<>> /\ \A t \in Thread : th[t] = Rest
        /\ \A s \in Sector : disk[s] = {} /\ done[s] = {}
        /\ updates = 0 /\ reads = 0
    BY DEF Init
  <1>2. Nodes = {}
    BY <1>1 DEF Nodes, ToSet
  <1>3. TypeOK
    <2>1. th \in [Thread -> ThreadState] /\ disk \in [Sector -> Content] /\ done \in [Sector -> Content]
      BY RestType DEF Init, Content
    <2>2. list \in Seq(Node) /\ DOMAIN list = {}
      BY <1>1, EmptySeq
    <2>3. QED
      BY <2>1, <2>2, CacheAssumption DEF Init, TypeOK
  <1>4. Roles
    <2>1. \A t \in Thread : Role(th[t]) /\ th[t].op = "none"
      BY <1>1, RestType
    <2>2. QED
      BY <2>1 DEF Roles, Changes
  <1>5. Fresh
    <2>1. \A t \in Thread : ~ HasNode(th[t]) /\ ToSet(th[t].left) = {}
      BY <1>1, RestIsRight
    <2>2. QED
      BY <1>2, <2>1 DEF Fresh, Named
  <1>6. PointsRight /\ OneNode /\ Marked
    BY <1>2 DEF PointsRight, OneNode, Marked
  <1>7. Copies
    BY <1>1, RestIsRight DEF Copies, CopyRight, HasSector
  <1>8. Held
    BY <1>1, <1>2 DEF Held
  <1>9. Flushes
    <2>1. \A t \in Thread : th[t].op = "none"
      BY <1>1, RestType
    <2>2. QED
      BY <2>1 DEF Flushes
  <1>10. QED
    BY <1>3, <1>4, <1>5, <1>6, <1>7, <1>8, <1>9 DEF CacheInv

LEMMA NextKeeps == CacheInv /\ [Next]_vars => CacheInv'
  <1> SUFFICES ASSUME CacheInv, [Next]_vars PROVE CacheInv'
    OBVIOUS
  <1>1. ASSUME NEW t \in Thread, Asks(t) PROVE CacheInv'
    BY <1>1, GetKeeps, FlushKeeps DEF Asks
  <1>2. ASSUME NEW t \in Thread, Works(t) PROVE CacheInv'
    BY <1>2, CopyKeeps, FetchKeeps, RefillKeeps, PutKeeps, OverwriteKeeps, InsertKeeps, CopyOutKeeps,
       WriteKeeps, RemoveKeeps, AddKeeps, VisitKeeps, MarkKeeps, FlushEndKeeps DEF Works
  <1>3. CASE UNCHANGED vars
    <2>1. UNCHANGED <<disk, list, th, updates, reads, flushes, done, exposed, unmarked>>
      BY <1>3 DEF vars, counters, ghosts
    <2>2. Nodes' = Nodes
      BY <2>1 DEF Nodes
    <2>3. TypeOK' /\ Roles'
      <3>1. TypeOK'
        BY <2>1 DEF CacheInv, TypeOK
      <3>2. Roles'
        BY <2>1 DEF CacheInv, Roles, Role, HasSector, HasOut, HasNode, Changes
      <3>3. QED
        BY <3>1, <3>2
    <2>4. Fresh' /\ PointsRight'
      <3>1. Fresh'
        BY <2>1, <2>2 DEF CacheInv, Fresh, Named, HasNode, Begun, Makes
      <3>2. PointsRight'
        BY <2>1, <2>2 DEF CacheInv, PointsRight, Points, HasOut
      <3>3. QED
        BY <3>1, <3>2
    <2>5. Copies' /\ OneNode' /\ Held'
      <3>1. Copies'
        BY <2>1 DEF CacheInv, Copies, CopyRight, HasSector
      <3>2. OneNode' /\ Held'
        BY <2>1, <2>2 DEF CacheInv, OneNode, Held
      <3>3. QED
        BY <3>1, <3>2
    <2>6. Marked' /\ Flushes'
      BY <2>1, <2>2 DEF CacheInv, Marked, Flushes, Writes
    <2>7. QED
      BY <2>3, <2>4, <2>5, <2>6 DEF CacheInv
  <1>4. QED
    BY <1>1, <1>2, <1>3 DEF Next

\* The invariant of the cache: of a sector that is not exposed every copy that
\* will still be written, and the only node, has the changes that were put; a
\* pointer that a thread keeps is of its sector, or of no node of the list; a
\* node that leaves is on the disk before; and what a flush has to write is on
\* the disk or in a node that is marked and that it will still visit.
THEOREM CacheHolds == Spec => []CacheInv
  <1>1. QED
    BY InitKeeps, NextKeeps, PTL DEF Spec

\* The state of the cache is well formed: whoever inserts and removes, no node
\* is in the list twice (pfs_cache_put_sectors).
THEOREM CacheTypeOK == Spec => []TypeOK
  <1>1. CacheInv => TypeOK
    BY DEF CacheInv
  <1>2. QED
    BY <1>1, CacheHolds, PTL

\* Evictions, refills and flushes lose no change, although nothing holds the
\* list from one step to the next and the node that a get or a put found may be
\* freed before it is used (callCachedGetSector, callCachedPutSector): the
\* sector is exposed when that happens to it, and only then or when a put meets
\* another copy of it or a second node of it is made.
THEOREM CacheChangesAreKept == Spec => []ChangesAreKept
  <1>1. CacheInv => ChangesAreKept
    BY VisibleIsDone DEF CacheInv, ChangesAreKept
  <1>2. QED
    BY <1>1, CacheHolds, PTL

\* After a flush the disk has what was put before it in the sectors that are
\* not exposed, whatever other threads insert, remove and flush meanwhile
\* (pfs_fat32_fatCacheFlush); a change put, or a mark made, in a node that was
\* freed exposes its sector.
THEOREM CacheFlushWritesChanges == Spec => FlushWritesChanges
  <1>1. CacheInv /\ [Next]_vars =>
           [\A t \in Thread : (th[t].op = "flush" /\ th'[t].op = "none") =>
              \A s \in Sector \ exposed : th[t].before[s] \subseteq disk[s]]_vars
    <2> SUFFICES ASSUME CacheInv, Next, NEW t \in Thread, th[t].op = "flush", th'[t].op = "none",
                        NEW s \in Sector \ exposed
                 PROVE  th[t].before[s] \subseteq disk[s]
      OBVIOUS
    <2>1. th[t].pc = "visit" /\ th[t].left = <<>>
      <3>1. PICK u \in Thread : Asks(u) \/ Works(u)
        BY DEF Next
      <3>2. /\ th \in [Thread -> ThreadState] /\ th[t] \in ThreadState
            /\ th[t].pc \in {"visit", "chosen", "write", "mark"}
        BY ThreadType DEF Role
      <3>3. ASSUME NEW w, Goes(u, w) PROVE u = t /\ w.op = "none"
        BY <3>2, <3>3 DEF Goes
      <3>4. \E w : Goes(u, w)
        <4>1. ASSUME Asks(u) PROVE \E w : Goes(u, w)
          BY <4>1 DEF Asks, Get, Flush
        <4>2. ASSUME Works(u) PROVE \E w : Goes(u, w)
          BY <4>2 DEF Works, Copy, Fetch, Refill, Put, Search, Overwrite, Insert, CopyOut, Write,
                      RemoveVictim, Add, Visit, Mark, FlushEnd, Got
        <4>3. QED
          BY <3>1, <4>1, <4>2
      <3>5. u = t
        BY <3>3, <3>4
      <3>6. ~ Asks(t)
        BY <3>2 DEF Asks, Get, Flush
      <3>7. /\ ~ Copy(t) /\ ~ Fetch(t) /\ ~ Refill(t) /\ ~ Put(t) /\ ~ Overwrite(t) /\ ~ Insert(t)
            /\ ~ RemoveVictim(t) /\ ~ Add(t)
        BY <3>2 DEF Copy, Fetch, Refill, Put, Overwrite, Insert, RemoveVictim, Add
      <3>8. ~ Visit(t)
        <4> SUFFICES ASSUME Visit(t) PROVE FALSE
          OBVIOUS
        <4>1. PICK v : \/ v = [th[t] EXCEPT !.pc = "chosen", !.node = Head(th[t].left)] /\ Goes(t, v)
                       \/ v = [th[t] EXCEPT !.left = Tail(@)] /\ Goes(t, v)
          BY DEF Visit
        <4>2. v.op = "flush"
          BY <3>2, <4>1 DEF ThreadState
        <4>3. QED
          BY <3>3, <3>5, <4>1, <4>2
      <3>9. ~ CopyOut(t)
        <4> SUFFICES ASSUME CopyOut(t) PROVE FALSE
          OBVIOUS
        <4>1. PICK x, y : \/ Goes(t, [[th[t] EXCEPT !.pc = "write"] EXCEPT !.out = x, !.outCopy = y])
                          \/ Goes(t, [[th[t] EXCEPT !.pc = "write"] EXCEPT !.out = x])
          BY DEF CopyOut
        <4>2. /\ [[th[t] EXCEPT !.pc = "write"] EXCEPT !.out = x, !.outCopy = y].op = "flush"
              /\ [[th[t] EXCEPT !.pc = "write"] EXCEPT !.out = x].op = "flush"
          BY <3>2 DEF ThreadState
        <4>3. QED
          BY <3>3, <3>5, <4>1, <4>2
      <3>10. ~ Write(t)
        <4> SUFFICES ASSUME Write(t) PROVE FALSE
          OBVIOUS
        <4>1. PICK v : v = [th[t] EXCEPT !.pc = "mark"] /\ Goes(t, v)
          BY DEF Write
        <4>2. v.op = "flush"
          BY <3>2, <4>1 DEF ThreadState
        <4>3. QED
          BY <3>3, <3>5, <4>1, <4>2
      <3>11. ~ Mark(t)
        <4> SUFFICES ASSUME Mark(t) PROVE FALSE
          OBVIOUS
        <4>1. PICK v : /\ v = [th[t] EXCEPT !.pc = "visit", !.left = Tail(@), !.node = None,
                                            !.out = None, !.outCopy = {}]
                       /\ Goes(t, v)
          BY DEF Mark
        <4>2. v.op = "flush"
          BY <3>2, <4>1 DEF ThreadState
        <4>3. QED
          BY <3>3, <3>5, <4>1, <4>2
      <3>12. FlushEnd(t)
        BY <3>1, <3>5, <3>6, <3>7, <3>8, <3>9, <3>10, <3>11 DEF Works
      <3>13. QED
        BY <3>12 DEF FlushEnd
    <2>2. Writes(th[t], s)
      BY DEF CacheInv, Flushes
    <2>3. ToSet(th[t].left) = {}
      BY <2>1 DEF ToSet
    <2>4. QED
      BY <2>2, <2>3 DEF Writes
  <1>2. QED
    BY <1>1, CacheHolds, PTL DEF Spec, FlushWritesChanges

=============================================================================
