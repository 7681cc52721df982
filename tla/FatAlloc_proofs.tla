-------------------------- MODULE FatAlloc_proofs --------------------------
(***************************************************************************)
(* Theorems of FatAlloc: its type invariant, and that no cluster is given   *)
(* twice, for every number of threads, files, handles and clusters, and     *)
(* every mixture of operations; and, where files are only created and       *)
(* extended, that the chain of a file is what it was given.                 *)
(***************************************************************************)
EXTENDS FatAlloc, FiniteSetTheorems, TLAPS

\* What a thread does between the lock and the unlock of fatLock; truncate
\* marks too, and holds no lock.
InSection(r) ==
    \/ r.pc \in {"search", "expand", "expandPut", "unlock"}
    \/ r.pc \in {"mark", "markPut"} /\ r.op # "shrink"

\* Where a thread uses its cursor, and its cluster, they are entries.
InTable(r) ==
    /\ r.pc \in {"find", "free", "freePut", "cut", "drop", "dropPut"} => r.at \in Entry
    /\ r.pc \in {"search", "mark", "markPut", "expand", "expandPut", "unlock"}
       => r.cur \in Entry

\* Only truncate to a smaller size walks, cuts and drops; it never allocates.
Role(r) ==
    /\ r.pc \in {"walk", "cut", "drop", "dropPut"} => r.op = "shrink"
    /\ r.pc \in {"lock", "search", "expand", "expandPut", "unlock", "find"} => r.op # "shrink"

Roles == \A t \in Thread : InTable(th[t]) /\ Role(th[t])

\* The thread in the section holds the lock, is about to give the next free
\* cluster, and has a candidate beyond it.
SectionHeld ==
    \A t \in Thread : InSection(th[t]) =>
        /\ fatLock = t
        /\ th[t].cur = nextFree
        /\ nextFree < th[t].next

\* What was given lies below the pointer.
GivenBelow ==
    \A f \in File : \A i \in DOMAIN given[f] : given[f][i] < nextFree

IInv ==
    /\ TypeOK
    /\ Roles
    /\ SectionHeld
    /\ GivenBelow
    /\ ClustersGivenOnce

-----------------------------------------------------------------------------
\* The table has whole sectors, and an entry lies in one of them.
LEMMA EocNat == Eoc \in Nat /\ Eoc > 3
  <1>1. EntriesPerSector * FatSectors \in Nat
    BY FatAssumption
  <1>2. 3 < EntriesPerSector * FatSectors
    BY <1>1, FatAssumption
  <1>3. QED
    BY <1>1, <1>2 DEF Eoc

\* The place of an entry in its sector is one of the sector's.
LEMMA OffsetInSlot ==
  ASSUME NEW e \in Nat
  PROVE  Offset(e) \in Slot
  BY FatAssumption DEF Offset, Slot

\* The sector of an entry is one of the table's.
LEMMA SectorInTable ==
  ASSUME NEW e \in Entry
  PROVE  Sector(e) \in 0 .. FatSectors - 1
  <1> DEFINE n == EntriesPerSector
             q == e \div n
  <1>1. n \in Nat /\ n > 0 /\ FatSectors \in Nat /\ e \in Nat /\ e < n * FatSectors
    BY FatAssumption DEF Entry, Eoc
  <1>2. q \in Nat /\ n * q <= e
    BY <1>1
  <1> HIDE DEF q
  <1>3. q < FatSectors
    <2> SUFFICES ASSUME q >= FatSectors PROVE FALSE
      BY <1>1, <1>2
    <2>1. PICK d \in Nat : q = FatSectors + d
      BY <1>1, <1>2
    <2>2. n * q = n * FatSectors + n * d
      BY <1>1, <2>1
    <2>3. n * d \in Nat /\ n * FatSectors \in Nat /\ n * q \in Nat
      BY <1>1, <1>2, <2>1
    <2>4. QED
      BY <1>1, <1>2, <2>2, <2>3
  <1>4. QED
    BY <1>1, <1>2, <1>3 DEF Sector, q

\* What lies in a sector of the table is an entry.
LEMMA EntryInSector ==
  ASSUME NEW k \in 0 .. FatSectors - 1, NEW i \in Slot
  PROVE  k * EntriesPerSector + i \in Entry
  <1> DEFINE n == EntriesPerSector
  <1>1. n \in Nat /\ n > 0 /\ FatSectors \in Nat /\ k \in Nat /\ i \in Nat /\ i < n
    BY FatAssumption DEF Slot
  <1>2. PICK d \in Nat : FatSectors = k + 1 + d
    BY <1>1
  <1>3. n * FatSectors = k * n + n + n * d
    BY <1>1, <1>2
  <1>4. k * n \in Nat /\ n * d \in Nat
    BY <1>1, <1>2
  <1>5. QED
    BY <1>1, <1>3, <1>4 DEF Entry, Eoc

\* The pass after one that starts at e starts beyond e.
LEMMA NextPassBeyond ==
  ASSUME NEW e \in Nat
  PROVE  /\ (Sector(e) + 1) * EntriesPerSector \in Nat
         /\ e < (Sector(e) + 1) * EntriesPerSector
  <1> DEFINE n == EntriesPerSector
             q == e \div n
  <1>1. n \in Nat /\ n > 0
    BY FatAssumption
  <1>2. q \in Nat /\ e < n * q + n
    BY <1>1
  <1> HIDE DEF q
  <1>3. (q + 1) * n = n * q + n /\ n * q \in Nat
    BY <1>1, <1>2
  <1>4. QED
    BY <1>1, <1>2, <1>3 DEF Sector, q

\* A copy of a sector has entries.
LEMMA SectorType ==
  ASSUME fat \in [Entry -> 0 .. Eoc], NEW e \in Entry
  PROVE  SectorOf(e) \in [Slot -> 0 .. Eoc]
  <1>1. \A i \in Slot : Sector(e) * EntriesPerSector + i \in Entry
    BY SectorInTable, EntryInSector
  <1>2. QED
    BY <1>1 DEF SectorOf

\* The table with a sector written has entries.
LEMMA PutType ==
  ASSUME fat \in [Entry -> 0 .. Eoc], NEW e, NEW buf \in [Slot -> 0 .. Eoc],
         PutSector(e, buf)
  PROVE  fat' \in [Entry -> 0 .. Eoc]
  <1>1. \A d \in Entry : Offset(d) \in Slot
    BY OffsetInSlot, EocNat DEF Entry
  <1>2. QED
    BY <1>1 DEF PutSector

-----------------------------------------------------------------------------
\* A thread that rests is in no section and uses no entry.
LEMMA RestIsQuiet ==
  /\ Closed \in FatFile
  /\ Rest \in ThreadState
  /\ InTable(Rest) /\ Role(Rest) /\ ~ InSection(Rest)
  <1>1. Closed \in FatFile
    BY EocNat DEF Closed, FatFile, Entry
  <1>2. Rest \in ThreadState
    BY <1>1, EocNat DEF Rest, ThreadState, Free
  <1>3. QED
    BY <1>1, <1>2 DEF InTable, Role, InSection, Rest

\* The initial state satisfies the invariant: nothing is given yet.
LEMMA InitInvariant == Init => IInv
  <1> SUFFICES ASSUME Init PROVE IInv
    OBVIOUS
  <1>1. Eoc \in Nat /\ Eoc > 3 /\ FirstFree \in 0 .. Eoc
    BY EocNat, FatAssumption DEF FirstFree, Eoc
  <1>2. Closed \in FatFile /\ Rest \in ThreadState
    BY RestIsQuiet
  <1>4. Nothing \in [kind : {"none", "file", "dir"}, first : Entry, size : Nat]
    BY <1>1 DEF Nothing, Entry
  <1>5. fat \in [Entry -> 0 .. Eoc]
    BY <1>1 DEF Init, Free
  <1>6. TypeOK
    BY <1>1, <1>2, <1>4, <1>5 DEF Init, TypeOK
  <1>7. Roles /\ SectionHeld
    BY DEF Init, Roles, SectionHeld, InSection, InTable, Role, Rest
  <1>8. GivenBelow /\ ClustersGivenOnce
    BY DEF Init, GivenBelow, ClustersGivenOnce
  <1>9. QED
    BY <1>6, <1>7, <1>8 DEF IInv

\* A step of a thread that takes no lock and gives nothing (it may take back all
\* that a file was given) leaves the allocator's part of the invariant, if what
\* it does in the section keeps its cluster and a candidate beyond the pointer.
LEMMA Quiet ==
  ASSUME IInv, NEW t \in Thread,
         UNCHANGED <<nextFree, fatLock>>,
         \A f \in File : given'[f] \in {given[f], <<>>},
         \A u \in Thread : u # t => th'[u] = th[u],
         InSection(th'[t]) => /\ InSection(th[t])
                              /\ th'[t].cur = th[t].cur
                              /\ nextFree < th'[t].next
  PROVE  SectionHeld' /\ GivenBelow' /\ ClustersGivenOnce'
  <1>1. SectionHeld'
    <2> SUFFICES ASSUME NEW u \in Thread, InSection(th'[u])
                 PROVE  /\ fatLock' = u
                        /\ th'[u].cur = nextFree'
                        /\ nextFree' < th'[u].next
      BY DEF SectionHeld, InSection
    <2>1. CASE u = t
      BY <2>1 DEF IInv, SectionHeld
    <2>2. CASE u # t
      BY <2>2 DEF IInv, SectionHeld
    <2>3. QED
      BY <2>1, <2>2
  <1>2. GivenBelow' /\ ClustersGivenOnce'
    BY DEF IInv, GivenBelow, ClustersGivenOnce
  <1>3. QED
    BY <1>1, <1>2

\* What the rest of the invariant asks of a step of one thread.
LEMMA OneThread ==
  ASSUME IInv, NEW t \in Thread,
         \A u \in Thread : u # t => th'[u] = th[u],
         InTable(th'[t]), Role(th'[t])
  PROVE  Roles'
  BY DEF IInv, Roles, InTable, Role

-----------------------------------------------------------------------------
\* Each step of a thread that has begun an operation keeps the invariant.

\* markEndOfChain reads the sector, in an allocation or in a truncate.
LEMMA MarkStep ==
  ASSUME IInv, NEW t \in Thread, Mark(t)
  PROVE  IInv'
  <1>1. th \in [Thread -> ThreadState] /\ th[t] \in ThreadState
    BY DEF IInv, TypeOK
  <1>2. InTable(th[t]) /\ Role(th[t])
    BY DEF IInv, Roles
  <1>3. th'[t].buf \in [Slot -> 0 .. Eoc]
    BY <1>1, <1>2, SectorType, EocNat, SMTT(60) DEF Mark, ThreadState, InTable, IInv, TypeOK
  <1>4. th' \in [Thread -> ThreadState] /\ \A u \in Thread : u # t => th'[u] = th[u]
    BY <1>1, <1>2, <1>3, EocNat DEF Mark, ThreadState, InTable, FatFile, Entry
  <1>5. InTable(th'[t]) /\ Role(th'[t])
    BY <1>1, <1>2, <1>3, EocNat DEF Mark, ThreadState, InTable, Role, Entry
  <1>6. InSection(th'[t]) => /\ InSection(th[t])
                             /\ th'[t].cur = th[t].cur
                             /\ nextFree < th'[t].next
    BY <1>1, <1>2, <1>3 DEF Mark, ThreadState, InSection, Role, IInv, SectionHeld
  <1>7. TypeOK'
    BY <1>4 DEF IInv, TypeOK, Mark
  <1>8. QED
    BY <1>4, <1>5, <1>6, <1>7, Quiet, OneThread DEF Mark, IInv

\* The marked sector is written.
LEMMA MarkPutStep ==
  ASSUME IInv, NEW t \in Thread, MarkPut(t)
  PROVE  IInv'
  <1>1. th \in [Thread -> ThreadState] /\ th[t] \in ThreadState
    BY DEF IInv, TypeOK
  <1>2. InTable(th[t]) /\ Role(th[t])
    BY DEF IInv, Roles
  <1>3. fat' \in [Entry -> 0 .. Eoc]
    BY <1>1, PutType DEF MarkPut, IInv, TypeOK, ThreadState
  <1>4. th' \in [Thread -> ThreadState] /\ \A u \in Thread : u # t => th'[u] = th[u]
    BY <1>1, <1>2, RestIsQuiet, EocNat DEF MarkPut, ThreadState, InTable, FatFile, Entry
  <1>5. InTable(th'[t]) /\ Role(th'[t])
    <2>1. CASE th[t].op # "shrink"
      <3>1. /\ th'[t].pc \in {"unlock", "expand"}
            /\ th'[t].op = th[t].op /\ th'[t].cur = th[t].cur
        BY <1>1, <2>1 DEF MarkPut, ThreadState
      <3>2. QED
        BY <1>2, <2>1, <3>1 DEF MarkPut, InTable, Role
    <2>2. CASE th[t].op = "shrink" /\ th[t].at = Eoc
      BY <1>1, <2>2, RestIsQuiet DEF MarkPut
    <2>3. CASE th[t].op = "shrink" /\ th[t].at # Eoc
      <3>1. th'[t].pc = "drop" /\ th'[t].op = "shrink" /\ th'[t].at = th[t].at
        BY <1>1, <2>3 DEF MarkPut, ThreadState
      <3>2. th[t].at \in Entry
        <4>1. th[t].at \in 0 .. Eoc
          BY <1>1 DEF ThreadState
        <4>2. QED
          BY <2>3, <4>1, EocNat DEF Entry
      <3>3. QED
        BY <3>1, <3>2 DEF InTable, Role
    <2>4. QED
      BY <2>1, <2>2, <2>3
  <1>6. InSection(th'[t]) => /\ InSection(th[t])
                             /\ th'[t].cur = th[t].cur
                             /\ nextFree < th'[t].next
    BY <1>1, <1>2, RestIsQuiet DEF MarkPut, ThreadState, InSection, Role, IInv, SectionHeld
  <1>7. TypeOK'
    BY <1>4, <1>3 DEF IInv, TypeOK, MarkPut
  <1>8. QED
    BY <1>4, <1>5, <1>6, <1>7, Quiet, OneThread DEF MarkPut, IInv

\* expandChain reads the sector of the last cluster.
LEMMA ExpandStep ==
  ASSUME IInv, NEW t \in Thread, Expand(t)
  PROVE  IInv'
  <1>1. th \in [Thread -> ThreadState] /\ th[t] \in ThreadState
    BY DEF IInv, TypeOK
  <1>2. InTable(th[t]) /\ Role(th[t])
    BY DEF IInv, Roles
  <1>3. th'[t].buf \in [Slot -> 0 .. Eoc]
    BY <1>1, <1>2, SectorType, EocNat DEF Expand, ThreadState, InTable, FatFile, Entry, IInv, TypeOK
  <1>4. th' \in [Thread -> ThreadState] /\ \A u \in Thread : u # t => th'[u] = th[u]
    BY <1>1, <1>2, <1>3, EocNat DEF Expand, ThreadState, InTable, FatFile, Entry
  <1>5. InTable(th'[t]) /\ Role(th'[t])
    BY <1>1, <1>2, <1>3, EocNat DEF Expand, ThreadState, InTable, Role, Entry
  <1>6. InSection(th'[t]) => /\ InSection(th[t])
                             /\ th'[t].cur = th[t].cur
                             /\ nextFree < th'[t].next
    BY <1>1, <1>2, <1>3 DEF Expand, ThreadState, InSection, Role, IInv, SectionHeld
  <1>7. TypeOK'
    BY <1>4 DEF IInv, TypeOK, Expand
  <1>8. QED
    BY <1>4, <1>5, <1>6, <1>7, Quiet, OneThread DEF Expand, IInv

\* The sector with the new link is written.
LEMMA ExpandPutStep ==
  ASSUME IInv, NEW t \in Thread, ExpandPut(t)
  PROVE  IInv'
  <1>1. th \in [Thread -> ThreadState] /\ th[t] \in ThreadState
    BY DEF IInv, TypeOK
  <1>2. InTable(th[t]) /\ Role(th[t])
    BY DEF IInv, Roles
  <1>3. fat' \in [Entry -> 0 .. Eoc]
    BY <1>1, PutType DEF ExpandPut, IInv, TypeOK, ThreadState
  <1>4. th' \in [Thread -> ThreadState] /\ \A u \in Thread : u # t => th'[u] = th[u]
    BY <1>1, <1>2, EocNat DEF ExpandPut, ThreadState, InTable, FatFile, Entry
  <1>5. InTable(th'[t]) /\ Role(th'[t])
    BY <1>1, <1>2, EocNat DEF ExpandPut, ThreadState, InTable, Role, Entry
  <1>6. InSection(th'[t]) => /\ InSection(th[t])
                             /\ th'[t].cur = th[t].cur
                             /\ nextFree < th'[t].next
    BY <1>1, <1>2 DEF ExpandPut, ThreadState, InSection, Role, IInv, SectionHeld
  <1>7. TypeOK'
    BY <1>4, <1>3 DEF IInv, TypeOK, ExpandPut
  <1>8. QED
    BY <1>4, <1>5, <1>6, <1>7, Quiet, OneThread DEF ExpandPut, IInv

\* A turn of findEOC stays in the table.
LEMMA FindEocStep ==
  ASSUME IInv, NEW t \in Thread, FindEoc(t)
  PROVE  IInv'
  <1>1. th \in [Thread -> ThreadState] /\ th[t] \in ThreadState
    BY DEF IInv, TypeOK
  <1>2. InTable(th[t]) /\ Role(th[t])
    BY DEF IInv, Roles
  <1>3. fat[th[t].at] \in 0 .. Eoc \/ th[t].pc # "find"
    BY <1>2 DEF InTable, IInv, TypeOK
  <1>4. th' \in [Thread -> ThreadState] /\ \A u \in Thread : u # t => th'[u] = th[u]
    BY <1>1, <1>2, <1>3, EocNat, ZenonT(60) DEF FindEoc, ThreadState, InTable, FatFile, Entry
  <1>5. InTable(th'[t]) /\ Role(th'[t])
    <2>1. CASE fat[th[t].at] # Eoc
      <3>1. th'[t].pc = "find" /\ th'[t].op = th[t].op /\ th'[t].at = fat[th[t].at]
        BY <1>1, <2>1 DEF FindEoc, ThreadState
      <3>2. fat[th[t].at] \in Entry
        BY <1>3, <2>1, EocNat DEF FindEoc, Entry
      <3>3. QED
        BY <1>2, <3>1, <3>2 DEF FindEoc, InTable, Role
    <2>2. CASE fat[th[t].at] = Eoc
      <3>1. th'[t].pc \in {"lock", "entry"} /\ th'[t].op = th[t].op
        BY <1>1, <2>2 DEF FindEoc, ThreadState
      <3>2. QED
        BY <1>2, <3>1 DEF FindEoc, InTable, Role
    <2>3. QED
      BY <2>1, <2>2
  <1>6. InSection(th'[t]) => /\ InSection(th[t])
                             /\ th'[t].cur = th[t].cur
                             /\ nextFree < th'[t].next
    BY <1>1, <1>2, <1>3 DEF FindEoc, ThreadState, InSection, Role, IInv, SectionHeld
  <1>7. TypeOK'
    BY <1>4 DEF IInv, TypeOK, FindEoc
  <1>8. QED
    BY <1>4, <1>5, <1>6, <1>7, Quiet, OneThread DEF FindEoc, IInv

\* The directory entry is written and the thread rests.
LEMMA PutEntryStep ==
  ASSUME IInv, NEW t \in Thread, PutEntry(t)
  PROVE  IInv'
  <1>1. th \in [Thread -> ThreadState] /\ th[t] \in ThreadState
    BY DEF IInv, TypeOK
  <1>2. InTable(th[t]) /\ Role(th[t])
    BY DEF IInv, Roles
  <1>3. th[t].work \in FatFile /\ th[t].work.first \in Entry /\ th[t].work.size \in Nat
    BY <1>1 DEF ThreadState, FatFile
  <1>4. th' \in [Thread -> ThreadState] /\ \A u \in Thread : u # t => th'[u] = th[u]
    BY <1>1, <1>2, <1>3, RestIsQuiet, EocNat DEF PutEntry, ThreadState, InTable, FatFile, Entry
  <1>5. InTable(th'[t]) /\ Role(th'[t])
    BY <1>1, RestIsQuiet DEF PutEntry
  <1>6. InSection(th'[t]) => /\ InSection(th[t])
                             /\ th'[t].cur = th[t].cur
                             /\ nextFree < th'[t].next
    BY <1>1, <1>2, <1>3, RestIsQuiet DEF PutEntry, ThreadState, InSection, Role, IInv, SectionHeld
  <1>7. TypeOK'
    BY <1>4, <1>3 DEF IInv, TypeOK, PutEntry
  <1>8. QED
    BY <1>4, <1>5, <1>6, <1>7, <1>3, Quiet, OneThread DEF PutEntry, IInv

\* unlink reads the next cluster of the chain.
LEMMA FreeNextStep ==
  ASSUME IInv, NEW t \in Thread, FreeNext(t)
  PROVE  IInv'
  <1>1. th \in [Thread -> ThreadState] /\ th[t] \in ThreadState
    BY DEF IInv, TypeOK
  <1>2. InTable(th[t]) /\ Role(th[t])
    BY DEF IInv, Roles
  <1>3. th[t].at = Eoc \/ (th[t].at \in Entry /\ fat[th[t].at] \in 0 .. Eoc)
    <2>1. th[t].at \in 0 .. Eoc
      BY <1>1 DEF ThreadState
    <2>2. QED
      BY <2>1, EocNat DEF Entry, IInv, TypeOK
  <1>4. th' \in [Thread -> ThreadState] /\ \A u \in Thread : u # t => th'[u] = th[u]
    BY <1>1, <1>2, <1>3, EocNat, SMTT(60) DEF FreeNext, ThreadState, InTable, FatFile, Entry, LeaveVolume
  <1>5. InTable(th'[t]) /\ Role(th'[t])
    BY <1>1, <1>2, <1>3, EocNat DEF FreeNext, ThreadState, InTable, Role, Entry, LeaveVolume
  <1>6. InSection(th'[t]) => /\ InSection(th[t])
                             /\ th'[t].cur = th[t].cur
                             /\ nextFree < th'[t].next
    BY <1>1, <1>2, <1>3 DEF FreeNext, ThreadState, InSection, Role, IInv, SectionHeld, LeaveVolume
  <1>7. TypeOK'
    BY <1>4 DEF IInv, TypeOK, FreeNext
  <1>8. QED
    BY <1>4, <1>5, <1>6, <1>7, Quiet, OneThread DEF FreeNext, IInv

\* unlink frees the entry in its copy of the sector.
LEMMA FreeEntryStep ==
  ASSUME IInv, NEW t \in Thread, FreeEntry(t)
  PROVE  IInv'
  <1>1. th \in [Thread -> ThreadState] /\ th[t] \in ThreadState
    BY DEF IInv, TypeOK
  <1>2. InTable(th[t]) /\ Role(th[t])
    BY DEF IInv, Roles
  <1>3. fat[th[t].at] \in 0 .. Eoc /\ Freed(t) \in [Slot -> 0 .. Eoc]
    <2>1. th[t].at \in Entry /\ fat \in [Entry -> 0 .. Eoc]
      BY <1>2 DEF FreeEntry, InTable, IInv, TypeOK
    <2>2. SectorOf(th[t].at) \in [Slot -> 0 .. Eoc] /\ Free \in 0 .. Eoc
      BY <2>1, SectorType, EocNat DEF Free
    <2>3. QED
      BY <2>1, <2>2 DEF Freed
  <1>4. th' \in [Thread -> ThreadState] /\ \A u \in Thread : u # t => th'[u] = th[u]
    BY <1>1, <1>2, <1>3, EocNat DEF FreeEntry, ThreadState, InTable, FatFile, Entry
  <1>5. InTable(th'[t]) /\ Role(th'[t])
    BY <1>1, <1>2, <1>3, EocNat DEF FreeEntry, ThreadState, InTable, Role, Entry
  <1>6. InSection(th'[t]) => /\ InSection(th[t])
                             /\ th'[t].cur = th[t].cur
                             /\ nextFree < th'[t].next
    BY <1>1, <1>2, <1>3 DEF FreeEntry, ThreadState, InSection, Role, IInv, SectionHeld
  <1>7. TypeOK'
    BY <1>4 DEF IInv, TypeOK, FreeEntry
  <1>8. QED
    BY <1>4, <1>5, <1>6, <1>7, Quiet, OneThread DEF FreeEntry, IInv

\* unlink writes the sector, and is done or goes on.
LEMMA FreePutStep ==
  ASSUME IInv, NEW t \in Thread, FreePut(t)
  PROVE  IInv'
  <1>1. th \in [Thread -> ThreadState] /\ th[t] \in ThreadState
    BY DEF IInv, TypeOK
  <1>2. InTable(th[t]) /\ Role(th[t])
    BY DEF IInv, Roles
  <1>3. given' \in [File -> Seq(Entry)] /\ \A f \in File : given'[f] \in {given[f], <<>>}
    <2>1. given \in [File -> Seq(Entry)] /\ <<>> \in Seq(Entry)
      BY DEF IInv, TypeOK
    <2>2. given' = given \/ given' = [given EXCEPT ![th[t].work.file] = <<>>]
      BY DEF FreePut
    <2>3. QED
      BY <2>1, <2>2
  <1>4. fat' \in [Entry -> 0 .. Eoc]
    BY <1>1, PutType DEF FreePut, IInv, TypeOK, ThreadState
  <1>5. th' \in [Thread -> ThreadState] /\ \A u \in Thread : u # t => th'[u] = th[u]
    BY <1>1, <1>2, <1>3, RestIsQuiet, EocNat, ZenonT(60) DEF FreePut, ThreadState, InTable, FatFile, Entry
  <1>6. InTable(th'[t]) /\ Role(th'[t])
    BY <1>1, <1>2, <1>3, RestIsQuiet, EocNat DEF FreePut, ThreadState, InTable, Role, Entry
  <1>7. InSection(th'[t]) => /\ InSection(th[t])
                             /\ th'[t].cur = th[t].cur
                             /\ nextFree < th'[t].next
    BY <1>1, <1>2, <1>3, RestIsQuiet DEF FreePut, ThreadState, InSection, Role, IInv, SectionHeld
  <1>8. TypeOK'
    BY <1>5, <1>4, <1>3 DEF IInv, TypeOK, FreePut
  <1>9. QED
    BY <1>5, <1>6, <1>7, <1>8, <1>3, Quiet, OneThread DEF FreePut, IInv

\* truncate walks along the chain.
LEMMA WalkStep ==
  ASSUME IInv, NEW t \in Thread, Walk(t)
  PROVE  IInv'
  <1>1. th \in [Thread -> ThreadState] /\ th[t] \in ThreadState
    BY DEF IInv, TypeOK
  <1>2. InTable(th[t]) /\ Role(th[t])
    BY DEF IInv, Roles
  <1>3. th[t].at = Eoc \/ (th[t].at \in Entry /\ fat[th[t].at] \in 0 .. Eoc)
    <2>1. th[t].at \in 0 .. Eoc
      BY <1>1 DEF ThreadState
    <2>2. QED
      BY <2>1, EocNat DEF Entry, IInv, TypeOK
  <1>4. th' \in [Thread -> ThreadState] /\ \A u \in Thread : u # t => th'[u] = th[u]
    BY <1>1, <1>2, <1>3, EocNat, SMTT(60) DEF Walk, ThreadState, InTable, FatFile, Entry, LeaveVolume
  <1>5. InTable(th'[t]) /\ Role(th'[t])
    BY <1>1, <1>2, <1>3, EocNat DEF Walk, ThreadState, InTable, Role, Entry, LeaveVolume
  <1>6. InSection(th'[t]) => /\ InSection(th[t])
                             /\ th'[t].cur = th[t].cur
                             /\ nextFree < th'[t].next
    BY <1>1, <1>2, <1>3 DEF Walk, ThreadState, InSection, Role, IInv, SectionHeld, LeaveVolume
  <1>7. TypeOK'
    BY <1>4 DEF IInv, TypeOK, Walk
  <1>8. QED
    BY <1>4, <1>5, <1>6, <1>7, Quiet, OneThread DEF Walk, IInv

\* truncate keeps what follows the cluster it will mark.
LEMMA CutStep ==
  ASSUME IInv, NEW t \in Thread, Cut(t)
  PROVE  IInv'
  <1>1. th \in [Thread -> ThreadState] /\ th[t] \in ThreadState
    BY DEF IInv, TypeOK
  <1>2. InTable(th[t]) /\ Role(th[t])
    BY DEF IInv, Roles
  <1>3. fat[th[t].at] \in 0 .. Eoc
    BY <1>2 DEF Cut, InTable, IInv, TypeOK
  <1>4. th' \in [Thread -> ThreadState] /\ \A u \in Thread : u # t => th'[u] = th[u]
    BY <1>1, <1>2, <1>3, EocNat DEF Cut, ThreadState, InTable, FatFile, Entry
  <1>5. InTable(th'[t]) /\ Role(th'[t])
    BY <1>1, <1>2, <1>3, EocNat DEF Cut, ThreadState, InTable, Role, Entry
  <1>6. InSection(th'[t]) => /\ InSection(th[t])
                             /\ th'[t].cur = th[t].cur
                             /\ nextFree < th'[t].next
    BY <1>1, <1>2, <1>3 DEF Cut, ThreadState, InSection, Role, IInv, SectionHeld
  <1>7. TypeOK'
    BY <1>4 DEF IInv, TypeOK, Cut
  <1>8. QED
    BY <1>4, <1>5, <1>6, <1>7, Quiet, OneThread DEF Cut, IInv

\* truncate frees an entry in its copy of the sector.
LEMMA DropStep ==
  ASSUME IInv, NEW t \in Thread, Drop(t)
  PROVE  IInv'
  <1>1. th \in [Thread -> ThreadState] /\ th[t] \in ThreadState
    BY DEF IInv, TypeOK
  <1>2. InTable(th[t]) /\ Role(th[t])
    BY DEF IInv, Roles
  <1>3. fat[th[t].at] \in 0 .. Eoc /\ Freed(t) \in [Slot -> 0 .. Eoc]
    <2>1. th[t].at \in Entry /\ fat \in [Entry -> 0 .. Eoc]
      BY <1>2 DEF Drop, InTable, IInv, TypeOK
    <2>2. SectorOf(th[t].at) \in [Slot -> 0 .. Eoc] /\ Free \in 0 .. Eoc
      BY <2>1, SectorType, EocNat DEF Free
    <2>3. QED
      BY <2>1, <2>2 DEF Freed
  <1>4. th' \in [Thread -> ThreadState] /\ \A u \in Thread : u # t => th'[u] = th[u]
    BY <1>1, <1>2, <1>3, EocNat DEF Drop, ThreadState, InTable, FatFile, Entry
  <1>5. InTable(th'[t]) /\ Role(th'[t])
    BY <1>1, <1>2, <1>3, EocNat DEF Drop, ThreadState, InTable, Role, Entry
  <1>6. InSection(th'[t]) => /\ InSection(th[t])
                             /\ th'[t].cur = th[t].cur
                             /\ nextFree < th'[t].next
    BY <1>1, <1>2, <1>3 DEF Drop, ThreadState, InSection, Role, IInv, SectionHeld
  <1>7. TypeOK'
    BY <1>4 DEF IInv, TypeOK, Drop
  <1>8. QED
    BY <1>4, <1>5, <1>6, <1>7, Quiet, OneThread DEF Drop, IInv

\* truncate writes the sector, and is done or goes on.
LEMMA DropPutStep ==
  ASSUME IInv, NEW t \in Thread, DropPut(t)
  PROVE  IInv'
  <1>1. th \in [Thread -> ThreadState] /\ th[t] \in ThreadState
    BY DEF IInv, TypeOK
  <1>2. InTable(th[t]) /\ Role(th[t])
    BY DEF IInv, Roles
  <1>3. fat' \in [Entry -> 0 .. Eoc]
    BY <1>1, PutType DEF DropPut, IInv, TypeOK, ThreadState
  <1>4. th' \in [Thread -> ThreadState] /\ \A u \in Thread : u # t => th'[u] = th[u]
    BY <1>1, <1>2, RestIsQuiet, EocNat DEF DropPut, ThreadState, InTable, FatFile, Entry
  <1>5. InTable(th'[t]) /\ Role(th'[t])
    BY <1>1, <1>2, RestIsQuiet, EocNat DEF DropPut, ThreadState, InTable, Role, Entry
  <1>6. InSection(th'[t]) => /\ InSection(th[t])
                             /\ th'[t].cur = th[t].cur
                             /\ nextFree < th'[t].next
    BY <1>1, <1>2, RestIsQuiet DEF DropPut, ThreadState, InSection, Role, IInv, SectionHeld
  <1>7. TypeOK'
    BY <1>4, <1>3 DEF IInv, TypeOK, DropPut
  <1>8. QED
    BY <1>4, <1>5, <1>6, <1>7, Quiet, OneThread DEF DropPut, IInv

\* A pass of the search ends with a candidate beyond the pointer.
LEMMA SearchStep ==
  ASSUME IInv, NEW t \in Thread, Search(t)
  PROVE  IInv'
  <1> DEFINE nextPass == (Sector(th[t].next) + 1) * EntriesPerSector
             s == SectorOf(th[t].cur + 1)
             Moves(n, pc) == th' = [th EXCEPT ![t].next = n, ![t].pc = pc]
  <1>1. th \in [Thread -> ThreadState] /\ th[t] \in ThreadState
    BY DEF IInv, TypeOK
  <1>2. /\ InTable(th[t]) /\ Role(th[t]) /\ InSection(th[t])
        /\ fatLock = t /\ th[t].cur = nextFree /\ nextFree < th[t].next
        /\ nextFree \in 0 .. Eoc
    BY DEF IInv, TypeOK, Roles, SectionHeld, InSection, Search
  <1>3. th[t].next \in 0 .. Eoc /\ Clusters \in Nat /\ Clusters < Eoc
    BY <1>1, EocNat, FatAssumption DEF ThreadState, Eoc
  <1>4. nextPass \in Nat /\ th[t].next < nextPass
    BY <1>3, EocNat, NextPassBeyond
  <1> HIDE DEF nextPass, s
  <1>5. \E n \in 0 .. Eoc, pc \in {"search", "mark"} : th[t].next <= n /\ Moves(n, pc)
    <2>1. SearchIn(t, s)
      BY DEF Search, s
    <2>2. CASE \E n \in Candidates(t, s) : Moves(n, "mark")
      <3>1. \A n \in Candidates(t, s) : n \in 0 .. Eoc /\ th[t].next <= n
        BY <1>3, EocNat DEF Candidates
      <3> HIDE DEF Moves
      <3>2. QED
        BY <2>2, <3>1
    <2>3. CASE /\ nextPass < Clusters
               /\ th' = [th EXCEPT ![t].next = nextPass]
      <3>1. Moves(nextPass, "search")
        BY <1>1, <2>3 DEF Search, ThreadState
      <3>2. nextPass \in 0 .. Eoc /\ th[t].next <= nextPass
        BY <1>3, <1>4, <2>3, EocNat
      <3> HIDE DEF Moves
      <3>3. QED
        BY <3>1, <3>2
    <2>4. CASE th[t].next < Clusters /\ Moves(Clusters, "mark")
      <3>1. Clusters \in 0 .. Eoc /\ th[t].next <= Clusters
        BY <1>3, <2>4, EocNat
      <3> HIDE DEF Moves
      <3>2. QED
        BY <2>4, <3>1
    <2>5. CASE th' = [th EXCEPT ![t].pc = "mark"]
      <3>1. Moves(th[t].next, "mark")
        BY <1>1, <2>5 DEF ThreadState
      <3>2. th[t].next \in 0 .. Eoc /\ th[t].next <= th[t].next
        BY <1>3, EocNat
      <3> HIDE DEF Moves
      <3>3. QED
        BY <3>1, <3>2
    <2>6. QED
      BY <2>1, <2>2, <2>3, <2>4, <2>5 DEF SearchIn, nextPass
  <1>6. PICK n \in 0 .. Eoc, pc \in {"search", "mark"} :
          /\ th[t].next <= n
          /\ th' = [th EXCEPT ![t].next = n, ![t].pc = pc]
    BY <1>5 DEF Moves
  <1>7. th' \in [Thread -> ThreadState] /\ \A u \in Thread : u # t => th'[u] = th[u]
    BY <1>1, <1>6 DEF ThreadState
  <1>8. /\ th'[t].pc = pc /\ th'[t].next = n
        /\ th'[t].cur = th[t].cur /\ th'[t].op = th[t].op
    BY <1>1, <1>6 DEF ThreadState
  <1>9. InTable(th'[t]) /\ Role(th'[t])
    BY <1>2, <1>8 DEF Search, InTable, Role
  <1>10. InSection(th[t]) /\ th'[t].cur = th[t].cur /\ nextFree < th'[t].next
    BY <1>2, <1>3, <1>6, <1>8, EocNat
  <1>11. TypeOK'
    BY <1>7 DEF IInv, TypeOK, Search
  <1>12. QED
    BY <1>7, <1>9, <1>10, <1>11, Quiet, OneThread DEF Search, IInv

\* A thread takes the lock when no other is in the section.
LEMMA LockStep ==
  ASSUME IInv, NEW t \in Thread, Lock(t)
  PROVE  IInv'
  <1>1. th \in [Thread -> ThreadState] /\ th[t] \in ThreadState
    BY DEF IInv, TypeOK
  <1>2. Role(th[t]) /\ \A u \in Thread : ~ InSection(th[u])
    BY FatAssumption DEF IInv, Roles, SectionHeld, Lock
  <1>3. /\ nextFree \in Entry /\ nextFree < nextFree + 1
        /\ nextFree \in 0 .. Eoc /\ nextFree + 1 \in 0 .. Eoc
    BY EocNat DEF Lock, IInv, TypeOK, Entry
  <1>4. th' \in [Thread -> ThreadState] /\ \A u \in Thread : u # t => th'[u] = th[u]
    <2> DEFINE r == [th[t] EXCEPT !.pc = "search", !.cur = nextFree, !.next = nextFree + 1]
    <2>1. r \in ThreadState
      BY <1>1, <1>3 DEF ThreadState
    <2>2. th' = [th EXCEPT ![t] = r]
      BY DEF Lock
    <2>3. QED
      BY <1>1, <2>1, <2>2
  <1>5. /\ th'[t].pc = "search" /\ th'[t].op = th[t].op
        /\ th'[t].cur = nextFree /\ th'[t].next = nextFree + 1
    BY <1>1 DEF Lock, ThreadState
  <1>6. InTable(th'[t]) /\ Role(th'[t])
    BY <1>2, <1>3, <1>5 DEF Lock, InTable, Role
  <1>7. SectionHeld'
    BY <1>2, <1>3, <1>4, <1>5 DEF SectionHeld, Lock, InSection
  <1>8. TypeOK'
    BY <1>4 DEF IInv, TypeOK, Lock
  <1>9. GivenBelow' /\ ClustersGivenOnce'
    BY DEF IInv, GivenBelow, ClustersGivenOnce, Lock
  <1>10. QED
    BY <1>4, <1>6, <1>7, <1>8, <1>9, OneThread DEF IInv

\* The cluster is given: it was the pointer, and the pointer passes it.
LEMMA UnlockStep ==
  ASSUME IInv, NEW t \in Thread, Unlock(t)
  PROVE  IInv'
  <1> DEFINE f == th[t].work.file
             cur == th[t].cur
  <1>1. th \in [Thread -> ThreadState] /\ th[t] \in ThreadState
    BY DEF IInv, TypeOK
  <1>2. /\ InTable(th[t]) /\ Role(th[t])
        /\ fatLock = t /\ cur = nextFree /\ nextFree < th[t].next
    BY DEF IInv, Roles, SectionHeld, InSection, Unlock
  <1>3. cur \in Entry /\ th[t].next \in 0 .. Eoc /\ th[t].work \in FatFile
    BY <1>1, <1>2 DEF InTable, Unlock, ThreadState
  <1>4. th' \in [Thread -> ThreadState] /\ \A u \in Thread : u # t => th'[u] = th[u]
    <2>1. cur \in 0 .. Eoc /\ th[t].count + 1 \in Nat
      BY <1>1, <1>3, EocNat DEF ThreadState, Entry
    <2>2. CASE th[t].work.first = 0
      <3> DEFINE pc == IF th[t].op = "mkdir" THEN "entry" ELSE "find"
                 w == [th[t].work EXCEPT !.first = cur]
                 r == [th[t] EXCEPT !.work = w, !.at = cur, !.count = @ + 1, !.pc = pc]
      <3>1. th' = [th EXCEPT ![t] = r]
        BY <1>1, <2>2, ZenonT(60) DEF Unlock, ThreadState
      <3>2. w \in FatFile
        BY <1>3 DEF FatFile
      <3>3. r \in ThreadState
        BY <1>1, <2>1, <3>2 DEF ThreadState
      <3>4. QED
        BY <1>1, <3>1, <3>3
    <2>3. CASE th[t].work.first # 0
      <3> DEFINE pc == IF th[t].count + 1 < th[t].need THEN "lock" ELSE "entry"
                 w == [th[t].work EXCEPT !.eoc = cur]
                 r == [th[t] EXCEPT !.work = w, !.count = @ + 1, !.pc = pc]
      <3>1. th' = [th EXCEPT ![t] = r]
        BY <1>1, <2>3 DEF Unlock, ThreadState
      <3>2. w \in FatFile
        BY <1>3 DEF FatFile
      <3>3. r \in ThreadState
        BY <1>1, <2>1, <3>2 DEF ThreadState
      <3>4. QED
        BY <1>1, <3>1, <3>3
    <2>4. QED
      BY <2>2, <2>3
  <1>5. /\ th'[t].op = th[t].op
        /\ \/ th'[t].pc \in {"entry", "find"} /\ th'[t].at = cur
           \/ th'[t].pc \in {"entry", "lock"}
    <2>1. CASE th[t].work.first = 0
      BY <1>1, <2>1 DEF Unlock, ThreadState
    <2>2. CASE th[t].work.first # 0
      BY <1>1, <2>2 DEF Unlock, ThreadState
    <2>3. QED
      BY <2>1, <2>2
  <1>6. InTable(th'[t]) /\ Role(th'[t])
    BY <1>2, <1>3, <1>5 DEF Unlock, InTable, Role
  <1>7. SectionHeld'
    <2>1. ~ InSection(th'[t])
      BY <1>5 DEF InSection
    <2>2. \A u \in Thread : u # t => ~ InSection(th'[u])
      BY <1>2, <1>4 DEF IInv, SectionHeld
    <2>3. QED
      BY <2>1, <2>2 DEF SectionHeld, InSection
  <1>8. given \in [File -> Seq(Entry)] /\ given' = [given EXCEPT ![f] = Append(@, cur)]
    BY DEF IInv, TypeOK, Unlock
  <1>9. given' \in [File -> Seq(Entry)]
    <2>1. \A g \in File : Append(given[g], cur) \in Seq(Entry)
      BY <1>3, <1>8
    <2>2. QED
      BY <1>8, <2>1
  <1>10. TypeOK'
    BY <1>3, <1>4, <1>9 DEF IInv, TypeOK, Unlock
  <1> HIDE DEF f, cur
  <1>11. \A g \in File :
           /\ Len(given[g]) \in Nat
           /\ DOMAIN given[g] = 1 .. Len(given[g])
           /\ \A i \in DOMAIN given[g] : given[g][i] \in Nat /\ given[g][i] < cur
    BY <1>2, <1>8, EocNat DEF IInv, GivenBelow, Entry
  <1>12. \A g \in File : g # f => given'[g] = given[g]
    BY <1>8
  <1>13. f \in File =>
           /\ DOMAIN given'[f] = 1 .. Len(given[f]) + 1
           /\ given'[f][Len(given[f]) + 1] = cur
           /\ \A i \in 1 .. Len(given[f]) : given'[f][i] = given[f][i]
    BY <1>8, <1>11, <1>3
  <1>14. GivenBelow'
    <2> SUFFICES ASSUME NEW g \in File, NEW i \in DOMAIN given'[g]
                 PROVE  given'[g][i] < nextFree'
      BY DEF GivenBelow
    <2>1. nextFree' = th[t].next /\ cur < nextFree' /\ cur \in Nat /\ nextFree' \in Nat
      BY <1>2, <1>3, EocNat DEF Unlock, Entry
    <2>2. CASE g # f
      BY <1>11, <1>12, <2>1, <2>2
    <2>3. CASE g = f
      <3>1. i = Len(given[f]) + 1 \/ i \in 1 .. Len(given[f])
        BY <1>11, <1>13, <2>3
      <3>2. QED
        BY <1>11, <1>13, <2>1, <2>3, <3>1
    <2>4. QED
      BY <2>2, <2>3
  <1>15. ClustersGivenOnce'
    <2>1. \A g \in File : \A i \in DOMAIN given'[g] :
             \/ g = f /\ i = Len(given[f]) + 1 /\ given'[g][i] = cur
             \/ i \in DOMAIN given[g] /\ given'[g][i] = given[g][i] /\ given'[g][i] # cur
      <3> SUFFICES ASSUME NEW g \in File, NEW i \in DOMAIN given'[g]
                   PROVE  \/ g = f /\ i = Len(given[f]) + 1 /\ given'[g][i] = cur
                          \/ /\ i \in DOMAIN given[g]
                             /\ given'[g][i] = given[g][i] /\ given'[g][i] # cur
        OBVIOUS
      <3>1. cur \in Nat
        BY <1>3, EocNat DEF Entry
      <3>2. CASE g # f
        BY <1>11, <1>12, <3>1, <3>2
      <3>3. CASE g = f
        <4>1. i = Len(given[f]) + 1 \/ i \in 1 .. Len(given[f])
          BY <1>11, <1>13, <3>3
        <4>2. QED
          BY <1>11, <1>13, <3>1, <3>3, <4>1
      <3>4. QED
        BY <3>2, <3>3
    <2>2. SUFFICES ASSUME NEW g \in File, NEW h \in File,
                          NEW i \in DOMAIN given'[g], NEW j \in DOMAIN given'[h],
                          given'[g][i] = given'[h][j]
                   PROVE  g = h /\ i = j
      BY DEF ClustersGivenOnce
    <2>3. QED
      BY <2>1, <2>2 DEF IInv, ClustersGivenOnce
  <1>16. QED
    BY <1>4, <1>6, <1>7, <1>10, <1>14, <1>15, OneThread DEF IInv

-----------------------------------------------------------------------------
\* What FUSE asks: a thread begins an operation, or the directory and the
\* handles change and no thread moves.

DirState == [File -> [kind : {"none", "file", "dir"}, first : Entry, size : Nat]]

\* A step that leaves the table, the pointer, the lock and the ghost alone.
LEMMA Asked ==
  ASSUME IInv, UNCHANGED <<fat, nextFree, fatLock, given>>,
         dirEntry' \in DirState, handle' \in [Handle -> FatFile],
         \/ UNCHANGED th
         \/ \E t \in Thread, r \in ThreadState :
               /\ InTable(r) /\ Role(r) /\ ~ InSection(r)
               /\ th' = [th EXCEPT ![t] = r]
  PROVE  IInv'
  <1>1. th \in [Thread -> ThreadState]
    BY DEF IInv, TypeOK
  <1>2. CASE UNCHANGED th
    <2>1. TypeOK'
      BY <1>2 DEF IInv, TypeOK, DirState
    <2>2. Roles'
      BY <1>2 DEF IInv, Roles, InTable, Role
    <2>3. SectionHeld' /\ GivenBelow' /\ ClustersGivenOnce'
      BY <1>2 DEF IInv, SectionHeld, InSection, GivenBelow, ClustersGivenOnce
    <2>4. QED
      BY <2>1, <2>2, <2>3 DEF IInv
  <1>3. ASSUME NEW t \in Thread, NEW r \in ThreadState,
               InTable(r), Role(r), ~ InSection(r), th' = [th EXCEPT ![t] = r]
        PROVE  IInv'
    <2>1. /\ th' \in [Thread -> ThreadState] /\ th'[t] = r
          /\ \A u \in Thread : u # t => th'[u] = th[u]
      BY <1>1, <1>3
    <2>2. TypeOK'
      BY <2>1 DEF IInv, TypeOK, DirState
    <2>3. Roles'
      BY <1>3, <2>1, OneThread
    <2>4. SectionHeld' /\ GivenBelow' /\ ClustersGivenOnce'
      BY <1>3, <2>1, Quiet
    <2>5. QED
      BY <2>2, <2>3, <2>4 DEF IInv
  <1>4. QED
    BY <1>2, <1>3

\* What open() makes of a name is a FatFile.
LEMMA OpenedType ==
  ASSUME IInv, NEW f \in File
  PROVE  /\ dirEntry \in DirState
         /\ handle \in [Handle -> FatFile]
         /\ Opened(f) \in FatFile /\ dirEntry[f].first \in Entry
  <1>1. dirEntry \in DirState /\ handle \in [Handle -> FatFile]
    BY DEF IInv, TypeOK, DirState
  <1>2. dirEntry[f].first \in Entry /\ dirEntry[f].size \in Nat
    BY <1>1 DEF DirState
  <1>3. Opened(f) \in FatFile
    BY <1>2, EocNat DEF Opened, FatFile, Entry
  <1>4. QED
    BY <1>1, <1>2, <1>3

\* A thread that asks for clusters begins to wait for the lock, to look for the
\* end of the chain, or to write the entry.
LEMMA ExtendBegins ==
  ASSUME IInv, NEW t \in Thread, NEW work \in FatFile, NEW h \in Handle \cup {None},
         NEW op \in {"write", "grow"}, NEW size \in Nat, NEW need \in Nat,
         Extend(t, op, work, h, size, need)
  PROVE  \E r \in ThreadState : /\ InTable(r) /\ Role(r) /\ ~ InSection(r)
                                /\ th' = [th EXCEPT ![t] = r]
  <1> DEFINE pc == IF work.first = 0 \/ (work.eoc # 0 /\ need > 0) THEN "lock"
                   ELSE IF work.eoc = 0 THEN "find" ELSE "entry"
             w == [work EXCEPT !.size = size]
             r == [Rest EXCEPT !.op = op, !.handle = h, !.need = need,
                               !.at = work.first, !.work = w, !.pc = pc]
  <1>1. work.first \in Entry /\ work.first \in 0 .. Eoc /\ w \in FatFile
    BY EocNat DEF FatFile, Entry
  <1>2. pc \in {"lock", "find", "entry"}
    OBVIOUS
  <1>3. th' = [th EXCEPT ![t] = r]
    BY DEF Extend
  <1> HIDE DEF pc, w
  <1>4. r \in ThreadState
    BY <1>1, <1>2, RestIsQuiet DEF ThreadState
  <1>5. r.pc = pc /\ r.at = work.first /\ r.op = op
    BY DEF Rest
  <1>6. InTable(r) /\ Role(r) /\ ~ InSection(r)
    BY <1>1, <1>2, <1>5 DEF InTable, Role, InSection
  <1>7. QED
    BY <1>3, <1>4, <1>6

\* mknod writes an entry of the directory; mkdir begins to wait for the lock.
LEMMA NamesStep ==
  ASSUME IInv, NEW t \in Thread, NEW f \in File, Mknod(t, f) \/ Mkdir(t, f)
  PROVE  IInv'
  <1>1. CASE Mknod(t, f)
    <2>1. dirEntry' \in DirState /\ handle' \in [Handle -> FatFile]
      BY <1>1, OpenedType, EocNat DEF Mknod, DirState, Entry
    <2>2. QED
      BY <1>1, <2>1, Asked DEF Mknod
  <1>2. CASE Mkdir(t, f)
    <2> DEFINE r == [Rest EXCEPT !.pc = "lock", !.op = "mkdir", !.work = Opened(f)]
    <2>1. r \in ThreadState
      BY OpenedType, RestIsQuiet DEF ThreadState
    <2>2. InTable(r) /\ Role(r) /\ ~ InSection(r)
      BY DEF InTable, Role, InSection, Rest
    <2>3. QED
      BY <1>2, <2>1, <2>2, OpenedType, Asked DEF Mkdir
  <1>3. QED
    BY <1>1, <1>2

\* unlink and rmdir take the name from the directory and begin to free.
LEMMA RemoveStep ==
  ASSUME IInv, NEW t \in Thread, NEW f \in File, Unlink(t, f) \/ Rmdir(t, f)
  PROVE  IInv'
  <1> DEFINE r(op) == [Rest EXCEPT !.pc = "chain", !.op = op, !.work = Opened(f),
                                   !.at = dirEntry[f].first]
  <1>1. PICK op \in {"unlink", "rmdir"} : \E kind : Remove(t, f, op, kind)
    BY DEF Unlink, Rmdir
  <1>2. dirEntry[f].first \in 0 .. Eoc
    BY OpenedType, EocNat DEF Entry
  <1>3. r(op) \in ThreadState
    BY <1>2, OpenedType, RestIsQuiet DEF ThreadState
  <1>4. InTable(r(op)) /\ Role(r(op)) /\ ~ InSection(r(op))
    BY DEF InTable, Role, InSection, Rest
  <1>5. Nothing \in [kind : {"none", "file", "dir"}, first : Entry, size : Nat]
    BY EocNat DEF Nothing, Entry
  <1>6. dirEntry' \in DirState /\ handle' \in [Handle -> FatFile]
    BY <1>1, <1>5, OpenedType DEF Remove, DirState
  <1>7. UNCHANGED <<fat, nextFree, fatLock, given>> /\ th' = [th EXCEPT ![t] = r(op)]
    BY <1>1 DEF Remove
  <1>8. QED
    BY <1>3, <1>4, <1>6, <1>7, Asked

\* truncate opens the file, and begins to extend it or to walk its chain.
LEMMA TruncateStep ==
  ASSUME IInv, NEW t \in Thread, NEW f \in File, NEW n \in Nat,
         TruncateUp(t, f, n) \/ TruncateDown(t, f, n)
  PROVE  IInv'
  <1>1. CASE TruncateUp(t, f, n)
    <2>1. \E r \in ThreadState : /\ InTable(r) /\ Role(r) /\ ~ InSection(r)
                                 /\ th' = [th EXCEPT ![t] = r]
      <3>1. /\ Opened(f) \in FatFile /\ None \in Handle \cup {None}
            /\ "grow" \in {"write", "grow"}
        BY OpenedType
      <3>2. Extend(t, "grow", Opened(f), None, n, n)
        BY <1>1 DEF TruncateUp
      <3>3. QED
        BY <3>1, <3>2, ExtendBegins, Zenon
    <2>2. dirEntry' \in DirState /\ handle' \in [Handle -> FatFile]
      BY <1>1, OpenedType DEF TruncateUp
    <2>3. QED
      BY <1>1, <2>1, <2>2, Asked DEF TruncateUp
  <1>2. CASE TruncateDown(t, f, n)
    <2> DEFINE r == [Rest EXCEPT !.pc = "walk", !.op = "shrink", !.work = Opened(f),
                                 !.need = n, !.at = dirEntry[f].first]
    <2>1. dirEntry[f].first \in 0 .. Eoc
      BY OpenedType, EocNat DEF Entry
    <2>2. r \in ThreadState
      BY <2>1, OpenedType, RestIsQuiet DEF ThreadState
    <2>3. InTable(r) /\ Role(r) /\ ~ InSection(r)
      BY DEF InTable, Role, InSection, Rest
    <2>4. dirEntry' \in DirState /\ handle' \in [Handle -> FatFile]
      BY <1>2, OpenedType, EocNat DEF TruncateDown, DirState, Entry
    <2>5. QED
      BY <1>2, <2>2, <2>3, <2>4, Asked DEF TruncateDown
  <1>3. QED
    BY <1>1, <1>2

\* A write extends the file, or only records a size.
LEMMA WriteStep ==
  ASSUME IInv, NEW t \in Thread, NEW h \in Handle, NEW offset \in Nat, NEW n \in Nat,
         Write(t, h, offset, n)
  PROVE  IInv'
  <1>1. dirEntry \in DirState /\ handle \in [Handle -> FatFile]
    BY DEF IInv, TypeOK, DirState
  <1>2. handle[h] \in FatFile /\ handle[h].size \in Nat /\ handle[h].first \in Entry
    BY <1>1 DEF FatFile
  <1>3. handle[h].file \in File /\ UNCHANGED <<fat, nextFree, fatLock, given>>
    BY <1>2 DEF Write, FatFile
  <1>4. CASE /\ Extend(t, "write", handle[h], h, handle[h].size + n, n)
             /\ UNCHANGED <<dirEntry, handle>>
    <2>1. \E r \in ThreadState : /\ InTable(r) /\ Role(r) /\ ~ InSection(r)
                                 /\ th' = [th EXCEPT ![t] = r]
      <3> DEFINE size == handle[h].size + n
      <3>1. /\ handle[h] \in FatFile /\ h \in Handle \cup {None}
            /\ "write" \in {"write", "grow"} /\ size \in Nat
        BY <1>2
      <3>2. Extend(t, "write", handle[h], h, size, n)
        BY <1>4
      <3> HIDE DEF size
      <3>3. QED
        BY <3>1, <3>2, ExtendBegins, Zenon
    <2>2. QED
      BY <1>1, <1>3, <1>4, <2>1, Asked
  <1>5. CASE /\ handle' = [handle EXCEPT ![h].size = offset + n]
             /\ dirEntry' = [dirEntry EXCEPT ![handle[h].file].size = offset + n,
                                             ![handle[h].file].first = handle[h].first]
             /\ UNCHANGED th
    <2>1. handle' \in [Handle -> FatFile]
      BY <1>1, <1>5 DEF FatFile
    <2>2. dirEntry' \in DirState
      <3> DEFINE f == handle[h].file
                 d == [dirEntry EXCEPT ![f].size = offset + n]
      <3>1. d \in DirState
        BY <1>1, <1>3 DEF DirState
      <3>2. dirEntry' = [d EXCEPT ![f].first = handle[h].first]
        BY <1>1, <1>3, <1>5 DEF DirState
      <3> HIDE DEF d
      <3>3. QED
        BY <1>2, <1>3, <3>1, <3>2 DEF DirState
    <2>3. QED
      BY <1>3, <1>5, <2>1, <2>2, Asked
  <1>6. QED
    BY <1>4, <1>5 DEF Write

\* open and release change handles only.
LEMMA HandleStep ==
  ASSUME IInv, NEW h \in Handle, Release(h) \/ \E f \in File : Open(h, f)
  PROVE  IInv'
  <1>1. dirEntry' \in DirState /\ handle' \in [Handle -> FatFile]
    BY OpenedType, RestIsQuiet DEF Release, Open, IInv, TypeOK, DirState
  <1>2. QED
    BY <1>1, Asked DEF Release, Open

-----------------------------------------------------------------------------
\* Every step keeps the invariant.
LEMMA Invariance == IInv /\ [Next]_vars => IInv'
  <1> SUFFICES ASSUME IInv, [Next]_vars PROVE IInv'
    OBVIOUS
  <1>1. ASSUME NEW t \in Thread, Asks(t) PROVE IInv'
    <2>1. \A n \in 0 .. MaxSize : n \in Nat
      BY FatAssumption
    <2>2. \A n \in 1 .. MaxRequest : n \in Nat
      BY FatAssumption
    <2>3. QED
      BY <1>1, <2>1, <2>2, NamesStep, RemoveStep, TruncateStep, WriteStep DEF Asks
  <1>2. ASSUME NEW t \in Thread, Goes(t) PROVE IInv'
    BY <1>2, LockStep, SearchStep, MarkStep, MarkPutStep, ExpandStep, ExpandPutStep,
       UnlockStep, FindEocStep, PutEntryStep, FreeNextStep, FreeEntryStep, FreePutStep,
       WalkStep, CutStep, DropStep, DropPutStep DEF Goes
  <1>3. ASSUME NEW h \in Handle, Release(h) \/ \E f \in File : Open(h, f) PROVE IInv'
    BY <1>3, HandleStep
  <1>4. CASE UNCHANGED vars
    <2>1. UNCHANGED <<fat, nextFree, fatLock, dirEntry, handle, th, given>>
      BY <1>4 DEF vars
    <2>2. dirEntry' \in DirState /\ handle' \in [Handle -> FatFile]
      BY <2>1 DEF IInv, TypeOK, DirState
    <2>3. QED
      BY <2>1, <2>2, Asked
  <1>5. QED
    BY <1>1, <1>2, <1>3, <1>4 DEF Next

\* The invariant holds of every behaviour.
LEMMA Inductive == Spec => []IInv
  <1>1. QED
    BY InitInvariant, Invariance, PTL DEF Spec

\* The state of the allocator is well formed, whatever is asked of it: no entry
\* of the table, no cursor and no handle names what the table does not have.
THEOREM TypeCorrect == Spec => []TypeOK
  <1>1. IInv => TypeOK
    BY DEF IInv
  <1>2. QED
    BY <1>1, Inductive, PTL

\* No cluster is given twice: fatLock and a pointer that never goes back are
\* enough, although chains are freed and cut with no lock and with copies of
\* sectors that are out of date (assignCluster, allocateNewCluster).
THEOREM GivenOnce == Spec => []ClustersGivenOnce
  <1>1. IInv => ClustersGivenOnce
    BY DEF IInv
  <1>2. QED
    BY <1>1, Inductive, PTL

-----------------------------------------------------------------------------
(* Chains, where files are only created and extended, each by one handle,   *)
(* and the entries behind the hint were free when the volume was mounted.   *)

OnlyGrows ==
    /\ Operation \subseteq {"mknod", "mkdir", "write"}
    /\ MaxHandlesPerFile <= 1 /\ IsFiniteSet(Handle)
    /\ \A e \in Used : e <= Hint

\* Who works on what.  A directory is made, or a handle extends its file.
Allocates(r) ==
    r.pc \in {"lock", "search", "mark", "markPut", "expand", "expandPut", "unlock"}
MakesDirectory(r) ==
    /\ r.op = "mkdir" /\ r.handle = None
    /\ dirEntry[r.work.file].kind = "none"
    /\ r.pc = "entry" \/ (Allocates(r) /\ r.work.first = 0)
ExtendsFile(r) ==
    /\ r.op = "write" /\ r.handle \in Handle
    /\ handle[r.handle].file = r.work.file
GrowsAs(r) ==
    /\ r.pc = "idle" <=> r.work.file = None
    /\ r.pc # "idle" => /\ Allocates(r) \/ r.pc \in {"find", "entry"}
                        /\ MakesDirectory(r) \/ ExtendsFile(r)

Grows ==
    /\ \A t \in Thread : GrowsAs(th[t])
    /\ \A t, u \in Thread : th[t].work.file = th[u].work.file => th[t].pc = "idle" \/ t = u

OneHandle ==
    \A h \in Handle : handle[h].file # None =>
        /\ dirEntry[handle[h].file].kind = "file"
        /\ \A i \in Handle : handle[i].file = handle[h].file => i = h

\* The table from the pointer on.  The entry after it is marked before it is given.
Marked(r) == r.pc \in {"expand", "expandPut", "unlock"}

Frontier ==
    /\ FirstFree <= nextFree
    /\ \A f \in File : \A i \in DOMAIN given[f] : FirstFree <= given[f][i]
    /\ \A e \in Entry : nextFree < e =>
          fat[e] = Free \/ (e = nextFree + 1 /\ \E t \in Thread : Marked(th[t]))
    /\ nextFree \notin Unmarked => fat[nextFree] = Eoc

InOrder(r) ==
    InSection(r) =>
        /\ r.next = nextFree + 1 /\ nextFree + 1 \in Entry
        /\ Marked(r) /\ nextFree + 1 \notin Unmarked => fat[nextFree + 1] = Eoc

\* What a thread is about to write back is the table with one entry changed.
Copied(r) ==
    LET slot == Offset(nextFree) + 1
        s == SectorOf(nextFree)
        last == r.work.eoc
    IN  /\ r.pc = "markPut" => r.buf = IF slot \in Slot THEN [s EXCEPT ![slot] = Eoc] ELSE s
        /\ r.pc = "expandPut" => r.buf = [SectorOf(last) EXCEPT ![Offset(last)] = nextFree]

Sections == \A t \in Thread : InOrder(th[t]) /\ Copied(th[t])

\* The clusters of a file, with the one that was linked and is not given yet.
Extending(r) == r.pc = "unlock" /\ r.work.first # 0
Line(f) == IF \E t \in Thread : Extending(th[t]) /\ th[t].work.file = f
           THEN Append(given[f], nextFree) ELSE given[f]
Good(f) == \A i \in DOMAIN Line(f) : Line(f)[i] \notin Unmarked
On(f, e) == \E i \in DOMAIN Line(f) : Line(f)[i] = e

\* Nothing leads into the clusters of a good file but its own chain.
Linked ==
    \A f \in File : Good(f) =>
        \A i \in DOMAIN Line(f) :
            fat[Line(f)[i]] = IF i = Len(Line(f)) THEN Eoc ELSE Line(f)[i + 1]
NoStray ==
    \A f \in File : Good(f) =>
        \A i \in DOMAIN Line(f), e \in Entry :
            fat[e] = Line(f)[i] => i > 1 /\ e = Line(f)[i - 1]
AllLinks == \A e \in Entry : fat[e] \in {Free, Eoc} \/ \E f \in File : On(f, fat[e])

Table == Frontier /\ Linked /\ NoStray /\ AllLinks

\* Where a thread that follows the chain of f may be, and what it takes for its
\* end: an unmarked entry leads to the first entry of the table, and from there on.
First(f) == IF given[f] = <<>> THEN 0 ELSE given[f][1]
Leads(f, e) == IF Good(f) THEN On(f, e) ELSE e = 0 \/ \E g \in File : On(g, e) /\ ~ Good(g)
Ends(f, e) == Leads(f, e) /\ (Good(f) => e = given[f][Len(given[f])])

FollowsAs(r) ==
    r.pc # "idle" =>
        /\ r.work.first = First(r.work.file)
        /\ r.pc \in {"find", "entry", "expand", "expandPut"} => r.work.first # 0
        /\ r.pc \in {"find", "expand", "expandPut"} => r.op = "write"
        /\ r.pc = "find" => Leads(r.work.file, r.at)
        /\ (r.pc # "find" /\ r.work.first # 0 /\ r.op = "write")
           => Ends(r.work.file, r.work.eoc)
Follows == \A t \in Thread : FollowsAs(th[t])

\* What the directory and the handle remember of a file nobody works on.
Remembers(f, h) == handle[h].first = First(f) /\ (handle[h].eoc # 0 => Ends(f, handle[h].eoc))
Rests ==
    \A f \in File : ~ Busy(f) =>
        /\ dirEntry[f].first = First(f)
        /\ dirEntry[f].kind = "none" => given[f] = <<>>
        /\ \A h \in Handle : handle[h].file = f => Remembers(f, h)

ChainInv == Grows /\ OneHandle /\ Table /\ Sections /\ Follows /\ Rests

-----------------------------------------------------------------------------
\* The quotient is the one number of sectors that fits.
LEMMA QuotientUnique ==
  ASSUME NEW n \in Nat \ {0}, NEW e \in Nat, NEW p \in Nat, NEW q \in Nat,
         n * p <= e, e < n * p + n, n * q <= e, e < n * q + n
  PROVE  p = q
  <1>1. ASSUME NEW a \in Nat, NEW b \in Nat, a < b, n * b <= e, e < n * a + n
        PROVE  FALSE
    <2>1. PICK d \in Nat : b = a + 1 + d
      BY <1>1
    <2>2. n * b = n * a + n + n * d
      BY <2>1
    <2>3. n * d \in Nat /\ n * a \in Nat /\ n * b \in Nat
      BY <2>1
    <2>4. QED
      BY <1>1, <2>2, <2>3
  <1>2. ~ (p < q)
    BY <1>1
  <1>3. ~ (q < p)
    BY <1>1
  <1>4. QED
    BY <1>2, <1>3

\* The place of an entry.
LEMMA Place ==
  ASSUME NEW e \in Nat
  PROVE  /\ Sector(e) \in Nat /\ Offset(e) \in Slot
         /\ e = Sector(e) * EntriesPerSector + Offset(e)
  <1>1. PICK n \in Nat : n = EntriesPerSector /\ n > 0
    BY FatAssumption
  <1>2. Offset(e) \in Slot
    BY OffsetInSlot
  <1>3. e \div n \in Nat /\ e = n * (e \div n) + (e % n)
    BY <1>1
  <1>4. Sector(e) = e \div n /\ Offset(e) = e % n
    BY <1>1 DEF Sector, Offset
  <1>5. PICK q \in Nat, o \in Slot : q = Sector(e) /\ o = Offset(e) /\ e = n * q + o
    BY <1>2, <1>3, <1>4
  <1>6. n * q = q * n
    BY <1>1
  <1>7. QED
    BY <1>1, <1>5, <1>6

\* The place of the entry after one.
LEMMA NextPlace ==
  ASSUME NEW e \in Nat
  PROVE  IF Offset(e) + 1 \in Slot
         THEN Sector(e + 1) = Sector(e) /\ Offset(e + 1) = Offset(e) + 1
         ELSE Offset(e + 1) = 0
  <1>1. PICK n \in Nat \ {0} : n = EntriesPerSector
    BY FatAssumption
  <1>2. PICK q \in Nat, o \in 0 .. n - 1 : q = Sector(e) /\ o = Offset(e) /\ e = q * n + o
    BY <1>1, Place DEF Slot
  <1>3. PICK p \in Nat, i \in 0 .. n - 1 :
          p = Sector(e + 1) /\ i = Offset(e + 1) /\ e + 1 = p * n + i
    BY <1>1, Place DEF Slot
  <1>4. n * p = p * n /\ n * q = q * n /\ p * n \in Nat /\ q * n \in Nat
    OBVIOUS
  <1>5. CASE o + 1 \in 0 .. n - 1
    <2>1. p = q
      BY <1>1, <1>2, <1>3, <1>4, <1>5, QuotientUnique
    <2>2. QED
      BY <1>1, <1>2, <1>3, <1>5, <2>1 DEF Slot
  <1>6. CASE o + 1 = n
    <2>1. n * (q + 1) = q * n + n
      BY <1>4
    <2>2. q + 1 \in Nat /\ e + 1 = n * (q + 1)
      BY <1>2, <1>6, <2>1
    <2>3. p = q + 1
      BY <1>1, <1>2, <1>3, <1>4, <2>1, <2>2, QuotientUnique
    <2>4. i = 0
      BY <1>3, <1>4, <2>1, <2>2, <2>3
    <2>5. QED
      BY <1>1, <1>2, <1>3, <1>6, <2>4 DEF Slot
  <1>7. QED
    BY <1>2, <1>5, <1>6

\* A sector written with one entry changed changes that entry of the table.
LEMMA PutOne ==
  ASSUME fat \in [Entry -> 0 .. Eoc], NEW e \in Entry, NEW d \in Entry, Sector(d) = Sector(e),
         NEW v \in 0 .. Eoc, PutSector(e, [SectorOf(e) EXCEPT ![Offset(d)] = v])
  PROVE  fat' = [fat EXCEPT ![d] = v]
  <1>1. \A a \in Entry : a \in Nat
    BY EocNat DEF Entry
  <1>2. \A a \in Entry : Offset(a) \in Slot /\ a = Sector(a) * EntriesPerSector + Offset(a)
    BY <1>1, Place
  <1>3. ASSUME NEW a \in Entry
        PROVE  fat'[a] = IF a = d THEN v ELSE fat[a]
    <2>1. CASE Sector(a) # Sector(e)
      BY <2>1 DEF PutSector
    <2>2. CASE Sector(a) = Sector(e)
      <3>1. SectorOf(e)[Offset(a)] = fat[a]
        BY <1>2, <2>2 DEF SectorOf
      <3>2. Offset(a) = Offset(d) <=> a = d
        BY <1>2, <2>2
      <3>3. fat'[a] = [SectorOf(e) EXCEPT ![Offset(d)] = v][Offset(a)]
        BY <2>2 DEF PutSector
      <3>4. DOMAIN SectorOf(e) = Slot /\ Offset(a) \in Slot
        BY <1>2 DEF SectorOf
      <3>5. QED
        BY <3>1, <3>2, <3>3, <3>4
    <2>3. QED
      BY <2>1, <2>2
  <1>4. QED
    BY <1>3 DEF PutSector

\* A sector written as it was read.
LEMMA PutNone ==
  ASSUME fat \in [Entry -> 0 .. Eoc], NEW e \in Entry, PutSector(e, SectorOf(e))
  PROVE  fat' = fat
  <1>1. \A a \in Entry : a \in Nat
    BY EocNat DEF Entry
  <1>2. \A a \in Entry : Offset(a) \in Slot /\ a = Sector(a) * EntriesPerSector + Offset(a)
    BY <1>1, Place
  <1>3. \A a \in Entry : fat'[a] = fat[a]
    BY <1>2 DEF PutSector, SectorOf
  <1>4. QED
    BY <1>3 DEF PutSector

-----------------------------------------------------------------------------
(* The clusters of the files.                                               *)

\* One thread is in the section.
LEMMA Alone ==
  ASSUME IInv, NEW t \in Thread, NEW u \in Thread, InSection(th[t]), InSection(th[u])
  PROVE  t = u
  BY DEF IInv, SectionHeld

LEMMA ExtendingInSection ==
  ASSUME IInv, NEW t \in Thread, Extending(th[t])
  PROVE  InSection(th[t]) /\ nextFree \in Entry
  BY DEF IInv, SectionHeld, Roles, InTable, InSection, Extending

LEMMA LineTypes ==
  ASSUME IInv, Frontier, NEW f \in File
  PROVE  /\ Line(f) \in Seq(Entry) /\ Len(Line(f)) \in Nat /\ DOMAIN Line(f) = 1 .. Len(Line(f))
         /\ \A i \in DOMAIN Line(f) :
               /\ Line(f)[i] \in Entry /\ Line(f)[i] # 0 /\ Line(f)[i] <= nextFree
               /\ ~ (\E t \in Thread : Extending(th[t])) => Line(f)[i] < nextFree
  <1>1. /\ given[f] \in Seq(Entry) /\ Len(given[f]) \in Nat
        /\ DOMAIN given[f] = 1 .. Len(given[f])
        /\ \A i \in DOMAIN given[f] : given[f][i] \in Entry
    BY DEF IInv, TypeOK
  <1>2. nextFree \in Nat /\ FirstFree \in Nat /\ FirstFree > 0 /\ FirstFree <= nextFree
    BY EocNat, FatAssumption DEF IInv, TypeOK, Frontier, FirstFree
  <1>3. \A i \in DOMAIN given[f] : given[f][i] # 0 /\ given[f][i] < nextFree
    BY <1>1, <1>2, EocNat DEF IInv, GivenBelow, Frontier, Entry
  <1>4. CASE \E t \in Thread : Extending(th[t]) /\ th[t].work.file = f
    <2>1. PICK s \in Seq(Entry) : s = given[f]
      BY <1>1
    <2>2. nextFree \in Entry
      BY <1>4, ExtendingInSection
    <2>3. PICK n \in Entry : n = nextFree
      BY <2>2
    <2>4. Line(f) = Append(s, n)
      BY <1>4, <2>1, <2>3 DEF Line
    <2>5. /\ Append(s, n) \in Seq(Entry) /\ DOMAIN Append(s, n) = 1 .. Len(s) + 1
          /\ Len(Append(s, n)) = Len(s) + 1
          /\ \A i \in 1 .. Len(s) + 1 : Append(s, n)[i] = IF i = Len(s) + 1 THEN n ELSE s[i]
      OBVIOUS
    <2>6. \A i \in 1 .. Len(s) + 1 : i # Len(s) + 1 => i \in DOMAIN given[f]
      BY <1>1, <2>1
    <2>7. QED
      BY <1>1, <1>2, <1>3, <1>4, <2>1, <2>3, <2>4, <2>5, <2>6, EocNat DEF Entry
  <1>5. CASE ~ \E t \in Thread : Extending(th[t]) /\ th[t].work.file = f
    <2>1. Line(f) = given[f]
      BY <1>5 DEF Line
    <2>2. \A i \in DOMAIN given[f] : given[f][i] <= nextFree
      BY <1>1, <1>2, <1>3, EocNat DEF Entry
    <2>3. QED
      BY <1>1, <1>3, <2>1, <2>2
  <1>6. QED
    BY <1>4, <1>5

\* No cluster is on two lines, or twice on one.
LEMMA LinesApart ==
  ASSUME IInv, NEW f \in File, NEW g \in File,
         NEW i \in DOMAIN Line(f), NEW j \in DOMAIN Line(g), Line(f)[i] = Line(g)[j]
  PROVE  f = g /\ i = j
  <1> DEFINE Holds(h, k) == /\ \E t \in Thread : Extending(th[t]) /\ th[t].work.file = h
                            /\ k = Len(given[h]) + 1
  <1>1. ASSUME NEW h \in File, NEW k \in DOMAIN Line(h)
        PROVE  IF Holds(h, k) THEN Line(h)[k] = nextFree
               ELSE /\ k \in DOMAIN given[h] /\ Line(h)[k] = given[h][k]
                    /\ given[h][k] < nextFree
    <2>1. given[h] \in Seq(Entry)
      BY DEF IInv, TypeOK
    <2>2. PICK s \in Seq(Entry) : s = given[h]
      BY <2>1
    <2>3. CASE \E t \in Thread : Extending(th[t]) /\ th[t].work.file = h
      <3>1. PICK n \in Entry : n = nextFree
        BY <2>3, ExtendingInSection
      <3>2. Line(h) = Append(s, n)
        BY <2>2, <2>3, <3>1 DEF Line
      <3>3. /\ DOMAIN Append(s, n) = 1 .. Len(s) + 1 /\ DOMAIN s = 1 .. Len(s) /\ Len(s) \in Nat
            /\ \A a \in 1 .. Len(s) + 1 : Append(s, n)[a] = IF a = Len(s) + 1 THEN n ELSE s[a]
        OBVIOUS
      <3>4. k \in 1 .. Len(s) + 1 /\ (k # Len(s) + 1 => k \in 1 .. Len(s))
        BY <3>2, <3>3
      <3>5. QED
        BY <2>2, <2>3, <3>1, <3>2, <3>3, <3>4 DEF IInv, GivenBelow
    <2>4. CASE ~ \E t \in Thread : Extending(th[t]) /\ th[t].work.file = h
      <3>1. Line(h) = given[h]
        BY <2>4 DEF Line
      <3>2. QED
        BY <2>4, <3>1 DEF IInv, GivenBelow
    <2>5. QED
      BY <2>3, <2>4
  <1>2. ~ (nextFree < nextFree)
    BY EocNat DEF IInv, TypeOK
  <1>3. CASE Holds(f, i) /\ Holds(g, j)
    <2>1. f = g
      BY <1>3, Alone, ExtendingInSection
    <2>2. QED
      BY <1>3, <2>1
  <1>4. CASE ~ Holds(f, i) /\ ~ Holds(g, j)
    <2>1. given[f][i] = given[g][j] /\ i \in DOMAIN given[f] /\ j \in DOMAIN given[g]
      BY <1>1, <1>4
    <2>2. QED
      BY <2>1 DEF IInv, ClustersGivenOnce
  <1>5. CASE Holds(f, i) # Holds(g, j)
    BY <1>1, <1>2, <1>5
  <1>6. QED
    BY <1>3, <1>4, <1>5

\* Where nobody is about to give a linked cluster, and where t is.
LEMMA LineGiven ==
  ASSUME NEW f, \A t \in Thread : Extending(th[t]) => th[t].work.file # f
  PROVE  Line(f) = given[f]
  BY DEF Line

\* Steps that leave the lines alone.
LEMMA LineSame ==
  ASSUME UNCHANGED <<given, nextFree>>,
         \A u \in Thread : th'[u] = th[u] \/ (~ Extending(th[u]) /\ ~ Extending(th'[u]))
  PROVE  /\ \A f : Line(f)' = Line(f) /\ (Good(f)' <=> Good(f)) /\ First(f)' = First(f)
         /\ \A f, e : (On(f, e)' <=> On(f, e)) /\ (Leads(f, e)' <=> Leads(f, e))
                      /\ (Ends(f, e)' <=> Ends(f, e))
  <1>1. ASSUME NEW f
        PROVE  Line(f)' = Line(f)
    BY DEF Line, Extending
  <1>2. \A f : Good(f)' <=> Good(f)
    BY <1>1 DEF Good, Unmarked
  <1>3. \A f, e : On(f, e)' <=> On(f, e)
    BY <1>1 DEF On
  <1>4. \A f, e : Leads(f, e)' <=> Leads(f, e)
    BY <1>2, <1>3 DEF Leads
  <1>5. QED
    BY <1>1, <1>2, <1>3, <1>4 DEF First, Ends

\* A cluster is added to the line of f.
LEMMA LineGrows ==
  ASSUME NEW f \in File, Line(f) \in Seq(Entry), nextFree \in Entry,
         Line(f)' = Append(Line(f), nextFree),
         \A g \in File : g # f => Line(g)' = Line(g)
  PROVE  /\ \A g \in File : \A e : On(g, e) => On(g, e)'
         /\ \A g \in File : Good(g)' => Good(g)
         /\ \A g \in File : g # f => (Good(g)' <=> Good(g))
         /\ \A g \in File : \A e : g # f /\ Leads(g, e) => Leads(g, e)'
         /\ \E n \in Entry : n = nextFree /\ On(f, n)'
  <1>1. PICK s \in Seq(Entry), n \in Entry : s = Line(f) /\ n = nextFree /\ Line(f)' = Append(s, n)
    OBVIOUS
  <1>2. /\ DOMAIN Append(s, n) = 1 .. Len(s) + 1 /\ DOMAIN s = 1 .. Len(s) /\ Len(s) \in Nat
        /\ \A a \in 1 .. Len(s) : Append(s, n)[a] = s[a] /\ a \in 1 .. Len(s) + 1
        /\ Append(s, n)[Len(s) + 1] = n /\ Len(s) + 1 \in 1 .. Len(s) + 1
    OBVIOUS
  <1>3. \A e : On(f, e) => On(f, e)'
    BY <1>1, <1>2 DEF On
  <1>4. \A g \in File : \A e : On(g, e) => On(g, e)'
    BY <1>3 DEF On
  <1>5. Good(f)' => Good(f)
    BY <1>1, <1>2 DEF Good, Unmarked
  <1>6. \A g \in File : g # f => (Good(g)' <=> Good(g)) /\ \A e : On(g, e)' <=> On(g, e)
    BY DEF Good, Unmarked, On
  <1>7. \A g \in File : \A e : g # f /\ Leads(g, e) => Leads(g, e)'
    BY <1>4, <1>5, <1>6 DEF Leads
  <1>8. On(f, n)'
    BY <1>1, <1>2 DEF On
  <1>9. QED
    BY <1>1, <1>4, <1>5, <1>6, <1>7, <1>8

-----------------------------------------------------------------------------
(* Steps of a thread that works.                                            *)

\* What a step of a thread keeps of the table that it does not write.
Moves(r, q) == ~ Extending(r) /\ ~ Extending(q) /\ (Marked(r) <=> Marked(q))

LEMMA TableSame ==
  ASSUME Table, Sections, UNCHANGED <<fat, nextFree, given>>,
         \A u \in Thread : \/ th'[u] = th[u]
                           \/ Moves(th[u], th'[u]) /\ InOrder(th'[u]) /\ Copied(th'[u])
  PROVE  Table' /\ Sections'
  <1>1. /\ \A f : Line(f)' = Line(f) /\ (Good(f)' <=> Good(f))
        /\ \A f, e : On(f, e)' <=> On(f, e)
    BY LineSame DEF Moves
  <1>2. Linked' /\ NoStray'
    BY <1>1 DEF Table, Linked, NoStray
  <1>3. AllLinks'
    BY <1>1 DEF Table, AllLinks
  <1>4. \A u \in Thread : Marked(th[u]) => Marked(th'[u])
    BY DEF Moves
  <1>5. Frontier'
    BY <1>4 DEF Table, Frontier, Unmarked, Marked
  <1>6. Sections'
    <2> SUFFICES ASSUME NEW u \in Thread PROVE InOrder(th[u])' /\ Copied(th[u])'
      BY DEF Sections
    <2>1. InOrder(th'[u]) /\ Copied(th'[u])
      BY DEF Sections
    <2>2. QED
      BY <2>1 DEF InOrder, Copied, InSection, Marked, Unmarked, SectorOf
  <1>7. QED
    BY <1>2, <1>3, <1>5, <1>6 DEF Table

LEMMA WorkTypes ==
  ASSUME IInv, Grows, NEW t \in Thread, th[t].pc # "idle"
  PROVE  /\ th \in [Thread -> ThreadState] /\ th[t] \in ThreadState
         /\ th[t].work \in FatFile /\ th[t].work.file \in File
         /\ th[t].op \in {"mkdir", "write"}
         /\ Allocates(th[t]) \/ th[t].pc \in {"find", "entry"}
         /\ MakesDirectory(th[t]) \/ ExtendsFile(th[t])
         /\ th[t].work.first # 0 /\ th[t].pc # "entry" => th[t].op = "write"
  <1>1. /\ th \in [Thread -> ThreadState] /\ th[t] \in ThreadState /\ th[t].work \in FatFile
        /\ GrowsAs(th[t])
    BY DEF IInv, TypeOK, ThreadState, Grows
  <1>2. QED
    BY <1>1 DEF GrowsAs, FatFile, MakesDirectory, ExtendsFile

LEMMA GrowsKeeps ==
  ASSUME Grows, OneHandle, UNCHANGED <<dirEntry, handle>>, NEW t \in Thread,
         \A u \in Thread : u # t => th'[u] = th[u],
         th'[t].work.file = th[t].work.file, th'[t].op = th[t].op, th'[t].handle = th[t].handle,
         th[t].pc # "idle", Allocates(th'[t]) \/ th'[t].pc \in {"find", "entry"},
         MakesDirectory(th[t]) => \/ th'[t].pc = "entry"
                                  \/ Allocates(th'[t]) /\ th'[t].work.first = 0
  PROVE  Grows' /\ OneHandle' /\ \A f : Busy(f)' <=> Busy(f)
  <1>1. GrowsAs(th[t]) /\ th'[t].pc # "idle"
    BY DEF Grows, Allocates
  <1>2. MakesDirectory(th[t]) => MakesDirectory(th[t])'
    BY DEF MakesDirectory, Allocates
  <1>3. ExtendsFile(th[t]) => ExtendsFile(th[t])'
    BY DEF ExtendsFile
  <1>4. GrowsAs(th[t])'
    BY <1>1, <1>2, <1>3 DEF GrowsAs, Allocates
  <1>5. \A u \in Thread : u # t => GrowsAs(th[u])'
    BY DEF Grows, GrowsAs, Allocates, MakesDirectory, ExtendsFile
  <1>6. \A u \in Thread : th'[u].work.file = th[u].work.file /\ (th'[u].pc = "idle" <=> th[u].pc = "idle")
    BY <1>1
  <1>7. Grows'
    BY <1>4, <1>5, <1>6 DEF Grows
  <1>8. OneHandle'
    BY DEF OneHandle
  <1>9. QED
    BY <1>6, <1>7, <1>8 DEF Busy

\* A step of an operation that leaves the lines alone.
LEMMA WorkKeeps ==
  ASSUME Grows, OneHandle, Follows, Rests, NEW t \in Thread,
         UNCHANGED <<nextFree, given, dirEntry, handle>>,
         \A u \in Thread : u # t => th'[u] = th[u],
         th'[t].work.file = th[t].work.file, th'[t].op = th[t].op, th'[t].handle = th[t].handle,
         th[t].pc # "idle", Allocates(th'[t]) \/ th'[t].pc \in {"find", "entry"},
         MakesDirectory(th[t]) => \/ th'[t].pc = "entry"
                                  \/ Allocates(th'[t]) /\ th'[t].work.first = 0,
         ~ Extending(th[t]), ~ Extending(th'[t]), FollowsAs(th'[t])
  PROVE  Grows' /\ OneHandle' /\ Follows' /\ Rests'
  <1>1. Grows' /\ OneHandle' /\ \A f : Busy(f)' <=> Busy(f)
    BY GrowsKeeps
  <1>2. /\ \A f : First(f)' = First(f)
        /\ \A f, e : (Leads(f, e)' <=> Leads(f, e)) /\ (Ends(f, e)' <=> Ends(f, e))
    BY LineSame
  <1>3. Follows'
    <2> SUFFICES ASSUME NEW u \in Thread PROVE FollowsAs(th[u])'
      BY DEF Follows
    <2>1. FollowsAs(th'[u])
      BY DEF Follows
    <2>2. QED
      BY <1>2, <2>1 DEF FollowsAs
  <1>4. Rests'
    BY <1>1, <1>2 DEF Rests, Remembers
  <1>5. QED
    BY <1>1, <1>3, <1>4

\* The pointer and the entry after it, for the thread in the section.
LEMMA InSectionFacts ==
  ASSUME IInv, ChainInv, NEW t \in Thread, th[t].pc # "idle", th[t].pc # "lock", Allocates(th[t])
  PROVE  /\ InSection(th[t]) /\ th[t].cur = nextFree /\ th[t].next = nextFree + 1
         /\ nextFree \in Entry /\ nextFree + 1 \in Entry /\ nextFree \in Nat
         /\ \A u \in Thread : u # t => ~ InSection(th[u]) /\ ~ Marked(th[u]) /\ ~ Extending(th[u])
                                       /\ th[u].pc \notin {"markPut", "expandPut"}
  <1>1. /\ Grows /\ Sections
        /\ th[t].op \in {"mkdir", "write"}
    BY WorkTypes DEF ChainInv
  <1>2. InSection(th[t])
    BY <1>1 DEF InSection, Allocates
  <1>3. InOrder(th[t]) /\ th[t].cur = nextFree
    BY <1>1, <1>2 DEF Sections, IInv, SectionHeld
  <1>4. th[t].cur \in Entry
    BY <1>2 DEF IInv, Roles, InTable, InSection
  <1>5. \A u \in Thread : u # t => ~ InSection(th[u])
    BY <1>2, Alone
  <1>6. \A u \in Thread : Marked(th[u]) \/ Extending(th[u]) \/ th[u].pc \in {"markPut", "expandPut"}
                          => InSection(th[u])
    <2> SUFFICES ASSUME NEW u \in Thread,
                        Marked(th[u]) \/ Extending(th[u]) \/ th[u].pc \in {"markPut", "expandPut"}
                 PROVE  InSection(th[u])
      OBVIOUS
    <2>1. th[u].pc # "idle" /\ th[u].pc \in {"expand", "expandPut", "unlock", "markPut"}
      BY DEF Marked, Extending
    <2>2. th[u].op \in {"mkdir", "write"}
      BY <1>1, <2>1, WorkTypes
    <2>3. QED
      BY <2>1, <2>2 DEF InSection
  <1>7. QED
    BY <1>2, <1>3, <1>4, <1>5, <1>6, EocNat DEF InOrder, Entry

\* What the thread takes for the end of the chain lies before the pointer.
LEMMA LeadsBelow ==
  ASSUME IInv, Table, \A t \in Thread : ~ Extending(th[t]), NEW f \in File, NEW e, Leads(f, e)
  PROVE  e \in Entry /\ e < nextFree
  <1>1. 0 \in Entry /\ 0 < nextFree
    BY EocNat, FatAssumption DEF Table, Frontier, IInv, TypeOK, FirstFree, Entry
  <1>2. \A g \in File : On(g, e) => e \in Entry /\ e < nextFree
    BY LineTypes DEF Table, On
  <1>3. QED
    BY <1>1, <1>2 DEF Leads

\* A thread takes the lock.
LEMMA LockChains ==
  ASSUME IInv, ChainInv, NEW t \in Thread, Lock(t)
  PROVE  ChainInv'
  <1> USE DEF ChainInv
  <1>1. th[t].pc = "lock" /\ th[t].pc # "idle"
    BY DEF Lock
  <1>2. th \in [Thread -> ThreadState] /\ FollowsAs(th[t])
    BY <1>1, WorkTypes DEF Follows
  <1>3. /\ th'[t].pc = "search" /\ th'[t].next = nextFree + 1 /\ nextFree + 1 \in Entry
        /\ th'[t].work = th[t].work /\ th'[t].op = th[t].op /\ th'[t].handle = th[t].handle
        /\ \A u \in Thread : u # t => th'[u] = th[u]
        /\ UNCHANGED <<fat, nextFree, given, dirEntry, handle>>
    BY <1>2 DEF Lock, ThreadState
  <1>4. Moves(th[t], th'[t]) /\ InOrder(th'[t]) /\ Copied(th'[t])
    BY <1>1, <1>3 DEF Moves, Extending, Marked, InOrder, Copied
  <1>5. Table' /\ Sections'
    BY <1>3, <1>4, TableSame
  <1>6. FollowsAs(th'[t])
    BY <1>1, <1>2, <1>3 DEF FollowsAs
  <1>7. MakesDirectory(th[t]) => Allocates(th'[t]) /\ th'[t].work.first = 0
    BY <1>1, <1>3 DEF MakesDirectory, Allocates
  <1>8. Grows' /\ OneHandle' /\ Follows' /\ Rests'
    BY <1>1, <1>3, <1>4, <1>6, <1>7, WorkKeeps DEF Allocates, Moves
  <1>9. QED
    BY <1>5, <1>8

\* The first candidate of the first pass is free: the search takes it.
LEMMA SearchChains ==
  ASSUME IInv, ChainInv, NEW t \in Thread, Search(t)
  PROVE  ChainInv'
  <1> USE DEF ChainInv
  <1>1. th[t].pc = "search" /\ th[t].pc # "idle" /\ Allocates(th[t])
    BY DEF Search, Allocates
  <1>2. th \in [Thread -> ThreadState] /\ th[t] \in ThreadState /\ FollowsAs(th[t])
    BY <1>1, WorkTypes DEF Follows
  <1>3. PICK n \in Entry : n = nextFree + 1 /\ th[t].next = n /\ th[t].cur + 1 = n /\ n \in Nat
    BY <1>1, InSectionFacts, EocNat DEF Entry
  <1>4. fat[n] = Free
    <2>1. \A u \in Thread : ~ Marked(th[u])
      BY <1>1, InSectionFacts DEF Marked
    <2>2. nextFree < n
      BY <1>3, EocNat DEF IInv, TypeOK
    <2>3. QED
      BY <1>3, <2>1, <2>2 DEF Table, Frontier
  <1>5. n < Clusters => n \in Candidates(t, SectorOf(n))
    <2>1. SectorOf(n)[Offset(n)] = fat[n]
      BY <1>3, Place DEF SectorOf
    <2>2. n < Clusters => n \in n .. Clusters - 1
      BY <1>3, FatAssumption
    <2>3. QED
      BY <1>3, <1>4, <2>1, <2>2 DEF Candidates
  <1>6. th' = [th EXCEPT ![t].next = n, ![t].pc = "mark"]
    <2>1. SearchIn(t, SectorOf(n))
      BY <1>3 DEF Search
    <2>2. CASE n < Clusters
      <3>1. PICK m \in Candidates(t, SectorOf(n)) :
               /\ \A d \in Candidates(t, SectorOf(n)) : m <= d
               /\ th' = [th EXCEPT ![t].next = m, ![t].pc = "mark"]
        BY <1>3, <1>5, <2>1, <2>2, FatAssumption DEF SearchIn
      <3>2. m \in n .. Clusters - 1 /\ m <= n
        BY <1>3, <1>5, <2>2, <3>1 DEF Candidates
      <3>3. m = n
        BY <1>3, <3>2, FatAssumption
      <3>4. QED
        BY <3>1, <3>3
    <2>3. CASE ~ n < Clusters
      <3>1. Candidates(t, SectorOf(n)) = {}
        BY <1>3, <2>3, FatAssumption DEF Candidates
      <3>2. th' = [th EXCEPT ![t].pc = "mark"]
        BY <1>3, <2>1, <2>3, <3>1 DEF SearchIn
      <3>3. QED
        BY <1>2, <1>3, <3>2 DEF ThreadState
    <2>4. QED
      BY <2>2, <2>3
  <1>7. /\ th'[t].pc = "mark" /\ th'[t].next = n /\ th'[t].work = th[t].work
        /\ th'[t].op = th[t].op /\ th'[t].handle = th[t].handle
        /\ \A u \in Thread : u # t => th'[u] = th[u]
        /\ UNCHANGED <<fat, nextFree, given, dirEntry, handle>>
    BY <1>2, <1>6 DEF Search, ThreadState
  <1>8. Moves(th[t], th'[t]) /\ InOrder(th'[t]) /\ Copied(th'[t])
    BY <1>1, <1>3, <1>7 DEF Moves, Extending, Marked, InOrder, Copied
  <1>9. Table' /\ Sections'
    BY <1>7, <1>8, TableSame
  <1>10. FollowsAs(th'[t])
    BY <1>1, <1>2, <1>7 DEF FollowsAs
  <1>11. MakesDirectory(th[t]) => Allocates(th'[t]) /\ th'[t].work.first = 0
    BY <1>1, <1>7 DEF MakesDirectory, Allocates
  <1>12. Grows' /\ OneHandle' /\ Follows' /\ Rests'
    BY <1>1, <1>7, <1>8, <1>10, <1>11, WorkKeeps DEF Allocates, Moves
  <1>13. QED
    BY <1>9, <1>12

\* The sector to mark is read.
LEMMA MarkChains ==
  ASSUME IInv, ChainInv, NEW t \in Thread, Mark(t)
  PROVE  ChainInv'
  <1> USE DEF ChainInv
  <1>1. th[t].pc = "mark" /\ th[t].pc # "idle" /\ Allocates(th[t])
    BY DEF Mark, Allocates
  <1>2. th \in [Thread -> ThreadState] /\ th[t] \in ThreadState /\ FollowsAs(th[t])
    BY <1>1, WorkTypes DEF Follows
  <1>3. th[t].cur = nextFree /\ th[t].next = nextFree + 1 /\ nextFree + 1 \in Entry
    BY <1>1, InSectionFacts
  <1>4. /\ th'[t].pc = "markPut" /\ th'[t].next = th[t].next /\ th'[t].work = th[t].work
        /\ th'[t].op = th[t].op /\ th'[t].handle = th[t].handle
        /\ th'[t].buf = IF Offset(nextFree) + 1 \in Slot
                        THEN [SectorOf(nextFree) EXCEPT ![Offset(nextFree) + 1] = Eoc]
                        ELSE SectorOf(nextFree)
        /\ \A u \in Thread : u # t => th'[u] = th[u]
        /\ UNCHANGED <<fat, nextFree, given, dirEntry, handle>>
    BY <1>2, <1>3 DEF Mark, ThreadState
  <1>5. Moves(th[t], th'[t]) /\ InOrder(th'[t]) /\ Copied(th'[t])
    BY <1>1, <1>3, <1>4 DEF Moves, Extending, Marked, InOrder, Copied
  <1>6. Table' /\ Sections'
    BY <1>4, <1>5, TableSame
  <1>7. FollowsAs(th'[t])
    BY <1>1, <1>2, <1>4 DEF FollowsAs
  <1>8. MakesDirectory(th[t]) => Allocates(th'[t]) /\ th'[t].work.first = 0
    BY <1>1, <1>4 DEF MakesDirectory, Allocates
  <1>9. Grows' /\ OneHandle' /\ Follows' /\ Rests'
    BY <1>1, <1>4, <1>5, <1>7, <1>8, WorkKeeps DEF Allocates, Moves
  <1>10. QED
    BY <1>6, <1>9

\* The sector of the last cluster is read.
LEMMA ExpandChains ==
  ASSUME IInv, ChainInv, NEW t \in Thread, Expand(t)
  PROVE  ChainInv'
  <1> USE DEF ChainInv
  <1>1. th[t].pc = "expand" /\ th[t].pc # "idle" /\ Allocates(th[t])
    BY DEF Expand, Allocates
  <1>2. /\ th \in [Thread -> ThreadState] /\ th[t] \in ThreadState /\ FollowsAs(th[t])
        /\ InOrder(th[t])
    BY <1>1, WorkTypes DEF Follows, Sections
  <1>3. th[t].cur = nextFree /\ InSection(th[t])
    BY <1>1, InSectionFacts
  <1>4. /\ th'[t].pc = "expandPut" /\ th'[t].next = th[t].next /\ th'[t].work = th[t].work
        /\ th'[t].op = th[t].op /\ th'[t].handle = th[t].handle
        /\ th'[t].buf = [SectorOf(th[t].work.eoc) EXCEPT ![Offset(th[t].work.eoc)] = nextFree]
        /\ \A u \in Thread : u # t => th'[u] = th[u]
        /\ UNCHANGED <<fat, nextFree, given, dirEntry, handle>>
    BY <1>2, <1>3 DEF Expand, ThreadState
  <1>5. Moves(th[t], th'[t]) /\ InOrder(th'[t]) /\ Copied(th'[t])
    BY <1>1, <1>2, <1>3, <1>4 DEF Moves, Extending, Marked, InOrder, Copied
  <1>6. Table' /\ Sections'
    BY <1>4, <1>5, TableSame
  <1>7. FollowsAs(th'[t])
    BY <1>1, <1>2, <1>4 DEF FollowsAs
  <1>8. MakesDirectory(th[t]) => Allocates(th'[t]) /\ th'[t].work.first = 0
    BY <1>1, <1>4 DEF MakesDirectory, Allocates
  <1>9. Grows' /\ OneHandle' /\ Follows' /\ Rests'
    BY <1>1, <1>4, <1>5, <1>7, <1>8, WorkKeeps DEF Allocates, Moves
  <1>10. QED
    BY <1>6, <1>9

\* The entry after the pointer is marked, or it is the first of a sector.
LEMMA MarkedTable ==
  ASSUME IInv, ChainInv, NEW t \in Thread, MarkPut(t)
  PROVE  /\ \/ fat' = fat /\ nextFree + 1 \in Unmarked
            \/ fat' = [fat EXCEPT ![nextFree + 1] = Eoc]
  <1> USE DEF ChainInv
  <1>1. th[t].pc = "markPut" /\ th[t].pc # "idle" /\ Allocates(th[t])
    BY DEF MarkPut, Allocates
  <1>2. PICK c \in Entry : /\ c = nextFree /\ th[t].cur = c /\ c + 1 \in Entry /\ c \in Nat
    BY <1>1, InSectionFacts
  <1>3. Copied(th[t]) /\ PutSector(c, th[t].buf) /\ fat \in [Entry -> 0 .. Eoc]
    BY <1>2 DEF Sections, MarkPut, IInv, TypeOK
  <1>4. Eoc \in 0 .. Eoc
    BY EocNat
  <1>5. CASE Offset(c) + 1 \in Slot
    <2>1. Sector(c + 1) = Sector(c) /\ Offset(c + 1) = Offset(c) + 1
      BY <1>2, <1>5, NextPlace
    <2>2. th[t].buf = [SectorOf(c) EXCEPT ![Offset(c + 1)] = Eoc]
      BY <1>1, <1>2, <1>3, <1>5, <2>1 DEF Copied
    <2>3. fat' = [fat EXCEPT ![c + 1] = Eoc]
      BY <1>2, <1>3, <1>4, <2>1, <2>2, PutOne
    <2>4. QED
      BY <1>2, <2>3
  <1>6. CASE Offset(c) + 1 \notin Slot
    <2>1. Offset(c + 1) = 0
      BY <1>2, <1>6, NextPlace
    <2>2. th[t].buf = SectorOf(c)
      BY <1>1, <1>2, <1>3, <1>6 DEF Copied
    <2>3. fat' = fat
      BY <1>2, <1>3, <2>2, PutNone
    <2>4. QED
      BY <1>2, <2>1, <2>3 DEF Unmarked
  <1>7. QED
    BY <1>5, <1>6

\* The marked sector is written.
LEMMA MarkPutChains ==
  ASSUME IInv, ChainInv, NEW t \in Thread, MarkPut(t)
  PROVE  ChainInv'
  <1> USE DEF ChainInv
  <1>1. th[t].pc = "markPut" /\ th[t].pc # "idle" /\ Allocates(th[t])
    BY DEF MarkPut, Allocates
  <1>2. /\ th \in [Thread -> ThreadState] /\ th[t] \in ThreadState /\ FollowsAs(th[t])
        /\ th[t].op \in {"mkdir", "write"} /\ (th[t].work.first # 0 => th[t].op = "write")
    BY <1>1, WorkTypes DEF Follows
  <1>3. PICK c \in Entry : c = nextFree /\ th[t].next = c + 1 /\ c + 1 \in Entry /\ c \in Nat
    BY <1>1, InSectionFacts
  <1>4. /\ th'[t].pc = IF th[t].work.first = 0 THEN "unlock" ELSE "expand"
        /\ th'[t].next = th[t].next /\ th'[t].work = th[t].work
        /\ th'[t].op = th[t].op /\ th'[t].handle = th[t].handle
        /\ \A u \in Thread : u # t => th'[u] = th[u]
        /\ UNCHANGED <<nextFree, given, dirEntry, handle>>
    BY <1>2 DEF MarkPut, ThreadState
  <1>5. /\ fat \in [Entry -> 0 .. Eoc]
        /\ \A e \in Entry : fat'[e] = fat[e] \/ (e = c + 1 /\ fat'[e] = Eoc)
        /\ c + 1 \notin Unmarked => fat'[c + 1] = Eoc
    BY <1>3, MarkedTable DEF IInv, TypeOK
  <1>6. \A u \in Thread : ~ Extending(th[u]) /\ ~ Extending(th'[u]) /\ ~ Marked(th[u])
    BY <1>1, <1>4, InSectionFacts DEF Extending, Marked
  <1>7. /\ \A f : Line(f)' = Line(f) /\ (Good(f)' <=> Good(f))
        /\ \A f, e : On(f, e)' <=> On(f, e)
    BY <1>4, <1>6, LineSame
  <1>8. \A f \in File : \A i \in DOMAIN Line(f) :
           Line(f)[i] \in Entry /\ Line(f)[i] # c + 1 /\ Line(f)[i] # Eoc
    BY <1>3, <1>6, LineTypes, EocNat DEF Table, Entry
  <1>9. Linked'
    BY <1>5, <1>7, <1>8 DEF Table, Linked
  <1>10. NoStray'
    BY <1>5, <1>7, <1>8 DEF Table, NoStray
  <1>11. AllLinks'
    BY <1>5, <1>7 DEF Table, AllLinks
  <1>12. Marked(th'[t])
    BY <1>4 DEF Marked
  <1>13. Frontier'
    <2>1. \A e \in Entry : c < e => fat'[e] = Free \/ e = c + 1
      BY <1>3, <1>5, <1>6 DEF Table, Frontier
    <2>2. c \notin Unmarked => fat'[c] = Eoc
      BY <1>3, <1>5 DEF Table, Frontier
    <2>3. \E u \in Thread : Marked(th[u])'
      BY <1>12 DEF Marked
    <2>4. QED
      BY <1>3, <1>4, <2>1, <2>2, <2>3 DEF Table, Frontier, Unmarked
  <1>14. Sections'
    <2> SUFFICES ASSUME NEW u \in Thread PROVE InOrder(th[u])' /\ Copied(th[u])'
      BY DEF Sections
    <2>1. CASE u = t
      BY <1>3, <1>4, <1>5, <2>1 DEF InOrder, Copied, Unmarked
    <2>2. CASE u # t
      BY <1>1, <1>4, <2>2, InSectionFacts DEF InOrder, Copied, InSection
    <2>3. QED
      BY <2>1, <2>2
  <1>15. FollowsAs(th'[t])
    BY <1>1, <1>2, <1>4 DEF FollowsAs
  <1>16. MakesDirectory(th[t]) => Allocates(th'[t]) /\ th'[t].work.first = 0
    BY <1>1, <1>4 DEF MakesDirectory, Allocates
  <1>17. Grows' /\ OneHandle' /\ Follows' /\ Rests'
    BY <1>1, <1>4, <1>6, <1>15, <1>16, WorkKeeps DEF Allocates
  <1>18. QED
    BY <1>9, <1>10, <1>11, <1>13, <1>14, <1>17 DEF Table

\* The entry that is written leads to the cluster, and no entry did before.
LEMMA LinkedTable ==
  ASSUME IInv, ChainInv, NEW t \in Thread, ExpandPut(t)
  PROVE  fat' = [fat EXCEPT ![th[t].work.eoc] = nextFree]
  <1> USE DEF ChainInv
  <1>1. th[t].pc = "expandPut" /\ th[t].pc # "idle" /\ Allocates(th[t])
    BY DEF ExpandPut, Allocates
  <1>2. th[t].work \in FatFile /\ Copied(th[t]) /\ fat \in [Entry -> 0 .. Eoc]
    BY <1>1, WorkTypes DEF Sections, IInv, TypeOK
  <1>3. PICK e \in Entry : e = th[t].work.eoc
    BY <1>2 DEF FatFile
  <1>4. nextFree \in 0 .. Eoc
    BY DEF IInv, TypeOK
  <1>5. PutSector(e, [SectorOf(e) EXCEPT ![Offset(e)] = nextFree])
    BY <1>1, <1>2, <1>3 DEF Copied, ExpandPut
  <1>6. QED
    BY <1>2, <1>3, <1>4, <1>5, PutOne

\* The cluster is linked.
LEMMA ExpandPutChains ==
  ASSUME IInv, ChainInv, NEW t \in Thread, ExpandPut(t)
  PROVE  ChainInv'
  <1> USE DEF ChainInv
  <1>1. th[t].pc = "expandPut" /\ th[t].pc # "idle" /\ Allocates(th[t])
    BY DEF ExpandPut, Allocates
  <1>2. /\ th \in [Thread -> ThreadState] /\ th[t] \in ThreadState /\ FollowsAs(th[t])
        /\ th[t].work.file \in File /\ th[t].work.eoc \in Entry /\ InOrder(th[t])
    BY <1>1, WorkTypes DEF Follows, Sections, FatFile
  <1>3. PICK c \in Entry : /\ c = nextFree /\ c + 1 \in Entry /\ c \in Nat /\ c # Eoc /\ c # 0
                           /\ th[t].next = c + 1
    BY <1>1, InSectionFacts, EocNat, FatAssumption DEF Entry, Table, Frontier, FirstFree
  <1>4. PICK f \in File, last \in Entry : /\ f = th[t].work.file /\ last = th[t].work.eoc
                                /\ th[t].work.first # 0 /\ given[f] # <<>> /\ Ends(f, last)
    BY <1>1, <1>2 DEF FollowsAs, First
  <1>5. /\ th'[t].pc = "unlock" /\ th'[t].next = th[t].next /\ th'[t].work = th[t].work
        /\ th'[t].op = th[t].op /\ th'[t].handle = th[t].handle
        /\ \A u \in Thread : u # t => th'[u] = th[u]
        /\ UNCHANGED <<nextFree, given, dirEntry, handle>>
    BY <1>2 DEF ExpandPut, ThreadState
  <1>6. InSection(th[t]) /\ \A u \in Thread : ~ Extending(th[u])
    BY <1>1, InSectionFacts DEF Extending
  <1>7. \A g : Line(g) = given[g]
    BY <1>6 DEF Line
  <1>8. PICK s \in Seq(Entry) : /\ s = Line(f) /\ s = given[f] /\ Len(s) \in Nat /\ Len(s) > 0
                                /\ DOMAIN s = 1 .. Len(s)
    BY <1>4, <1>7 DEF IInv, TypeOK
  <1>9. Line(f)' = Append(s, c) /\ \A g \in File : g # f => Line(g)' = Line(g)
    <2>1. Extending(th'[t]) /\ th'[t].work.file = f
      BY <1>4, <1>5 DEF Extending
    <2>2. Line(f)' = Append(given[f], nextFree)
      BY <1>5, <2>1 DEF Line, Extending
    <2>3. \A u \in Thread : Extending(th'[u]) => u = t
      BY <1>5, <1>6
    <2>4. ASSUME NEW g \in File, g # f
          PROVE  Line(g)' = given[g]
      BY <1>4, <1>5, <2>3, <2>4 DEF Line, Extending
    <2>5. QED
      BY <1>3, <1>7, <1>8, <2>2, <2>4
  <1>10. /\ \A g \in File : \A e : On(g, e) => On(g, e)'
         /\ \A g \in File : Good(g)' => Good(g)
         /\ \A g \in File : \A e : g # f /\ Leads(g, e) => Leads(g, e)'
         /\ On(f, c)'
    BY <1>3, <1>8, <1>9, LineGrows
  <1>11. /\ last \in Entry /\ last < c
         /\ \A e \in Entry : fat'[e] = IF e = last THEN c ELSE fat[e]
    <2>1. last \in Entry /\ last < c
      BY <1>3, <1>4, <1>6, LeadsBelow DEF Ends
    <2>2. QED
      BY <1>3, <1>4, <2>1, LinkedTable DEF IInv, TypeOK
  <1>12. \A g \in File : \A i \in DOMAIN Line(g) :
            /\ Line(g)[i] \in Entry /\ Line(g)[i] # 0 /\ Line(g)[i] < c
            /\ Good(g) /\ Line(g)[i] = last => g = f /\ Good(f) /\ i = Len(s)
    <2> SUFFICES ASSUME NEW g \in File, NEW i \in DOMAIN Line(g)
                 PROVE  /\ Line(g)[i] \in Entry /\ Line(g)[i] # 0 /\ Line(g)[i] < c
                        /\ Good(g) /\ Line(g)[i] = last => g = f /\ Good(f) /\ i = Len(s)
      OBVIOUS
    <2>1. Line(g)[i] \in Entry /\ Line(g)[i] # 0 /\ Line(g)[i] < c
      BY <1>3, <1>6, LineTypes DEF Table
    <2>2. ASSUME Good(g), Line(g)[i] = last
          PROVE  g = f /\ Good(f) /\ i = Len(s)
      <3>1. CASE Good(f)
        <4>1. last = Line(f)[Len(s)] /\ Len(s) \in DOMAIN Line(f)
          BY <1>4, <1>8, <3>1 DEF Ends
        <4>2. QED
          BY <2>2, <3>1, <4>1, LinesApart
      <3>2. CASE ~ Good(f)
        <4>1. PICK h \in File : On(h, last) /\ ~ Good(h)
          BY <1>4, <2>1, <2>2, <3>2 DEF Ends, Leads
        <4>2. h = g
          BY <2>2, <4>1, LinesApart DEF On
        <4>3. QED
          BY <2>2, <4>1, <4>2
      <3>3. QED
        BY <3>1, <3>2
    <2>3. QED
      BY <2>1, <2>2
  <1>13. /\ DOMAIN Append(s, c) = 1 .. Len(s) + 1 /\ Len(Append(s, c)) = Len(s) + 1
         /\ \A a \in 1 .. Len(s) : Append(s, c)[a] = s[a]
         /\ Append(s, c)[Len(s) + 1] = c
         /\ \A a \in 1 .. Len(s) + 1 : a = Len(s) + 1 \/ a \in 1 .. Len(s)
    BY <1>3, <1>8
  <1>14. Linked'
    <2> SUFFICES ASSUME NEW g \in File, Good(g)', NEW i \in DOMAIN Line(g)'
                 PROVE  fat'[Line(g)'[i]] = IF i = Len(Line(g)') THEN Eoc ELSE Line(g)'[i + 1]
      BY DEF Linked
    <2>1. Good(g)
      BY <1>10
    <2>2. CASE g # f
      BY <1>9, <1>11, <1>12, <2>1, <2>2 DEF Table, Linked
    <2>3. CASE g = f
      <3>1. i \in 1 .. Len(s) + 1 /\ Line(g)' = Append(s, c)
        BY <1>9, <1>13, <2>3
      <3>2. CASE i = Len(s) + 1
        <4>1. c \notin Unmarked
          BY <1>9, <1>13, <2>3, <3>2 DEF Good, Unmarked
        <4>2. fat[c] = Eoc
          BY <1>3, <4>1 DEF Table, Frontier
        <4>3. c # last
          BY <1>3, <1>11, EocNat DEF Entry
        <4>4. QED
          BY <1>11, <1>13, <3>1, <3>2, <4>2, <4>3
      <3>3. CASE i \in 1 .. Len(s) /\ i # Len(s)
        <4>1. i + 1 \in 1 .. Len(s) /\ i # Len(s) + 1
          BY <1>8, <3>3
        <4>2. s[i] \in Entry /\ s[i] # last /\ fat[s[i]] = s[i + 1]
          BY <1>8, <1>12, <2>1, <2>3, <3>3, ZenonT(60) DEF Table, Linked
        <4>3. QED
          BY <1>11, <1>13, <3>1, <3>3, <4>1, <4>2
      <3>4. CASE i = Len(s)
        <4>1. s[i] = last
          BY <1>4, <1>8, <2>1, <2>3, <3>4 DEF Ends
        <4>2. i \in 1 .. Len(s) /\ i # Len(s) + 1
          BY <1>8, <3>4
        <4>3. QED
          BY <1>11, <1>13, <3>1, <3>4, <4>1, <4>2
      <3>5. QED
        BY <1>13, <3>1, <3>2, <3>3, <3>4
    <2>4. QED
      BY <2>2, <2>3
  <1>15. NoStray'
    <2> SUFFICES ASSUME NEW g \in File, Good(g)', NEW i \in DOMAIN Line(g)', NEW e \in Entry,
                        fat'[e] = Line(g)'[i]
                 PROVE  i > 1 /\ e = Line(g)'[i - 1]
      BY DEF NoStray
    <2>1. Good(g)
      BY <1>10
    <2>2. ~ (c < c)
      BY <1>3
    <2>3. CASE g # f
      BY <1>9, <1>11, <1>12, <2>1, <2>2, <2>3 DEF Table, NoStray
    <2>4. CASE g = f
      <3>1. i \in 1 .. Len(s) + 1 /\ Line(g)' = Append(s, c) /\ fat'[e] = Append(s, c)[i]
        BY <1>9, <1>13, <2>4
      <3>2. CASE i = Len(s) + 1
        <4>1. fat'[e] = c
          BY <1>13, <3>1, <3>2
        <4>2. e = last
          <5>1. SUFFICES ASSUME e # last PROVE FALSE
            OBVIOUS
          <5>2. fat[e] = c
            BY <1>11, <4>1, <5>1
          <5>3. PICK h \in File : On(h, c)
            BY <1>3, <5>2 DEF Table, AllLinks, Free
          <5>4. QED
            BY <1>12, <2>2, <5>3 DEF On
        <4>3. last = s[Len(s)]
          BY <1>4, <1>8, <2>1, <2>4 DEF Ends
        <4>4. i > 1 /\ i - 1 = Len(s) /\ Len(s) \in 1 .. Len(s)
          BY <1>8, <3>2
        <4>5. QED
          BY <1>13, <3>1, <4>2, <4>3, <4>4
      <3>3. CASE i \in 1 .. Len(s)
        <4>1. fat'[e] = s[i] /\ s[i] # c
          BY <1>8, <1>12, <1>13, <2>2, <3>1, <3>3
        <4>2. fat[e] = s[i]
          BY <1>11, <4>1
        <4>3. i > 1 /\ e = s[i - 1]
          <5>1. NoStray /\ Good(f) /\ i \in DOMAIN Line(f) /\ fat[e] = Line(f)[i]
            BY <1>8, <2>1, <2>4, <3>3, <4>2 DEF Table
          <5>2. \A j \in DOMAIN Line(f), d \in Entry :
                   fat[d] = Line(f)[j] => j > 1 /\ d = Line(f)[j - 1]
            BY <5>1 DEF NoStray
          <5>3. i > 1 /\ e = Line(f)[i - 1]
            BY <5>1, <5>2, Zenon
          <5>4. QED
            BY <1>8, <5>3
        <4>4. i - 1 \in 1 .. Len(s)
          BY <1>8, <3>3, <4>3
        <4>5. QED
          BY <1>13, <3>1, <4>3, <4>4
      <3>4. QED
        BY <1>13, <3>1, <3>2, <3>3
    <2>5. QED
      BY <2>3, <2>4
  <1>16. AllLinks'
    BY <1>10, <1>11 DEF Table, AllLinks
  <1>17. Marked(th'[t])
    BY <1>5 DEF Marked
  <1>18. Frontier'
    <2>1. \A e \in Entry : c <= e => e # last
      BY <1>3, <1>11, EocNat DEF Entry
    <2>2. \A e \in Entry : c < e => fat'[e] = Free \/ e = c + 1
      BY <1>3, <1>11, <2>1, EocNat DEF Table, Frontier, Entry
    <2>3. c \notin Unmarked => fat'[c] = Eoc
      BY <1>3, <1>11, <2>1, EocNat DEF Table, Frontier, Entry
    <2>4. \E u \in Thread : Marked(th[u])'
      BY <1>17 DEF Marked
    <2>5. QED
      BY <1>3, <1>5, <2>2, <2>3, <2>4 DEF Table, Frontier, Unmarked
  <1>19. Sections'
    <2> SUFFICES ASSUME NEW u \in Thread PROVE InOrder(th[u])' /\ Copied(th[u])'
      BY DEF Sections
    <2>1. CASE u = t
      <3>1. c + 1 \notin Unmarked => fat[c + 1] = Eoc
        BY <1>1, <1>2, <1>3, <1>6 DEF InOrder, Marked
      <3>2. c + 1 # last
        BY <1>3, <1>11, EocNat DEF Entry
      <3>3. QED
        BY <1>3, <1>5, <1>11, <2>1, <3>1, <3>2 DEF InOrder, Copied, Unmarked
    <2>2. CASE u # t
      BY <1>1, <1>5, <2>2, InSectionFacts DEF InOrder, Copied, InSection
    <2>3. QED
      BY <2>1, <2>2
  <1>20. MakesDirectory(th[t]) => Allocates(th'[t]) /\ th'[t].work.first = 0
    BY <1>1, <1>5 DEF MakesDirectory, Allocates
  <1>21. Grows' /\ OneHandle' /\ \A g : Busy(g)' <=> Busy(g)
    BY <1>1, <1>5, <1>20, GrowsKeeps DEF Allocates
  <1>22. \A g \in File : \A e : g # f /\ Ends(g, e) => Ends(g, e)'
    <2>1. \A g \in File : g # f => (Good(g)' => Good(g))
      BY <1>10
    <2>2. QED
      BY <1>5, <1>10, <2>1 DEF Ends
  <1>23. \A g : First(g)' = First(g)
    BY <1>5 DEF First
  <1>24. Follows'
    <2> SUFFICES ASSUME NEW u \in Thread, th'[u].pc # "idle" PROVE FollowsAs(th[u])'
      BY DEF Follows, FollowsAs
    <2>1. CASE u = t
      <3>1. Ends(f, last)'
        <4>1. Leads(f, last)'
          <5>1. CASE Good(f)
            <6>1. On(f, last)'
              BY <1>4, <1>10, <5>1 DEF Ends, Leads
            <6>2. QED
              BY <6>1 DEF Leads
          <5>2. CASE ~ Good(f)
            BY <1>4, <1>10, <5>2 DEF Ends, Leads
          <5>3. QED
            BY <5>1, <5>2
        <4>2. QED
          BY <1>4, <1>5, <1>10, <4>1 DEF Ends
      <3>2. PICK r : r = th'[t]
        OBVIOUS
      <3>3. r.work.file = f /\ r.work.eoc = last /\ r.pc = "unlock" /\ r.work.first = First(f)
        BY <1>1, <1>2, <1>4, <1>5, <3>2 DEF FollowsAs
      <3>4. FollowsAs(r)'
        BY <1>23, <3>1, <3>3 DEF FollowsAs
      <3>5. QED
        BY <2>1, <3>2, <3>4
    <2>2. CASE u # t
      <3>1. th'[u] = th[u] /\ FollowsAs(th[u]) /\ th[u].pc # "idle"
        BY <1>5, <2>2 DEF Follows
      <3>2. PICK g \in File : g = th[u].work.file
        BY <3>1, WorkTypes
      <3>3. g # f
        BY <1>1, <1>4, <2>2, <3>1, <3>2 DEF Grows
      <3>4. QED
        BY <1>10, <1>22, <1>23, <3>1, <3>2, <3>3 DEF FollowsAs
    <2>3. QED
      BY <2>1, <2>2
  <1>25. Rests'
    <2> SUFFICES ASSUME NEW g \in File, ~ Busy(g)
                 PROVE  /\ dirEntry'[g].first = First(g)'
                        /\ dirEntry'[g].kind = "none" => given'[g] = <<>>
                        /\ \A h \in Handle : handle'[h].file = g => Remembers(g, h)'
      BY <1>21 DEF Rests
    <2>1. g # f
      BY <1>4 DEF Busy
    <2>2. QED
      BY <1>5, <1>22, <1>23, <2>1 DEF Rests, Remembers
  <1>26. QED
    BY <1>14, <1>15, <1>16, <1>18, <1>19, <1>21, <1>24, <1>25 DEF Table

\* The linked cluster is given, or a first one.
LEMMA UnlockLines ==
  ASSUME IInv, ChainInv, NEW t \in Thread, Unlock(t), NEW f \in File, f = th[t].work.file
  PROVE  /\ \A g \in File : Line(g)' = given'[g]
         /\ \A g \in File : g # f => Line(g)' = Line(g) /\ given'[g] = given[g]
         /\ given'[f] = Append(given[f], nextFree)
         /\ th[t].work.first # 0 => Line(f)' = Line(f)
         /\ th[t].work.first = 0 => Line(f) = <<>> /\ given[f] = <<>>
  <1> USE DEF ChainInv
  <1>1. th[t].pc = "unlock" /\ th[t].pc # "idle" /\ Allocates(th[t])
    BY DEF Unlock, Allocates
  <1>2. /\ th \in [Thread -> ThreadState] /\ th[t] \in ThreadState /\ FollowsAs(th[t])
        /\ given \in [File -> Seq(Entry)]
    BY <1>1, WorkTypes DEF Follows, IInv, TypeOK
  <1>3. /\ th[t].cur = nextFree
        /\ \A u \in Thread : u # t => ~ Extending(th[u])
    BY <1>1, InSectionFacts
  <1>4. th'[t].pc \in {"entry", "find", "lock"} /\ \A u \in Thread : u # t => th'[u] = th[u]
    <2>1. CASE th[t].work.first = 0
      BY <1>2, <2>1 DEF Unlock, ThreadState
    <2>2. CASE th[t].work.first # 0
      BY <1>2, <2>2 DEF Unlock, ThreadState
    <2>3. QED
      BY <2>1, <2>2
  <1>5. \A u \in Thread : ~ Extending(th'[u])
    BY <1>3, <1>4 DEF Extending
  <1>6. \A g : Line(g)' = given'[g]
    BY <1>5 DEF Line, Extending
  <1>7. given'[f] = Append(given[f], nextFree) /\ \A g \in File : g # f => given'[g] = given[g]
    BY <1>2, <1>3 DEF Unlock
  <1>8. \A g \in File : g # f => Line(g) = given[g]
    BY <1>3 DEF Line
  <1>9. CASE th[t].work.first # 0
    <2>1. Extending(th[t])
      BY <1>1, <1>9 DEF Extending
    <2>2. Line(f) = Append(given[f], nextFree)
      BY <2>1 DEF Line
    <2>3. QED
      BY <1>6, <1>7, <1>8, <1>9, <2>2
  <1>10. CASE th[t].work.first = 0
    <2>1. Line(f) = given[f]
      BY <1>3, <1>10 DEF Line, Extending
    <2>2. given[f] = <<>>
      <3>1. SUFFICES ASSUME given[f] # <<>> PROVE FALSE
        OBVIOUS
      <3>2. First(f) = 0 /\ First(f) = given[f][1]
        BY <1>1, <1>2, <1>10, <3>1 DEF FollowsAs, First
      <3>3. 1 \in DOMAIN given[f]
        BY <1>2, <3>1
      <3>4. QED
        BY <2>1, <3>2, <3>3, LineTypes DEF Table
    <2>3. QED
      BY <1>6, <1>7, <1>8, <1>10, <2>1, <2>2
  <1>11. QED
    BY <1>9, <1>10

\* What follows for the chains.
LEMMA UnlockLeads ==
  ASSUME IInv, ChainInv, NEW t \in Thread, Unlock(t), NEW f \in File, f = th[t].work.file
  PROVE  /\ \A g \in File : \A e : On(g, e) => On(g, e)'
         /\ \A g \in File : Good(g)' => Good(g)
         /\ \A g \in File : g # f => (Good(g)' <=> Good(g))
         /\ \A g \in File : \A e : g # f /\ Leads(g, e) => Leads(g, e)'
         /\ \E c \in Entry : c = nextFree /\ On(f, c)'
  <1> USE DEF ChainInv
  <1>1. th[t].pc = "unlock" /\ th[t].pc # "idle" /\ Allocates(th[t])
    BY DEF Unlock, Allocates
  <1>2. PICK c \in Entry : c = nextFree
    BY <1>1, InSectionFacts
  <1>3. CASE th[t].work.first = 0
    <2>1. Line(f) = <<>> /\ Line(f)' = Append(Line(f), nextFree)
      BY <1>3, UnlockLines
    <2>2. \A g \in File : g # f => Line(g)' = Line(g)
      BY UnlockLines
    <2>3. Line(f) \in Seq(Entry)
      BY <2>1
    <2>4. QED
      BY <1>2, <2>1, <2>2, <2>3, LineGrows
  <1>4. CASE th[t].work.first # 0
    <2>1. \A g \in File : Line(g)' = Line(g)
      BY <1>4, UnlockLines
    <2>2. \A g \in File : (Good(g)' <=> Good(g)) /\ \A e : On(g, e)' <=> On(g, e)
      BY <2>1 DEF Good, Unmarked, On
    <2>3. \A g \in File : \A e : Leads(g, e)' <=> Leads(g, e)
      BY <2>2 DEF Leads
    <2>4. On(f, c)'
      <3>1. Line(f)' = Append(given[f], nextFree)
        BY UnlockLines
      <3>2. PICK s \in Seq(Entry) : s = given[f] /\ Line(f)' = Append(s, c)
        BY <1>2, <3>1 DEF IInv, TypeOK
      <3>3. Len(s) + 1 \in DOMAIN Append(s, c) /\ Append(s, c)[Len(s) + 1] = c
        OBVIOUS
      <3>4. QED
        BY <3>2, <3>3 DEF On
    <2>5. QED
      BY <1>2, <2>2, <2>3, <2>4
  <1>5. QED
    BY <1>3, <1>4

\* The pointer passes the cluster, which leads on, or ends the chain.
LEMMA UnlockTable ==
  ASSUME IInv, ChainInv, NEW t \in Thread, Unlock(t)
  PROVE  Table' /\ Sections'
  <1> USE DEF ChainInv
  <1>1. th[t].pc = "unlock" /\ th[t].pc # "idle" /\ Allocates(th[t])
    BY DEF Unlock, Allocates
  <1>2. PICK f \in File : f = th[t].work.file
    BY <1>1, WorkTypes
  <1>3. PICK c \in Entry : /\ c = nextFree /\ th[t].next = c + 1 /\ c + 1 \in Entry /\ c \in Nat
                           /\ c # Eoc /\ c # 0
    BY <1>1, InSectionFacts, EocNat, FatAssumption DEF Entry, Table, Frontier, FirstFree
  <1>4. nextFree' = c + 1 /\ fat' = fat
    BY <1>3 DEF Unlock
  <1>5. ASSUME th[t].work.first = 0
        PROVE  Linked' /\ NoStray'
    <2>1. /\ Line(f) = <<>> /\ given[f] = <<>> /\ Line(f)' = Append(<<>>, c)
          /\ \A g \in File : g # f => Line(g)' = Line(g)
      BY <1>2, <1>3, <1>5, UnlockLines
    <2>2. Append(<<>>, c) = <<c>> /\ DOMAIN <<c>> = {1} /\ <<c>>[1] = c /\ Len(<<c>>) = 1
      OBVIOUS
    <2>3. \A u \in Thread : ~ Extending(th[u])
      BY <1>1, <1>5, InSectionFacts DEF Extending
    <2>4. \A e \in Entry : fat[e] # c
      <3> SUFFICES ASSUME NEW e \in Entry, fat[e] = c PROVE FALSE
        OBVIOUS
      <3>1. PICK h \in File : On(h, c)
        BY <1>3 DEF Table, AllLinks, Free
      <3>2. c < c
        BY <1>3, <2>3, <3>1, LineTypes DEF Table, On
      <3>3. QED
        BY <1>3, <3>2
    <2>5. Linked'
      <3> SUFFICES ASSUME NEW g \in File, Good(g)', NEW i \in DOMAIN Line(g)'
                   PROVE  fat'[Line(g)'[i]] = IF i = Len(Line(g)') THEN Eoc ELSE Line(g)'[i + 1]
        BY DEF Linked
      <3>1. CASE g # f
        BY <1>2, <1>4, <2>1, <3>1, UnlockLeads DEF Table, Linked
      <3>2. CASE g = f
        <4>1. i = 1 /\ Line(g)' = <<c>>
          BY <2>1, <2>2, <3>2
        <4>2. c \notin Unmarked
          BY <2>2, <4>1 DEF Good, Unmarked
        <4>3. fat[c] = Eoc
          BY <1>3, <4>2 DEF Table, Frontier
        <4>4. QED
          BY <1>4, <2>2, <4>1, <4>3
      <3>3. QED
        BY <3>1, <3>2
    <2>6. NoStray'
      <3> SUFFICES ASSUME NEW g \in File, Good(g)', NEW i \in DOMAIN Line(g)', NEW e \in Entry,
                          fat'[e] = Line(g)'[i]
                   PROVE  i > 1 /\ e = Line(g)'[i - 1]
        BY DEF NoStray
      <3>1. CASE g # f
        BY <1>2, <1>4, <2>1, <3>1, UnlockLeads DEF Table, NoStray
      <3>2. CASE g = f
        BY <1>4, <2>1, <2>2, <2>4, <3>2
      <3>3. QED
        BY <3>1, <3>2
    <2>7. QED
      BY <2>5, <2>6
  <1>6. ASSUME th[t].work.first # 0
        PROVE  Linked' /\ NoStray'
    <2>1. \A g \in File : Line(g)' = Line(g)
      BY <1>2, <1>6, UnlockLines
    <2>2. \A g \in File : Good(g)' => Good(g)
      BY <1>2, UnlockLeads
    <2>3. Linked'
      BY <1>4, <2>1, <2>2 DEF Table, Linked
    <2>4. NoStray'
      BY <1>4, <2>1, <2>2 DEF Table, NoStray
    <2>5. QED
      BY <2>3, <2>4
  <1>7. Linked' /\ NoStray'
    BY <1>5, <1>6
  <1>8. AllLinks'
    BY <1>2, <1>4, UnlockLeads DEF Table, AllLinks
  <1>9. Frontier'
    <2>1. FirstFree <= c /\ FirstFree <= c + 1
      BY <1>3, FatAssumption DEF Table, Frontier, FirstFree
    <2>2. \A g \in File : \A i \in DOMAIN given'[g] : FirstFree <= given'[g][i]
      <3>1. PICK s \in Seq(Entry) : s = given[f] /\ given'[f] = Append(s, c)
        BY <1>2, <1>3, UnlockLines DEF IInv, TypeOK
      <3>2. \A i \in DOMAIN Append(s, c) :
                 (i \in DOMAIN s /\ Append(s, c)[i] = s[i]) \/ Append(s, c)[i] = c
        OBVIOUS
      <3>3. \A i \in DOMAIN given'[f] : FirstFree <= given'[f][i]
        BY <2>1, <3>1, <3>2 DEF Table, Frontier
      <3>4. QED
        BY <1>2, <3>3, UnlockLines DEF Table, Frontier
    <2>3. \A e \in Entry : c + 1 < e => fat[e] = Free
      BY <1>3, EocNat DEF Table, Frontier, Entry
    <2>4. c + 1 \notin Unmarked => fat[c + 1] = Eoc
      BY <1>1, <1>3, InSectionFacts DEF Sections, InOrder, Marked
    <2>5. QED
      BY <1>4, <2>1, <2>2, <2>3, <2>4 DEF Frontier, Unmarked, FirstFree
  <1>10. th'[t].pc \in {"entry", "find", "lock"} /\ \A u \in Thread : u # t => th'[u] = th[u]
    <2>1. th \in [Thread -> ThreadState] /\ th[t] \in ThreadState
      BY <1>1, WorkTypes
    <2>2. CASE th[t].work.first = 0
      BY <2>1, <2>2 DEF Unlock, ThreadState
    <2>3. CASE th[t].work.first # 0
      BY <2>1, <2>3 DEF Unlock, ThreadState
    <2>4. QED
      BY <2>2, <2>3
  <1>11. Sections'
    <2> SUFFICES ASSUME NEW u \in Thread PROVE InOrder(th[u])' /\ Copied(th[u])'
      BY DEF Sections
    <2>1. ~ InSection(th'[u]) /\ th'[u].pc \notin {"markPut", "expandPut"}
      BY <1>1, <1>10, InSectionFacts DEF InSection
    <2>2. QED
      BY <2>1 DEF InOrder, Copied, InSection
  <1>12. QED
    BY <1>7, <1>8, <1>9, <1>11 DEF Table

\* A first cluster starts the file; any other becomes the end.
LEMMA UnlockChains ==
  ASSUME IInv, ChainInv, NEW t \in Thread, Unlock(t)
  PROVE  ChainInv'
  <1> USE DEF ChainInv
  <1>1. th[t].pc = "unlock" /\ th[t].pc # "idle" /\ Allocates(th[t])
    BY DEF Unlock, Allocates
  <1>2. /\ th \in [Thread -> ThreadState] /\ th[t] \in ThreadState /\ FollowsAs(th[t])
        /\ th[t].work.file \in File /\ th[t].op \in {"mkdir", "write"}
        /\ th[t].work.first # 0 => th[t].op = "write"
    BY <1>1, WorkTypes DEF Follows
  <1>3. PICK f \in File, c \in Entry : f = th[t].work.file /\ c = nextFree /\ th[t].cur = c /\ c # 0
    BY <1>1, <1>2, InSectionFacts, FatAssumption DEF Table, Frontier, FirstFree
  <1>4. /\ th'[t].op = th[t].op /\ th'[t].handle = th[t].handle /\ th'[t].work.file = f
        /\ \A u \in Thread : u # t => th'[u] = th[u]
        /\ UNCHANGED <<dirEntry, handle>>
        /\ IF th[t].work.first = 0
           THEN /\ th'[t].work.first = c /\ th'[t].work.eoc = th[t].work.eoc /\ th'[t].at = c
                /\ th'[t].pc = IF th[t].op = "mkdir" THEN "entry" ELSE "find"
           ELSE /\ th'[t].work.first = th[t].work.first /\ th'[t].work.eoc = c
                /\ th'[t].pc \in {"lock", "entry"}
    <2>1. CASE th[t].work.first = 0
      BY <1>2, <1>3, <2>1 DEF Unlock, ThreadState, FatFile
    <2>2. CASE th[t].work.first # 0
      BY <1>2, <1>3, <2>2 DEF Unlock, ThreadState, FatFile
    <2>3. QED
      BY <2>1, <2>2
  <1>5. PICK s \in Seq(Entry) : s = given[f] /\ given'[f] = Append(s, c)
    BY <1>3, UnlockLines, SMTT(60) DEF IInv, TypeOK
  <1>6. /\ Append(s, c) # <<>> /\ Append(s, c)[Len(Append(s, c))] = c
        /\ s = <<>> => Append(s, c)[1] = c
        /\ s # <<>> => Append(s, c)[1] = s[1]
    OBVIOUS
  <1>7. /\ \A g \in File : Good(g)' => Good(g)
        /\ \A g \in File : \A e : g # f /\ Leads(g, e) => Leads(g, e)'
        /\ On(f, c)'
    BY <1>3, UnlockLeads
  <1>8. \A g \in File : g # f => given'[g] = given[g]
    BY <1>3, UnlockLines
  <1>9. /\ \A g \in File : g # f => First(g)' = First(g)
        /\ \A g \in File : \A e : g # f /\ Ends(g, e) => Ends(g, e)'
    BY <1>7, <1>8 DEF First, Ends
  <1>10. Table' /\ Sections'
    BY UnlockTable
  <1>11. MakesDirectory(th[t]) => th'[t].pc = "entry"
    BY <1>1, <1>4 DEF MakesDirectory
  <1>12. Grows' /\ OneHandle' /\ \A g : Busy(g)' <=> Busy(g)
    <2>1. Allocates(th'[t]) \/ th'[t].pc \in {"find", "entry"}
      BY <1>4 DEF Allocates
    <2>2. QED
      BY <1>1, <1>3, <1>4, <1>11, <2>1, GrowsKeeps
  <1>13. Leads(f, c)' /\ Ends(f, c)'
    <2>1. Leads(f, c)'
      BY <1>7 DEF Leads
    <2>2. QED
      BY <1>5, <1>6, <2>1 DEF Ends
  <1>14. FollowsAs(th[t])'
    <2>1. PICK r : r = th'[t]
      OBVIOUS
    <2>2. FollowsAs(r)'
      <3>1. CASE th[t].work.first = 0
        <4>1. given[f] = <<>>
          BY <1>3, <3>1, UnlockLines
        <4>2. First(f)' = c
          BY <1>5, <1>6, <4>1 DEF First
        <4>3. r.work.first = c /\ r.work.file = f /\ r.at = c /\ r.op = th[t].op
              /\ r.pc = IF th[t].op = "mkdir" THEN "entry" ELSE "find"
          BY <1>4, <2>1, <3>1
        <4>4. QED
          BY <1>2, <1>3, <1>13, <4>2, <4>3 DEF FollowsAs
      <3>2. CASE th[t].work.first # 0
        <4>1. th[t].work.first = First(f) /\ s # <<>>
          BY <1>1, <1>2, <1>3, <1>5, <3>2 DEF FollowsAs, First
        <4>2. First(f)' = First(f)
          BY <1>5, <1>6, <4>1 DEF First
        <4>3. r.work.first = First(f) /\ r.work.file = f /\ r.work.eoc = c /\ r.pc \in {"lock", "entry"}
          BY <1>4, <2>1, <3>2, <4>1
        <4>4. QED
          BY <1>13, <3>2, <4>1, <4>2, <4>3 DEF FollowsAs
      <3>3. QED
        BY <3>1, <3>2
    <2>3. QED
      BY <2>1, <2>2
  <1>15. Follows'
    <2> SUFFICES ASSUME NEW u \in Thread, th'[u].pc # "idle", u # t PROVE FollowsAs(th[u])'
      BY <1>14 DEF Follows, FollowsAs
    <2>1. th'[u] = th[u] /\ FollowsAs(th[u]) /\ th[u].pc # "idle"
      BY <1>4 DEF Follows
    <2>2. PICK g \in File : g = th[u].work.file
      BY <2>1, WorkTypes
    <2>3. g # f
      BY <1>1, <1>3, <2>1, <2>2 DEF Grows
    <2>4. QED
      BY <1>7, <1>9, <2>1, <2>2, <2>3 DEF FollowsAs
  <1>16. Rests'
    <2> SUFFICES ASSUME NEW g \in File, ~ Busy(g)
                 PROVE  /\ dirEntry'[g].first = First(g)'
                        /\ dirEntry'[g].kind = "none" => given'[g] = <<>>
                        /\ \A h \in Handle : handle'[h].file = g => Remembers(g, h)'
      BY <1>12 DEF Rests
    <2>1. g # f
      BY <1>3 DEF Busy
    <2>2. QED
      BY <1>4, <1>8, <1>9, <2>1 DEF Rests, Remembers
  <1>17. QED
    BY <1>10, <1>12, <1>15, <1>16

\* A turn of findEOC follows the chain, or has found its end.
LEMMA FindChains ==
  ASSUME IInv, ChainInv, NEW t \in Thread, FindEoc(t)
  PROVE  ChainInv'
  <1> USE DEF ChainInv
  <1>1. th[t].pc = "find" /\ th[t].pc # "idle"
    BY DEF FindEoc
  <1>2. /\ th \in [Thread -> ThreadState] /\ th[t] \in ThreadState /\ FollowsAs(th[t])
        /\ th[t].work.file \in File
    BY <1>1, WorkTypes DEF Follows
  <1>3. PICK f \in File, e \in 0 .. Eoc : f = th[t].work.file /\ e = th[t].at /\ Leads(f, e)
    BY <1>1, <1>2 DEF FollowsAs, ThreadState
  <1>4. /\ th'[t].op = th[t].op /\ th'[t].handle = th[t].handle /\ th'[t].work.file = f
        /\ th'[t].work.first = th[t].work.first
        /\ \A u \in Thread : u # t => th'[u] = th[u]
        /\ UNCHANGED <<fat, nextFree, given, dirEntry, handle>>
        /\ IF fat[e] # Eoc THEN th'[t].pc = "find" /\ th'[t].at = fat[e]
           ELSE th'[t].pc \in {"lock", "entry"} /\ th'[t].work.eoc = e
    <2>1. CASE fat[e] # Eoc
      BY <1>2, <1>3, <2>1 DEF FindEoc, ThreadState, FatFile
    <2>2. CASE fat[e] = Eoc
      BY <1>2, <1>3, <2>2 DEF FindEoc, ThreadState, FatFile
    <2>3. QED
      BY <2>1, <2>2
  <1>5. Moves(th[t], th'[t]) /\ InOrder(th'[t]) /\ Copied(th'[t])
    BY <1>1, <1>4 DEF Moves, Extending, Marked, InOrder, Copied, InSection
  <1>6. Table' /\ Sections'
    BY <1>4, <1>5, TableSame
  <1>7. Line(f) = given[f]
    <2>1. \A u \in Thread : Extending(th[u]) => th[u].work.file # f
      BY <1>1, <1>3 DEF Extending, Grows
    <2>2. QED
      BY <2>1, LineGiven
  <1>8. /\ e \in Entry
        /\ \A g \in File : /\ Line(g) \in Seq(Entry) /\ DOMAIN Line(g) = 1 .. Len(Line(g))
                            /\ \A i \in DOMAIN Line(g) : Line(g)[i] \in Entry /\ Line(g)[i] # 0
                                                         /\ Line(g)[i] # Eoc
    <2>1. \A g \in File : /\ Line(g) \in Seq(Entry) /\ DOMAIN Line(g) = 1 .. Len(Line(g))
                          /\ \A i \in DOMAIN Line(g) : Line(g)[i] \in Entry /\ Line(g)[i] # 0
                                                       /\ Line(g)[i] # Eoc
      BY LineTypes, EocNat DEF Table, Entry
    <2>2. 0 \in Entry
      BY EocNat DEF Entry
    <2>3. QED
      BY <1>3, <2>1, <2>2 DEF Leads, On
  <1>9. CASE fat[e] # Eoc
    <2>1. Leads(f, fat[e])
      <3>1. CASE Good(f)
        <4>1. PICK i \in DOMAIN Line(f) : Line(f)[i] = e
          BY <1>3, <3>1 DEF Leads, On
        <4>2. fat[e] = IF i = Len(Line(f)) THEN Eoc ELSE Line(f)[i + 1]
          BY <3>1, <4>1 DEF Table, Linked
        <4>3. i # Len(Line(f)) /\ i + 1 \in DOMAIN Line(f)
          BY <1>8, <1>9, <4>1, <4>2
        <4>4. QED
          BY <3>1, <4>2, <4>3 DEF Leads, On
      <3>2. CASE ~ Good(f) /\ fat[e] # Free
        <4>1. PICK h \in File : On(h, fat[e])
          BY <1>8, <1>9, <3>2 DEF Table, AllLinks
        <4>2. PICK i \in DOMAIN Line(h) : Line(h)[i] = fat[e]
          BY <4>1 DEF On
        <4>3. ~ Good(h)
          <5>1. SUFFICES ASSUME Good(h) PROVE FALSE
            OBVIOUS
          <5>2. i > 1 /\ e = Line(h)[i - 1]
            <6>1. \A j \in DOMAIN Line(h), d \in Entry :
                     fat[d] = Line(h)[j] => j > 1 /\ d = Line(h)[j - 1]
              BY <5>1 DEF Table, NoStray
            <6>2. QED
              BY <1>8, <4>2, <6>1, Zenon
          <5>3. i - 1 \in DOMAIN Line(h)
            BY <1>8, <4>2, <5>2
          <5>4. e # 0
            BY <1>8, <5>2, <5>3
          <5>5. PICK g \in File : On(g, e) /\ ~ Good(g)
            BY <1>3, <3>2, <5>4 DEF Leads
          <5>6. g = h
            BY <5>2, <5>3, <5>5, LinesApart DEF On
          <5>7. QED
            BY <5>1, <5>5, <5>6
        <4>4. QED
          BY <3>2, <4>1, <4>3 DEF Leads
      <3>3. CASE ~ Good(f) /\ fat[e] = Free
        BY <3>3 DEF Leads, Free
      <3>4. QED
        BY <3>1, <3>2, <3>3
    <2>2. FollowsAs(th'[t])
      BY <1>1, <1>2, <1>3, <1>4, <1>9, <2>1 DEF FollowsAs
    <2>3. ~ MakesDirectory(th[t])
      BY <1>1 DEF MakesDirectory, Allocates
    <2>4. Grows' /\ OneHandle' /\ Follows' /\ Rests'
      BY <1>1, <1>3, <1>4, <1>5, <1>9, <2>2, <2>3, WorkKeeps DEF Moves
    <2>5. QED
      BY <1>6, <2>4
  <1>10. CASE fat[e] = Eoc
    <2>1. Ends(f, e)
      <3>1. ASSUME Good(f)
            PROVE  e = given[f][Len(given[f])]
        <4>1. PICK i \in DOMAIN Line(f) : Line(f)[i] = e
          BY <1>3, <3>1 DEF Leads, On
        <4>2. fat[e] = IF i = Len(Line(f)) THEN Eoc ELSE Line(f)[i + 1]
          BY <3>1, <4>1 DEF Table, Linked
        <4>3. i # Len(Line(f)) => i + 1 \in DOMAIN Line(f)
          BY <1>8, <4>1
        <4>4. i = Len(Line(f))
          BY <1>8, <1>10, <4>2, <4>3
        <4>5. QED
          BY <1>7, <4>1, <4>4
      <3>2. QED
        BY <1>3, <3>1 DEF Ends
    <2>2. FollowsAs(th'[t])
      BY <1>1, <1>2, <1>3, <1>4, <1>10, <2>1 DEF FollowsAs
    <2>3. ~ MakesDirectory(th[t])
      BY <1>1 DEF MakesDirectory, Allocates
    <2>4. Allocates(th'[t]) \/ th'[t].pc \in {"find", "entry"}
      BY <1>4, <1>10 DEF Allocates
    <2>5. Grows' /\ OneHandle' /\ Follows' /\ Rests'
      BY <1>1, <1>3, <1>4, <1>5, <2>2, <2>3, <2>4, WorkKeeps DEF Moves
    <2>6. QED
      BY <1>6, <2>5
  <1>11. QED
    BY <1>9, <1>10

-----------------------------------------------------------------------------
(* What is asked of a volume, and the end of an operation.                  *)

\* Steps that leave the table, the pointer and the ghost alone, where a thread
\* begins an operation or ends one.
LEMMA AskedKeeps ==
  ASSUME ChainInv, UNCHANGED <<fat, nextFree, given>>,
         \A u \in Thread : \/ th'[u] = th[u]
                           \/ /\ th[u].pc \in {"idle", "entry"}
                              /\ th'[u].pc \in {"idle", "lock", "find", "entry"}
                              /\ FollowsAs(th'[u])
  PROVE  /\ Table' /\ Sections' /\ Follows'
         /\ \A f : First(f)' = First(f)
         /\ \A f, e : Ends(f, e)' <=> Ends(f, e)
  <1> USE DEF ChainInv
  <1>1. \A u \in Thread : \/ th'[u] = th[u]
                          \/ Moves(th[u], th'[u]) /\ InOrder(th'[u]) /\ Copied(th'[u])
    BY DEF Moves, Extending, Marked, InOrder, Copied, InSection
  <1>2. Table' /\ Sections'
    BY <1>1, TableSame
  <1>3. /\ \A f : First(f)' = First(f)
        /\ \A f, e : (Leads(f, e)' <=> Leads(f, e)) /\ (Ends(f, e)' <=> Ends(f, e))
    BY <1>1, LineSame DEF Moves
  <1>4. Follows'
    <2> SUFFICES ASSUME NEW u \in Thread PROVE FollowsAs(th[u])'
      BY DEF Follows
    <2>1. FollowsAs(th'[u])
      BY DEF Follows
    <2>2. QED
      BY <1>3, <2>1 DEF FollowsAs
  <1>5. QED
    BY <1>2, <1>3, <1>4

LEMMA IdleWorks ==
  ASSUME ChainInv, NEW u \in Thread, th[u].work.file # None
  PROVE  th[u].pc # "idle" /\ (MakesDirectory(th[u]) \/ ExtendsFile(th[u]))
  BY DEF ChainInv, Grows, GrowsAs

\* The directory entry is written, and the handle takes the FatFile.
LEMMA PutEntryChains ==
  ASSUME IInv, ChainInv, NEW t \in Thread, PutEntry(t)
  PROVE  ChainInv'
  <1> USE DEF ChainInv
  <1>1. th[t].pc = "entry" /\ th[t].pc # "idle"
    BY DEF PutEntry
  <1>2. /\ th \in [Thread -> ThreadState] /\ th[t] \in ThreadState /\ FollowsAs(th[t])
        /\ th[t].work.file \in File /\ th[t].work \in FatFile /\ th[t].op \in {"mkdir", "write"}
        /\ MakesDirectory(th[t]) \/ ExtendsFile(th[t])
    BY <1>1, WorkTypes DEF Follows
  <1>3. PICK f \in File, w \in FatFile : f = w.file /\ w = th[t].work /\ f # None
    BY <1>2, FatAssumption
  <1>4. /\ dirEntry \in DirState /\ handle \in [Handle -> FatFile]
    BY DEF IInv, TypeOK, DirState
  <1>5. /\ th'[t] = Rest /\ \A u \in Thread : u # t => th'[u] = th[u]
        /\ UNCHANGED <<fat, nextFree, given>>
        /\ dirEntry'[f].first = w.first
        /\ dirEntry'[f].kind = IF th[t].op = "mkdir" THEN "dir" ELSE "file"
        /\ \A g \in File : g # f => dirEntry'[g] = dirEntry[g]
    BY <1>2, <1>3, <1>4 DEF PutEntry, DirState
  <1>6. Rest.pc = "idle" /\ Rest.work.file = None
    BY DEF Rest, Closed
  <1>7. /\ Table' /\ Sections' /\ Follows'
        /\ \A g : First(g)' = First(g)
        /\ \A g, e : Ends(g, e)' <=> Ends(g, e)
    <2>1. FollowsAs(th'[t])
      BY <1>5, <1>6 DEF FollowsAs
    <2>2. QED
      BY <1>1, <1>5, <1>6, <2>1, AskedKeeps
  <1>8. \A h \in Handle : \/ handle'[h] = handle[h] /\ handle[h].file # f
                          \/ handle'[h] = w /\ handle[h].file = f /\ th[t].op = "write"
    <2> SUFFICES ASSUME NEW h \in Handle
                 PROVE  \/ handle'[h] = handle[h] /\ handle[h].file # f
                        \/ handle'[h] = w /\ handle[h].file = f /\ th[t].op = "write"
      OBVIOUS
    <2>1. CASE MakesDirectory(th[t])
      <3>1. handle' = handle /\ dirEntry[f].kind = "none"
        BY <1>3, <2>1 DEF PutEntry, MakesDirectory
      <3>2. handle[h].file # f
        BY <1>3, <3>1 DEF OneHandle
      <3>3. QED
        BY <3>1, <3>2
    <2>2. CASE ExtendsFile(th[t])
      <3>1. PICK i \in Handle : /\ i = th[t].handle /\ i # None /\ handle[i].file = f
                                /\ th[t].op = "write"
        BY <1>3, <2>2, FatAssumption DEF ExtendsFile
      <3>2. handle' = [handle EXCEPT ![i] = w]
        BY <1>3, <3>1 DEF PutEntry
      <3>3. handle[h].file = f => h = i
        BY <1>3, <3>1 DEF OneHandle
      <3>4. QED
        BY <1>4, <3>1, <3>2, <3>3
    <2>3. QED
      BY <1>2, <2>1, <2>2
  <1>9. \A h \in Handle : handle'[h].file = handle[h].file
    BY <1>3, <1>8
  <1>10. Grows'
    <2>1. GrowsAs(th[t])'
      BY <1>5, <1>6 DEF GrowsAs
    <2>2. ASSUME NEW u \in Thread, u # t
          PROVE  GrowsAs(th[u])'
      <3>1. th'[u] = th[u] /\ GrowsAs(th[u])
        BY <1>5, <2>2 DEF Grows
      <3>2. th[u].pc # "idle" => th[u].work.file # f /\ th[u].work.file \in File
        BY <1>1, <1>3, <2>2, WorkTypes DEF Grows
      <3>3. QED
        BY <1>5, <1>9, <3>1, <3>2 DEF GrowsAs, MakesDirectory, ExtendsFile, Allocates
    <2>3. \A u, v \in Thread : th'[u].work.file = th'[v].work.file => th'[u].pc = "idle" \/ u = v
      <3> SUFFICES ASSUME NEW u \in Thread, NEW v \in Thread,
                          th'[u].work.file = th'[v].work.file, th'[u].pc # "idle"
                   PROVE  u = v
        OBVIOUS
      <3>1. u # t /\ th'[u] = th[u] /\ th[u].work.file # None
        BY <1>5, <1>6 DEF Grows, GrowsAs
      <3>2. v # t /\ th'[v] = th[v]
        BY <1>5, <1>6, <3>1
      <3>3. QED
        BY <3>1, <3>2 DEF Grows
    <2>4. QED
      BY <2>1, <2>2, <2>3 DEF Grows
  <1>11. OneHandle'
    <2> SUFFICES ASSUME NEW h \in Handle, handle'[h].file # None
                 PROVE  /\ dirEntry'[handle'[h].file].kind = "file"
                        /\ \A i \in Handle : handle'[i].file = handle'[h].file => i = h
      BY DEF OneHandle
    <2>1. handle[h].file \in File
      BY <1>4, <1>9 DEF FatFile
    <2>2. dirEntry'[handle[h].file].kind = "file"
      BY <1>5, <1>8, <1>9, <2>1 DEF OneHandle
    <2>3. QED
      BY <1>9, <2>2 DEF OneHandle
  <1>12. Rests'
    <2> SUFFICES ASSUME NEW g \in File, ~ Busy(g)'
                 PROVE  /\ dirEntry'[g].first = First(g)'
                        /\ dirEntry'[g].kind = "none" => given'[g] = <<>>
                        /\ \A h \in Handle : handle'[h].file = g => Remembers(g, h)'
      BY DEF Rests
    <2>1. CASE g = f
      <3>1. w.first = First(f) /\ (th[t].op = "write" => Ends(f, w.eoc))
        BY <1>1, <1>2, <1>3 DEF FollowsAs
      <3>2. \A h \in Handle : handle'[h].file = f => handle'[h] = w /\ th[t].op = "write"
        BY <1>8, <1>9
      <3>3. QED
        BY <1>5, <1>7, <2>1, <3>1, <3>2 DEF Remembers
    <2>2. CASE g # f
      <3>1. ~ Busy(g)
        BY <1>3, <1>5, <2>2 DEF Busy
      <3>2. QED
        BY <1>3, <1>5, <1>7, <1>8, <2>2, <3>1 DEF Rests, Remembers
    <2>3. QED
      BY <2>1, <2>2
  <1>13. QED
    BY <1>7, <1>10, <1>11, <1>12

\* A thread begins to work on a file that no other works on.
LEMMA BeginsKeeps ==
  ASSUME IInv, ChainInv, NEW t \in Thread, NEW f \in File, NEW r, th[t].pc = "idle", ~ Busy(f),
         th' = [th EXCEPT ![t] = r], UNCHANGED <<fat, nextFree, given, dirEntry, handle>>,
         r.work.file = f, r.pc \in {"lock", "find", "entry"}, FollowsAs(r),
         MakesDirectory(r) \/ ExtendsFile(r)
  PROVE  ChainInv'
  <1> USE DEF ChainInv
  <1>1. f # None
    BY FatAssumption
  <1>2. th'[t] = r /\ \A u \in Thread : u # t => th'[u] = th[u]
    BY DEF IInv, TypeOK
  <1>3. /\ Table' /\ Sections' /\ Follows'
        /\ \A g : First(g)' = First(g)
        /\ \A g, e : Ends(g, e)' <=> Ends(g, e)
    BY <1>2, AskedKeeps
  <1>4. GrowsAs(r)'
    BY <1>1 DEF GrowsAs, MakesDirectory, ExtendsFile, Allocates
  <1>5. \A u \in Thread : GrowsAs(th[u])'
    BY <1>2, <1>4 DEF Grows, GrowsAs, MakesDirectory, ExtendsFile, Allocates
  <1>6. \A u, v \in Thread : th'[u].work.file = th'[v].work.file => th'[u].pc = "idle" \/ u = v
    BY <1>2 DEF Grows, Busy
  <1>7. Grows'
    BY <1>5, <1>6 DEF Grows
  <1>8. OneHandle'
    BY DEF OneHandle
  <1>9. \A g \in File : ~ Busy(g)' => ~ Busy(g)
    <2> SUFFICES ASSUME NEW g \in File, NEW u \in Thread, th[u].work.file = g
                 PROVE  \E v \in Thread : th'[v].work.file = g
      BY DEF Busy
    <2>1. u # t
      BY FatAssumption DEF Grows, GrowsAs
    <2>2. QED
      BY <1>2, <2>1
  <1>10. Rests'
    BY <1>3, <1>9 DEF Rests, Remembers
  <1>11. QED
    BY <1>3, <1>7, <1>8, <1>10

LEMMA MkdirChains ==
  ASSUME IInv, ChainInv, NEW t \in Thread, NEW f \in File, Mkdir(t, f)
  PROVE  ChainInv'
  <1> USE DEF ChainInv
  <1>1. ~ Busy(f) /\ dirEntry[f].kind = "none" /\ th[t].pc = "idle"
    BY DEF Mkdir, Starts
  <1>2. given[f] = <<>> /\ dirEntry[f].first = First(f) /\ First(f) = 0
    BY <1>1 DEF Rests, First
  <1>3. PICK r : r = [Rest EXCEPT !.pc = "lock", !.op = "mkdir", !.work = Opened(f)]
    OBVIOUS
  <1>4. /\ r.pc = "lock" /\ r.op = "mkdir" /\ r.handle = None /\ r.work.file = f
        /\ r.work.first = 0
    BY <1>2, <1>3 DEF Rest, Opened
  <1>5. FollowsAs(r)
    BY <1>2, <1>4 DEF FollowsAs
  <1>6. MakesDirectory(r)
    BY <1>1, <1>4 DEF MakesDirectory, Allocates
  <1>7. QED
    BY <1>1, <1>3, <1>4, <1>5, <1>6, BeginsKeeps DEF Mkdir

LEMMA MknodChains ==
  ASSUME IInv, ChainInv, NEW t \in Thread, NEW f \in File, Mknod(t, f)
  PROVE  ChainInv'
  <1> USE DEF ChainInv
  <1>1. ~ Busy(f) /\ dirEntry[f].kind = "none" /\ f # None
    BY FatAssumption DEF Mknod, Starts
  <1>2. given[f] = <<>> /\ First(f) = 0
    BY <1>1 DEF Rests, First
  <1>3. /\ dirEntry'[f].kind = "file" /\ dirEntry'[f].first = 0
        /\ \A g \in File : g # f => dirEntry'[g] = dirEntry[g]
        /\ UNCHANGED <<fat, nextFree, given, handle, th>>
    BY DEF Mknod, IInv, TypeOK
  <1>4. /\ Table' /\ Sections' /\ Follows'
        /\ \A g : First(g)' = First(g)
        /\ \A g, e : Ends(g, e)' <=> Ends(g, e)
    BY <1>3, AskedKeeps
  <1>5. \A h \in Handle : handle[h].file # f
    BY <1>1 DEF OneHandle
  <1>6. Grows'
    <2>1. ASSUME NEW u \in Thread
          PROVE  GrowsAs(th[u])'
      <3>1. th[u].work.file # f
        BY <1>1 DEF Busy
      <3>2. th[u].pc # "idle" => th[u].work.file \in File
        BY WorkTypes
      <3>3. QED
        BY <1>3, <3>1, <3>2 DEF Grows, GrowsAs, MakesDirectory, ExtendsFile, Allocates
    <2>2. QED
      BY <1>3, <2>1 DEF Grows
  <1>7. OneHandle'
    <2>1. \A h \in Handle : handle[h].file \in File \cup {None}
      BY DEF IInv, TypeOK, FatFile
    <2>2. QED
      BY <1>3, <1>5, <2>1 DEF OneHandle
  <1>8. Rests'
    BY <1>2, <1>3, <1>4, <1>5 DEF Rests, Remembers, Busy
  <1>9. QED
    BY <1>4, <1>6, <1>7, <1>8

LEMMA OpenChains ==
  ASSUME OnlyGrows, IInv, ChainInv, NEW h \in Handle, NEW f \in File, Open(h, f)
  PROVE  ChainInv'
  <1> USE DEF ChainInv
  <1>1. f # None /\ handle[h].file = None /\ dirEntry[f].kind = "file"
    BY FatAssumption DEF Open, Closed
  <1>2. \A i \in Handle : handle[i].file # f
    <2> DEFINE S == { i \in Handle : handle[i].file = f }
    <2>1. IsFiniteSet(S)
      BY FS_Subset DEF OnlyGrows
    <2>2. Cardinality(S) \in Nat /\ Cardinality(S) < 1
      BY <2>1, FS_CardinalityType, FatAssumption DEF Open, OnlyGrows
    <2>3. S = {}
      BY <2>1, <2>2, FS_EmptySet
    <2>4. QED
      BY <2>3
  <1>3. /\ handle'[h].file = f /\ handle'[h].first = dirEntry[f].first /\ handle'[h].eoc = 0
        /\ \A i \in Handle : i # h => handle'[i] = handle[i]
        /\ UNCHANGED <<fat, nextFree, given, dirEntry, th>>
    BY DEF Open, Opened, IInv, TypeOK
  <1>4. /\ Table' /\ Sections' /\ Follows'
        /\ \A g : First(g)' = First(g)
        /\ \A g, e : Ends(g, e)' <=> Ends(g, e)
    BY <1>3, AskedKeeps
  <1>5. Grows'
    <2>1. ASSUME NEW u \in Thread
          PROVE  GrowsAs(th[u])'
      <3>1. ExtendsFile(th[u]) /\ th[u].pc # "idle" => th[u].handle # h
        BY <1>1 DEF ExtendsFile, Grows, GrowsAs
      <3>2. QED
        BY <1>3, <3>1 DEF Grows, GrowsAs, MakesDirectory, ExtendsFile, Allocates
    <2>2. QED
      BY <1>3, <2>1 DEF Grows
  <1>6. OneHandle'
    <2> SUFFICES ASSUME NEW i \in Handle, handle'[i].file # None
                 PROVE  /\ dirEntry'[handle'[i].file].kind = "file"
                        /\ \A j \in Handle : handle'[j].file = handle'[i].file => j = i
      BY DEF OneHandle
    <2>1. CASE i = h
      BY <1>1, <1>2, <1>3, <2>1
    <2>2. CASE i # h
      BY <1>1, <1>2, <1>3, <2>2 DEF OneHandle
    <2>3. QED
      BY <2>1, <2>2
  <1>7. Rests'
    BY <1>3, <1>4 DEF Rests, Remembers, Busy
  <1>8. QED
    BY <1>4, <1>5, <1>6, <1>7

LEMMA ReleaseChains ==
  ASSUME IInv, ChainInv, NEW h \in Handle, Release(h)
  PROVE  ChainInv'
  <1> USE DEF ChainInv
  <1>1. /\ handle'[h].file = None /\ ~ Busy(handle[h].file)
        /\ \A i \in Handle : i # h => handle'[i] = handle[i]
        /\ UNCHANGED <<fat, nextFree, given, dirEntry, th>>
    BY DEF Release, Closed, IInv, TypeOK
  <1>2. /\ Table' /\ Sections' /\ Follows'
        /\ \A g : First(g)' = First(g)
        /\ \A g, e : Ends(g, e)' <=> Ends(g, e)
    BY <1>1, AskedKeeps
  <1>3. Grows'
    <2>1. ASSUME NEW u \in Thread
          PROVE  GrowsAs(th[u])'
      <3>1. ExtendsFile(th[u]) => th[u].handle # h
        BY <1>1 DEF ExtendsFile, Busy
      <3>2. QED
        BY <1>1, <3>1 DEF Grows, GrowsAs, MakesDirectory, ExtendsFile, Allocates
    <2>2. QED
      BY <1>1, <2>1 DEF Grows
  <1>4. OneHandle'
    BY <1>1 DEF OneHandle
  <1>5. Rests'
    <2>1. \A g \in File : \A i \in Handle : handle'[i].file = g => i # h
      BY <1>1, FatAssumption
    <2>2. QED
      BY <1>1, <1>2, <2>1 DEF Rests, Remembers, Busy
  <1>6. QED
    BY <1>2, <1>3, <1>4, <1>5

LEMMA WriteChains ==
  ASSUME IInv, ChainInv, NEW t \in Thread, NEW h \in Handle, NEW offset \in Nat, NEW n \in Nat \ {0},
         Write(t, h, offset, n)
  PROVE  ChainInv'
  <1> USE DEF ChainInv
  <1>1. /\ dirEntry \in DirState /\ handle \in [Handle -> FatFile] /\ handle[h] \in FatFile
        /\ handle[h].file # None
    BY DEF IInv, TypeOK, DirState, Write
  <1>2. PICK f \in File : f = handle[h].file
    BY <1>1 DEF FatFile
  <1>3. /\ th[t].pc = "idle" /\ ~ Busy(f) /\ f # None
        /\ UNCHANGED <<fat, nextFree, given>>
    BY <1>1, <1>2 DEF Write, Starts
  <1>4. handle[h].first = First(f) /\ (handle[h].eoc # 0 => Ends(f, handle[h].eoc))
    BY <1>2, <1>3 DEF Rests, Remembers
  <1>5. CASE Extend(t, "write", handle[h], h, handle[h].size + n, n) /\ UNCHANGED <<dirEntry, handle>>
    <2>1. PICK w : w = handle[h]
      OBVIOUS
    <2>2. PICK r : r = [Rest EXCEPT !.op = "write", !.handle = h, !.need = n, !.at = w.first,
                          !.work = [w EXCEPT !.size = handle[h].size + n],
                          !.pc = IF w.first = 0 \/ (w.eoc # 0 /\ n > 0) THEN "lock"
                                 ELSE IF w.eoc = 0 THEN "find" ELSE "entry"]
      OBVIOUS
    <2>3. th' = [th EXCEPT ![t] = r]
      BY <1>5, <2>1, <2>2 DEF Extend
    <2>4. [w EXCEPT !.size = handle[h].size + n].first = w.first
          /\ [w EXCEPT !.size = handle[h].size + n].eoc = w.eoc
          /\ [w EXCEPT !.size = handle[h].size + n].file = f
      BY <1>1, <1>2, <2>1 DEF FatFile
    <2>5. /\ r.op = "write" /\ r.handle = h /\ r.at = w.first /\ r.work.file = f
          /\ r.work.first = w.first /\ r.work.eoc = w.eoc
          /\ r.pc = IF w.first = 0 \/ (w.eoc # 0 /\ n > 0) THEN "lock"
                    ELSE IF w.eoc = 0 THEN "find" ELSE "entry"
      BY <2>2, <2>4 DEF Rest
    <2>6. r.pc \in {"lock", "find", "entry"}
      BY <2>5
    <2>7. w.first # 0 => Leads(f, w.first)
      <3> SUFFICES ASSUME w.first # 0 PROVE Leads(f, w.first)
        OBVIOUS
      <3>1. given[f] # <<>> /\ w.first = given[f][1]
        BY <1>4, <2>1 DEF First
      <3>2. Line(f) = given[f]
        BY <1>3, LineGiven DEF Busy
      <3>3. given[f] \in Seq(Entry)
        BY DEF IInv, TypeOK
      <3>4. 1 \in DOMAIN given[f]
        BY <3>1, <3>3
      <3>5. On(f, w.first)
        BY <3>1, <3>2, <3>4 DEF On
      <3>6. QED
        BY <3>5 DEF Leads
    <2>8. FollowsAs(r)
      BY <1>4, <2>1, <2>5, <2>7 DEF FollowsAs
    <2>9. ExtendsFile(r)
      BY <1>2, <2>5 DEF ExtendsFile
    <2>10. QED
      BY <1>3, <1>5, <2>3, <2>5, <2>6, <2>8, <2>9, BeginsKeeps
  <1>6. CASE /\ handle' = [handle EXCEPT ![h].size = offset + n]
             /\ dirEntry' = [dirEntry EXCEPT ![f].size = offset + n, ![f].first = handle[h].first]
             /\ UNCHANGED th
    <2>1. \A i \in Handle : /\ handle'[i].file = handle[i].file /\ handle'[i].first = handle[i].first
                            /\ handle'[i].eoc = handle[i].eoc
      BY <1>1, <1>6 DEF FatFile
    <2>2. \A g \in File : /\ dirEntry'[g].kind = dirEntry[g].kind
                          /\ dirEntry'[g].first = IF g = f THEN First(f) ELSE dirEntry[g].first
      BY <1>1, <1>4, <1>6 DEF DirState
    <2>3. /\ Table' /\ Sections' /\ Follows'
          /\ \A g : First(g)' = First(g)
          /\ \A g, e : Ends(g, e)' <=> Ends(g, e)
      BY <1>3, <1>6, AskedKeeps
    <2>4. Grows'
      <3>1. ASSUME NEW u \in Thread
            PROVE  GrowsAs(th[u])'
        <4>1. th[u].pc # "idle" => th[u].work.file \in File
          BY WorkTypes
        <4>2. QED
          BY <1>6, <2>1, <2>2, <4>1, ZenonT(60) DEF Grows, GrowsAs, MakesDirectory, ExtendsFile, Allocates
      <3>2. QED
        BY <1>6, <3>1 DEF Grows
    <2>5. OneHandle'
      <3>1. \A i \in Handle : handle[i].file \in File \cup {None}
        BY <1>1 DEF FatFile
      <3>2. QED
        BY <2>1, <2>2, <3>1 DEF OneHandle
    <2>6. Rests'
      <3> SUFFICES ASSUME NEW g \in File, ~ Busy(g)'
                   PROVE  /\ (dirEntry[g].first = First(g))'
                          /\ (dirEntry[g].kind = "none" => given[g] = <<>>)'
                          /\ \A i \in Handle : (handle[i].file = g => Remembers(g, i))'
        BY DEF Rests
      <3>1. ~ Busy(g)
        BY <1>6 DEF Busy
      <3>2. /\ dirEntry[g].first = First(g)
            /\ dirEntry[g].kind = "none" => given[g] = <<>>
            /\ \A i \in Handle : handle[i].file = g => Remembers(g, i)
        BY <3>1 DEF Rests
      <3>3. dirEntry'[g].first = First(g)
        BY <2>2, <3>2
      <3>4. First(g)' = First(g)
        BY <2>3
      <3>5. given' = given /\ dirEntry'[g].kind = dirEntry[g].kind
        BY <1>3, <2>2
      <3>6. ASSUME NEW i \in Handle, (handle[i].file = g)'
            PROVE  Remembers(g, i)'
        <4>1. PICK c : c = handle[i].eoc
          OBVIOUS
        <4>2. handle'[i].eoc = c /\ handle'[i].first = First(g) /\ (c # 0 => Ends(g, c))
          BY <2>1, <3>2, <3>6, <4>1 DEF Remembers
        <4>3. Ends(g, c)' <=> Ends(g, c)
          BY <2>3
        <4>4. QED
          BY <3>4, <4>2, <4>3 DEF Remembers
      <3>7. QED
        BY <3>2, <3>3, <3>4, <3>5, <3>6
    <2>7. QED
      BY <2>3, <2>4, <2>5, <2>6
  <1>7. QED
    BY <1>2, <1>5, <1>6 DEF Write

-----------------------------------------------------------------------------
\* The volume when it is mounted.
LEMMA InitChains == OnlyGrows /\ Init => ChainInv
  <1> SUFFICES ASSUME OnlyGrows, Init PROVE ChainInv
    OBVIOUS
  <1>1. \A t \in Thread : th[t].pc = "idle" /\ th[t].work.file = None
    BY DEF Init, Rest, Closed
  <1>2. \A f \in File : given[f] = <<>> /\ dirEntry[f].first = 0 /\ dirEntry[f].kind = "none"
    BY DEF Init, Nothing
  <1>3. \A h \in Handle : handle[h].file = None
    BY DEF Init, Closed
  <1>4. \A f \in File : Line(f) = <<>>
    BY <1>1, <1>2 DEF Line, Extending
  <1>5. Grows /\ OneHandle
    BY <1>1, <1>3 DEF Grows, GrowsAs, OneHandle
  <1>6. Sections /\ Follows
    BY <1>1 DEF Sections, InOrder, Copied, InSection, Follows, FollowsAs
  <1>7. Linked /\ NoStray
    BY <1>4 DEF Linked, NoStray
  <1>8. AllLinks
    BY DEF AllLinks, Init
  <1>9. Frontier
    <2>1. FirstFree = nextFree /\ nextFree \in Nat /\ nextFree > 2 /\ Hint \in Nat
      BY FatAssumption DEF Init, FirstFree
    <2>2. \A e \in Entry : nextFree < e => ~ (e < 3) /\ e \notin Used
      BY <2>1, EocNat DEF OnlyGrows, FirstFree, Entry
    <2>3. QED
      BY <1>2, <2>1, <2>2, FatAssumption DEF Frontier, Init, Unmarked
  <1>10. Rests
    BY <1>2, <1>3, FatAssumption DEF Rests, First
  <1>11. QED
    BY <1>5, <1>6, <1>7, <1>8, <1>9, <1>10 DEF ChainInv, Table

LEMMA StepChains == OnlyGrows /\ IInv /\ ChainInv /\ [Next]_vars => ChainInv'
  <1> SUFFICES ASSUME OnlyGrows, IInv, ChainInv, [Next]_vars PROVE ChainInv'
    OBVIOUS
  <1>1. ASSUME NEW t \in Thread, Asks(t) PROVE ChainInv'
    <2>1. \A op \in Operation : op \in {"mknod", "mkdir", "write"}
      BY DEF OnlyGrows
    <2>2. \A f \in File : ~ Unlink(t, f) /\ ~ Rmdir(t, f)
      BY <2>1 DEF Unlink, Rmdir, Remove, Starts
    <2>3. \A f \in File : \A n : ~ TruncateUp(t, f, n) /\ ~ TruncateDown(t, f, n)
      BY <2>1 DEF TruncateUp, TruncateDown, Starts
    <2>4. \A n \in 0 .. MaxSize : n \in Nat
      BY FatAssumption
    <2>5. \A n \in 1 .. MaxRequest : n \in Nat \ {0}
      BY FatAssumption
    <2>6. CASE \E f \in File : Mknod(t, f) \/ Mkdir(t, f)
      BY <2>6, MknodChains, MkdirChains
    <2>7. CASE \E h \in Handle, offset \in 0 .. MaxSize, n \in 1 .. MaxRequest :
                  Write(t, h, offset, n)
      BY <2>4, <2>5, <2>7, WriteChains
    <2>8. QED
      BY <1>1, <2>2, <2>3, <2>6, <2>7 DEF Asks
  <1>2. ASSUME NEW t \in Thread, Goes(t) PROVE ChainInv'
    <2>1. th[t].pc = "idle" \/ Allocates(th[t]) \/ th[t].pc \in {"find", "entry"}
      BY WorkTypes DEF ChainInv
    <2>2. /\ ~ FreeNext(t) /\ ~ FreeEntry(t) /\ ~ FreePut(t) /\ ~ Walk(t) /\ ~ Cut(t)
          /\ ~ Drop(t) /\ ~ DropPut(t)
      BY <2>1 DEF Allocates, FreeNext, FreeEntry, FreePut, Walk, Cut, Drop, DropPut
    <2>3. QED
      BY <1>2, <2>2, LockChains, SearchChains, MarkChains, MarkPutChains, ExpandChains,
         ExpandPutChains, UnlockChains, FindChains, PutEntryChains DEF Goes
  <1>3. ASSUME NEW h \in Handle, Release(h) \/ \E f \in File : Open(h, f) PROVE ChainInv'
    BY <1>3, ReleaseChains, OpenChains
  <1>4. CASE UNCHANGED vars
    <2>1. UNCHANGED <<fat, nextFree, fatLock, dirEntry, handle, th, given>>
      BY <1>4 DEF vars
    <2>2. /\ Table' /\ Sections' /\ Follows'
          /\ \A f : First(f)' = First(f)
          /\ \A f, e : Ends(f, e)' <=> Ends(f, e)
      BY <2>1, AskedKeeps
    <2>3. Grows' /\ OneHandle'
      BY <2>1 DEF ChainInv, Grows, GrowsAs, MakesDirectory, ExtendsFile, Allocates, OneHandle
    <2>4. Rests'
      BY <2>1, <2>2 DEF ChainInv, Rests, Remembers, Busy
    <2>5. QED
      BY <2>2, <2>3, <2>4 DEF ChainInv
  <1>5. QED
    BY <1>1, <1>2, <1>3, <1>4 DEF Next

\* Files that are only created and extended, by any number of threads, each
\* through one handle, on a volume mounted with all its entries beyond the hint
\* free: the chain of a file, as far as entries are marked, is what it was given,
\* and no chain of another leads into it, those included that lead to the first
\* entry of the table (markEndOfChain, expandChain, findEOC).
THEOREM Chains == ASSUME OnlyGrows PROVE Spec => []ChainInv
  <1>1. Init => ChainInv
    BY InitChains
  <1>2. IInv /\ ChainInv /\ [Next]_vars => ChainInv'
    BY StepChains
  <1>3. QED
    BY <1>1, <1>2, Inductive, PTL DEF Spec

\* The end that a handle remembers, the one findEOC finds and the one that is
\* marked agree with one another: a file nobody works on has the chain it was
\* given (markEndOfChain, expandChain, assignCluster).
THEOREM ChainIsGiven == ASSUME OnlyGrows PROVE Spec => []ChainIsWhatWasGiven
  <1>1. IInv /\ ChainInv => ChainIsWhatWasGiven
    <2> SUFFICES ASSUME IInv, ChainInv, NEW f \in File, ~ Busy(f), given[f] # <<>>,
                        \A i \in DOMAIN given[f] : given[f][i] \notin Unmarked
                 PROVE  /\ dirEntry[f].first = given[f][1]
                        /\ \A i \in 1 .. Len(given[f]) - 1 : fat[given[f][i]] = given[f][i + 1]
                        /\ fat[given[f][Len(given[f])]] = Eoc
      BY DEF ChainIsWhatWasGiven
    <2>1. Line(f) = given[f]
      BY LineGiven DEF Busy
    <2>2. Good(f)
      BY <2>1 DEF Good
    <2>3. PICK s \in Seq(Entry) : s = given[f] /\ s # <<>>
      BY DEF IInv, TypeOK
    <2>4. \A i \in DOMAIN s : fat[s[i]] = IF i = Len(s) THEN Eoc ELSE s[i + 1]
      BY <2>1, <2>2, <2>3 DEF ChainInv, Table, Linked
    <2>5. Len(s) \in DOMAIN s /\ \A i \in 1 .. Len(s) - 1 : i \in DOMAIN s /\ i # Len(s)
      BY <2>3
    <2>6. dirEntry[f].first = s[1]
      BY <2>3 DEF ChainInv, Rests, First
    <2>7. QED
      BY <2>3, <2>4, <2>5, <2>6
  <1>2. QED
    BY <1>1, Chains, Inductive, PTL

=============================================================================
