-------------------------- MODULE RaidWrites_proofs --------------------------
(***************************************************************************)
(* Writes, with one PFS connection in use: the PPDs that were in the       *)
(* cluster from the start hold, or are about to hold, the last write,      *)
(* whatever joins and whatever ends.  While no PPD has ended so do the     *)
(* PPDs that joined, and a read gives the last write.                      *)
(***************************************************************************)
EXTENDS RaidStream_proofs, WellFoundedInduction

USE DEF praidVars, clusterVars, storageVars, syncVars, threadVars, networkVars,
        nodeVars, clientVars

NoWrite(q, x) == \A i \in DOMAIN q : ~ IsWrite(q[i], x)

\* What a sector that holds d holds once the writes of a queue were made on it.
Upon(q, x, d) ==
    LET writes == { i \in DOMAIN q : IsWrite(q[i], x) }
    IN IF writes = {} THEN d ELSE q[Max(writes)].value

-----------------------------------------------------------------------------
(* The last write of a queue.                                               *)

LEMMA NatMin ==
  ASSUME NEW T \in SUBSET Nat, T # {}
  PROVE  \E x \in T : \A y \in T : x <= y
  <1>1. \E x \in T : \A y \in T : ~ (<<y, x>> \in OpToRel(<, Nat))
    <2>1. IsWellFoundedOn(OpToRel(<, Nat), Nat)
      BY NatLessThanWellFounded
    <2>2. QED
      BY <2>1, WFMin
  <1>2. PICK x \in T : \A y \in T : ~ (<<y, x>> \in OpToRel(<, Nat))
    BY <1>1
  <1>3. \A y \in T : y \in Nat /\ x \in Nat /\ ~ (y < x)
    BY <1>2 DEF OpToRel
  <1>4. QED
    BY <1>3

LEMMA HasMax ==
  ASSUME NEW n \in Nat, NEW S \in SUBSET (1 .. n), S # {}
  PROVE  Max(S) \in S /\ \A y \in S : y <= Max(S)
  <1> DEFINE T == { n - i : i \in S }
  <1>1. T \in SUBSET Nat /\ T # {}
    <2>1. \A i \in S : i \in 1 .. n /\ n - i \in Nat
      OBVIOUS
    <2>2. T \in SUBSET Nat
      BY <2>1
    <2>3. PICK i \in S : TRUE
      OBVIOUS
    <2>4. n - i \in T
      OBVIOUS
    <2>5. QED
      BY <2>2, <2>4
  <1>2. PICK t \in T : \A u \in T : t <= u
    BY <1>1, NatMin
  <1>3. PICK x \in S : t = n - x
    OBVIOUS
  <1>4. ASSUME NEW y \in S
        PROVE  x >= y
    <2>1. n - y \in T
      OBVIOUS
    <2>2. n - x <= n - y
      BY <1>2, <1>3, <2>1
    <2>3. QED
      BY <2>2
  <1>5. QED
    BY <1>4 DEF Max

LEMMA UponNothing ==
  ASSUME NEW q, NEW x, NEW d, NoWrite(q, x)
  PROVE  Upon(q, x, d) = d
  BY DEF Upon, NoWrite

\* The last write of the sector gives its value, and there is one.
LEMMA UponLast ==
  ASSUME NEW T, NEW q \in Seq(T), NEW x, NEW i \in DOMAIN q, IsWrite(q[i], x),
         \A j \in DOMAIN q : j > i => ~ IsWrite(q[j], x)
  PROVE  \A d : Upon(q, x, d) = q[i].value
  <1> DEFINE S == { j \in DOMAIN q : IsWrite(q[j], x) }
  <1>1. DOMAIN q = 1 .. Len(q) /\ Len(q) \in Nat
    BY LenProperties
  <1>2. i \in S /\ S \in SUBSET (1 .. Len(q)) /\ S # {}
    BY <1>1
  <1>3. Max(S) \in S /\ i <= Max(S)
    BY <1>1, <1>2, HasMax
  <1>4. Max(S) \in DOMAIN q /\ IsWrite(q[Max(S)], x) /\ Max(S) \in Nat /\ i \in Nat
    BY <1>1, <1>2, <1>3
  <1>5. Max(S) = i
    BY <1>3, <1>4
  <1>6. QED
    BY <1>2, <1>5 DEF Upon

LEMMA LastExists ==
  ASSUME NEW T, NEW q \in Seq(T), NEW x, ~ NoWrite(q, x)
  PROVE  \E i \in DOMAIN q : /\ IsWrite(q[i], x)
                             /\ \A j \in DOMAIN q : j > i => ~ IsWrite(q[j], x)
  <1> DEFINE S == { j \in DOMAIN q : IsWrite(q[j], x) }
  <1>1. DOMAIN q = 1 .. Len(q) /\ Len(q) \in Nat
    BY LenProperties
  <1>2. S \in SUBSET (1 .. Len(q)) /\ S # {}
    BY <1>1 DEF NoWrite
  <1>3. Max(S) \in S /\ \A j \in S : j <= Max(S)
    BY <1>1, <1>2, HasMax
  <1>4. PICK m \in DOMAIN q : IsWrite(q[m], x) /\ \A j \in S : j <= m
    BY <1>3
  <1>5. \A j \in DOMAIN q : j > m => j \notin S
    BY <1>1, <1>4
  <1>6. QED
    BY <1>4, <1>5

\* A queue from which a message was taken that no write of the sector precedes.
LEMMA UponWithout ==
  ASSUME NEW T, NEW q \in Seq(T), NEW r \in Seq(T), NEW i, Without(q, r, i),
         NEW x, \A j \in 1 .. i - 1 : ~ IsWrite(q[j], x), NEW d
  PROVE  Upon(q, x, d) = Upon(r, x, IF IsWrite(q[i], x) THEN q[i].value ELSE d)
  <1>1. /\ Len(q) \in Nat /\ DOMAIN q = 1 .. Len(q) /\ DOMAIN r = 1 .. Len(q) - 1
        /\ i \in 1 .. Len(q) /\ \A j \in DOMAIN r : r[j] = IF j < i THEN q[j] ELSE q[j + 1]
    BY LenProperties DEF Without
  <1>2. CASE NoWrite(r, x)
    <2>1. ASSUME NEW j \in DOMAIN q, IsWrite(q[j], x)
          PROVE  j = i
      <3>1. CASE j > i
        <4>1. j - 1 \in DOMAIN r /\ r[j - 1] = q[(j - 1) + 1] /\ (j - 1) + 1 = j
          BY <1>1, <3>1
        <4>2. QED
          BY <1>2, <2>1, <4>1 DEF NoWrite
      <3>2. CASE j < i
        BY <1>1, <2>1, <3>2
      <3>3. QED
        BY <1>1, <3>1, <3>2
    <2>2. CASE IsWrite(q[i], x)
      <3>1. \A j \in DOMAIN q : j > i => ~ IsWrite(q[j], x)
        BY <1>1, <2>1
      <3>2. Upon(q, x, d) = q[i].value
        BY <1>1, <2>2, <3>1, UponLast
      <3>3. QED
        BY <1>2, <2>2, <3>2, UponNothing
    <2>3. CASE ~ IsWrite(q[i], x)
      <3>1. NoWrite(q, x)
        BY <2>1, <2>3 DEF NoWrite
      <3>2. QED
        BY <1>2, <2>3, <3>1, UponNothing
    <2>4. QED
      BY <2>2, <2>3
  <1>3. CASE ~ NoWrite(r, x)
    <2>1. PICK k \in DOMAIN r : /\ IsWrite(r[k], x)
                                /\ \A j \in DOMAIN r : j > k => ~ IsWrite(r[j], x)
      BY <1>3, LastExists
    <2>2. k >= i /\ k + 1 \in DOMAIN q /\ r[k] = q[k + 1] /\ k \in Nat
      BY <1>1, <2>1
    <2>3. ASSUME NEW j \in DOMAIN q, j > k + 1
          PROVE  ~ IsWrite(q[j], x)
      <3>1. j - 1 \in DOMAIN r /\ j - 1 > k /\ r[j - 1] = q[(j - 1) + 1] /\ (j - 1) + 1 = j
        BY <1>1, <2>2, <2>3
      <3>2. QED
        BY <2>1, <3>1
    <2>4. Upon(q, x, d) = q[k + 1].value
      BY <2>1, <2>2, <2>3, UponLast
    <2>5. \A e : Upon(r, x, e) = r[k].value
      BY <2>1, UponLast
    <2>6. QED
      BY <2>2, <2>4, <2>5
  <1>4. QED
    BY <1>2, <1>3

LEMMA UponTail ==
  ASSUME NEW T, NEW q \in Seq(T), q # <<>>, NEW x, NEW d
  PROVE  Upon(q, x, d) =
            Upon(Tail(q), x, IF IsWrite(Head(q), x) THEN Head(q).value ELSE d)
  <1>1. Without(q, Tail(q), 1) /\ Tail(q) \in Seq(T) /\ Head(q) = q[1]
    BY TailWithout, HeadTailProperties
  <1>2. \A j \in 1 .. 1 - 1 : ~ IsWrite(q[j], x)
    OBVIOUS
  <1>3. Upon(q, x, d) = Upon(Tail(q), x, IF IsWrite(q[1], x) THEN q[1].value ELSE d)
    <2> DEFINE r == Tail(q)
    <2>1. r \in Seq(T) /\ Without(q, r, 1)
      BY <1>1
    <2> HIDE DEF r
    <2>2. Upon(q, x, d) = Upon(r, x, IF IsWrite(q[1], x) THEN q[1].value ELSE d)
      BY <1>2, <2>1, UponWithout
    <2>3. QED
      BY <2>2 DEF r
  <1>4. QED
    BY <1>1, <1>3

LEMMA UponAppend ==
  ASSUME NEW T, NEW q \in Seq(T), NEW m \in T, NEW x, NEW d
  PROVE  Upon(Append(q, m), x, d) = IF IsWrite(m, x) THEN m.value ELSE Upon(q, x, d)
  <1> DEFINE r == Append(q, m)
  <1>1. /\ DOMAIN r = DOMAIN q \cup {Len(q) + 1} /\ r[Len(q) + 1] = m /\ Len(q) \in Nat
        /\ \A i \in DOMAIN q : r[i] = q[i] /\ i # Len(q) + 1 /\ i <= Len(q) /\ i \in Nat
    BY AppendAt
  <1>2. r \in Seq(T)
    BY AppendProperties
  <1> HIDE DEF r
  <1>3. CASE IsWrite(m, x)
    <2>1. \A j \in DOMAIN r : j > Len(q) + 1 => ~ IsWrite(r[j], x)
      BY <1>1
    <2>2. Upon(r, x, d) = r[Len(q) + 1].value
      BY <1>1, <1>2, <1>3, <2>1, UponLast
    <2>3. QED
      BY <1>1, <1>3, <2>2 DEF r
  <1>4. CASE ~ IsWrite(m, x) /\ NoWrite(q, x)
    <2>1. NoWrite(r, x)
      BY <1>1, <1>4 DEF NoWrite
    <2>2. QED
      BY <1>4, <2>1, UponNothing DEF r
  <1>5. CASE ~ IsWrite(m, x) /\ ~ NoWrite(q, x)
    <2>1. PICK k \in DOMAIN q : /\ IsWrite(q[k], x)
                                /\ \A j \in DOMAIN q : j > k => ~ IsWrite(q[j], x)
      BY <1>5, LastExists
    <2>2. Upon(q, x, d) = q[k].value
      BY <2>1, UponLast
    <2>3. k \in DOMAIN r /\ IsWrite(r[k], x) /\ \A j \in DOMAIN r : j > k => ~ IsWrite(r[j], x)
      BY <1>1, <1>5, <2>1
    <2>4. Upon(r, x, d) = r[k].value
      BY <1>2, <2>3, UponLast
    <2>5. QED
      BY <1>1, <1>5, <2>1, <2>2, <2>4 DEF r
  <1>6. QED
    BY <1>3, <1>4, <1>5

LEMMA UponEmpty == \A x, d : Upon(<<>>, x, d) = d
  BY UponNothing DEF NoWrite

\* First the writes of one queue, then those of another.
LEMMA UponConcat ==
  ASSUME NEW T, NEW q \in Seq(T), NEW r \in Seq(T), NEW x, NEW d
  PROVE  Upon(q \o r, x, d) = Upon(r, x, Upon(q, x, d))
  <1> DEFINE p == q \o r
             n == Len(q)
  <1>1. /\ p \in Seq(T) /\ DOMAIN p = 1 .. n + Len(r) /\ n \in Nat /\ Len(r) \in Nat
        /\ DOMAIN q = 1 .. n /\ DOMAIN r = 1 .. Len(r)
        /\ \A i \in 1 .. n : p[i] = q[i]
        /\ \A i \in 1 .. Len(r) : p[n + i] = r[i]
    BY ConcatProperties, LenProperties
  <1> HIDE DEF p, n
  <1>2. CASE ~ NoWrite(r, x)
    <2>1. PICK k \in DOMAIN r : /\ IsWrite(r[k], x)
                                /\ \A j \in DOMAIN r : j > k => ~ IsWrite(r[j], x)
      BY <1>2, LastExists
    <2>2. ASSUME NEW j \in DOMAIN p, j > n + k
          PROVE  ~ IsWrite(p[j], x)
      <3>1. j - n \in DOMAIN r /\ j - n > k /\ p[n + (j - n)] = r[j - n] /\ n + (j - n) = j
        BY <1>1, <2>1, <2>2
      <3>2. QED
        BY <2>1, <3>1
    <2>3. n + k \in DOMAIN p /\ p[n + k] = r[k]
      BY <1>1, <2>1
    <2>4. Upon(p, x, d) = p[n + k].value
      <3> DEFINE l == n + k
      <3>1. l \in DOMAIN p /\ IsWrite(p[l], x) /\ \A j \in DOMAIN p : j > l => ~ IsWrite(p[j], x)
        BY <2>1, <2>2, <2>3
      <3>2. p \in Seq(T)
        BY <1>1
      <3> HIDE DEF l
      <3>3. Upon(p, x, d) = p[l].value
        BY <3>1, <3>2, UponLast
      <3>4. QED
        BY <3>3 DEF l
    <2>5. Upon(r, x, Upon(q, x, d)) = r[k].value
      BY <2>1, UponLast
    <2>6. QED
      BY <2>3, <2>4, <2>5 DEF p
  <1>3. CASE NoWrite(r, x)
    <2>1. Upon(r, x, Upon(q, x, d)) = Upon(q, x, d)
      BY <1>3, UponNothing
    <2>2. ASSUME NEW j \in DOMAIN p, j > n
          PROVE  ~ IsWrite(p[j], x)
      <3>1. j - n \in DOMAIN r /\ p[n + (j - n)] = r[j - n] /\ n + (j - n) = j
        BY <1>1, <2>2
      <3>2. QED
        BY <1>3, <3>1 DEF NoWrite
    <2>3. CASE NoWrite(q, x)
      <3>1. NoWrite(p, x)
        BY <1>1, <2>2, <2>3, SMTT(60) DEF NoWrite
      <3>2. QED
        BY <2>1, <2>3, <3>1, UponNothing DEF p
    <2>4. CASE ~ NoWrite(q, x)
      <3>1. PICK k \in DOMAIN q : /\ IsWrite(q[k], x)
                                  /\ \A j \in DOMAIN q : j > k => ~ IsWrite(q[j], x)
        BY <2>4, LastExists
      <3>2. /\ k \in DOMAIN p /\ p[k] = q[k]
            /\ \A j \in DOMAIN p : j > k => ~ IsWrite(p[j], x)
        <4>1. k \in DOMAIN p /\ p[k] = q[k]
          BY <1>1, <3>1
        <4>2. ASSUME NEW j \in DOMAIN p, j > k
              PROVE  ~ IsWrite(p[j], x)
          <5>1. CASE j > n
            BY <2>2, <5>1
          <5>2. CASE j \in DOMAIN q
            BY <1>1, <3>1, <4>2, <5>2
          <5>3. QED
            BY <1>1, <5>1, <5>2
        <4>3. QED
          BY <4>1, <4>2
      <3>3. Upon(p, x, d) = p[k].value
        <4>1. p \in Seq(T) /\ k \in DOMAIN p /\ IsWrite(p[k], x)
          BY <1>1, <3>1, <3>2
        <4>2. QED
          BY <4>1, <3>2, UponLast
      <3>4. Upon(q, x, d) = q[k].value
        BY <3>1, UponLast
      <3>5. QED
        BY <2>1, <3>2, <3>3, <3>4 DEF p
    <2>5. QED
      BY <2>3, <2>4
  <1>4. QED
    BY <1>2, <1>3

-----------------------------------------------------------------------------
(* The PPDs that were in the cluster from the start, in the list and out.   *)

Founder(s) == s \in ToSet(InitialStorages)

\* s is t or comes after it.
Upto(t, s) ==
    \E i, j \in DOMAIN InitialStorages :
        i <= j /\ InitialStorages[i] = t /\ InitialStorages[j] = s

\* The founders that run are in the list, in their first order; those that
\* join come after them, are not founders, and only they are replicated.
FoundersListed ==
    /\ \A p, q \in DOMAIN storages :
          q < p /\ Founder(storages[p]) => Upto(storages[q], storages[p]) /\ storages[q] # storages[p]
    /\ \A s \in Storage : Founder(s) =>
          ppdStatus[s] # "offline" /\ (ppdStatus[s] = "running" => Member(s))
    /\ acceptor.pc # "accept" => ~ Founder(acceptor.destiny)
    /\ ~ Founder(syncState.destiny)

\* Whatever was unlinked, the iteration reaches a founder that runs from any
\* that came before it, and it never goes back.
FoundersLinked ==
    /\ \A t, s \in Storage :
          Upto(t, s) /\ t # s /\ ppdStatus[s] = "running" => Upto(link[t], s)
    /\ \A t \in Storage : Founder(link[t]) => Upto(t, link[t]) /\ t # link[t]

LEMMA UptoOrder ==
  /\ \A t, s : Upto(t, s) => Founder(t) /\ Founder(s) /\ t \in Storage /\ s \in Storage
  /\ \A s : Founder(s) => s \in Storage /\ Upto(s, s)
  /\ \A t, s, u : Upto(t, s) /\ Upto(s, u) => Upto(t, u)
  /\ \A t, s : Upto(t, s) /\ Upto(s, t) => t = s
  <1>1. /\ InitialStorages \in Seq(Storage) /\ DOMAIN InitialStorages = 1 .. Len(InitialStorages)
        /\ Len(InitialStorages) \in Nat
        /\ \A i, j \in DOMAIN InitialStorages : InitialStorages[i] = InitialStorages[j] => i = j
    BY PraidAssumption, LenProperties
  <1>2. \A i \in DOMAIN InitialStorages : InitialStorages[i] \in Storage
    BY <1>1, ElementOfSeq
  <1>3. \A t, s : Upto(t, s) => Founder(t) /\ Founder(s) /\ t \in Storage /\ s \in Storage
    BY <1>2 DEF Upto, Founder, ToSet
  <1>4. \A s : Founder(s) => s \in Storage /\ Upto(s, s)
    <2> SUFFICES ASSUME NEW s, Founder(s) PROVE s \in Storage /\ Upto(s, s)
      OBVIOUS
    <2>1. PICK i \in DOMAIN InitialStorages : s = InitialStorages[i]
      BY DEF Founder, ToSet
    <2>2. i <= i
      BY <1>1
    <2>3. QED
      BY <1>2, <2>1, <2>2 DEF Upto
  <1>5. ASSUME NEW t, NEW s, NEW u, Upto(t, s), Upto(s, u)
        PROVE  Upto(t, u)
    <2>1. PICK i, j \in DOMAIN InitialStorages :
             i <= j /\ InitialStorages[i] = t /\ InitialStorages[j] = s
      BY <1>5 DEF Upto
    <2>2. PICK k, l \in DOMAIN InitialStorages :
             k <= l /\ InitialStorages[k] = s /\ InitialStorages[l] = u
      BY <1>5 DEF Upto
    <2>3. j = k
      BY <1>1, <2>1, <2>2
    <2>4. i <= l
      BY <1>1, <2>1, <2>2, <2>3
    <2>5. QED
      BY <2>1, <2>2, <2>4 DEF Upto
  <1>6. ASSUME NEW t, NEW s, Upto(t, s), Upto(s, t)
        PROVE  t = s
    <2>1. PICK i, j \in DOMAIN InitialStorages :
             i <= j /\ InitialStorages[i] = t /\ InitialStorages[j] = s
      BY <1>6 DEF Upto
    <2>2. PICK k, l \in DOMAIN InitialStorages :
             k <= l /\ InitialStorages[k] = s /\ InitialStorages[l] = t
      BY <1>6 DEF Upto
    <2>3. j = k /\ l = i
      BY <1>1, <2>1, <2>2
    <2>4. i = j
      BY <1>1, <2>1, <2>2, <2>3
    <2>5. QED
      BY <2>1, <2>4
  <1>7. QED
    BY <1>3, <1>4, <1>5, <1>6

\* Steps that leave the list as it is, let no founder in and replicate none.
LEMMA ListUntouched ==
  ASSUME FoundersListed, FoundersLinked, UNCHANGED <<storages, link>>,
         \A s \in Storage : /\ ppdStatus'[s] = "running" /\ Founder(s) => ppdStatus[s] = "running"
                            /\ ppdStatus'[s] = "offline" => ppdStatus[s] = "offline",
         acceptor'.pc # "accept" => ~ Founder(acceptor'.destiny),
         ~ Founder(syncState'.destiny)
  PROVE  FoundersListed' /\ FoundersLinked'
  <1>1. FoundersListed'
    BY DEF FoundersListed, Member, Founder, Upto
  <1>2. FoundersLinked'
    BY UptoOrder DEF FoundersLinked, Founder, Upto
  <1>3. QED
    BY <1>1, <1>2

\* A PPD joins: it comes last, and the one that was last now links to it.
LEMMA ListGrows ==
  ASSUME IInv, FoundersListed, FoundersLinked, AddPpd
  PROVE  FoundersListed' /\ FoundersLinked'
  <1> USE DEF IInv, TypeOK
  <1>1. PICK d \in Storage : d = acceptor.destiny /\ ~ Founder(d)
    BY DEF StaysDisconnected, AddPpd, FoundersListed
  <1>2. /\ storages \in Seq(Storage) /\ DOMAIN storages = 1 .. Len(storages)
        /\ Len(storages) \in Nat /\ \A p \in DOMAIN storages : storages[p] \in Storage
    BY LenProperties, ElementOfSeq DEF StorageTypeOK
  <1>3. /\ storages' = Append(storages, d)
        /\ DOMAIN storages' = DOMAIN storages \cup {Len(storages) + 1}
        /\ storages'[Len(storages) + 1] = d
        /\ \A p \in DOMAIN storages : storages'[p] = storages[p]
    <2>1. storages' = Append(storages, d)
      BY <1>1 DEF AddPpd, AddStorage
    <2>2. QED
      BY <1>2, <2>1, AppendAt
  <1>4. /\ UNCHANGED <<ppdStatus, syncState>>
        /\ acceptor'.pc = "validate" /\ acceptor'.destiny = d
    BY <1>1 DEF AddPpd, AcceptorAt
  <1>5. \A s \in Storage : Member(s) => Member(s)'
    BY <1>3 DEF Member, ToSet
  <1>6. FoundersListed'
    <2>1. ASSUME NEW p \in DOMAIN storages', NEW q \in DOMAIN storages', q < p, Founder(storages'[p])
          PROVE  Upto(storages'[q], storages'[p]) /\ storages'[q] # storages'[p]
      <3>1. p \in DOMAIN storages
        BY <1>1, <1>3, <2>1
      <3>2. q \in DOMAIN storages
        BY <1>2, <1>3, <2>1, <3>1
      <3>3. QED
        BY <1>3, <2>1, <3>1, <3>2 DEF FoundersListed
    <2>2. QED
      BY <1>1, <1>4, <1>5, <2>1 DEF FoundersListed, Founder, Upto
  <1>7. \A t \in Storage : \/ link'[t] = link[t]
                           \/ t = d /\ link'[t] = Nil
                           \/ /\ storages # <<>> /\ t = storages[Len(storages)] /\ link'[t] = d
    BY <1>1, <1>2 DEF AddPpd, AddStorage, StorageTypeOK
  <1>8. ASSUME NEW t \in Storage, NEW s \in Storage, Upto(t, s), t # s, ppdStatus[s] = "running"
        PROVE  Upto(link'[t], s)
    <2>1. Founder(t) /\ Founder(s) /\ t # d
      BY <1>1, <1>8, UptoOrder
    <2>2. CASE link'[t] = link[t]
      BY <1>8, <2>2 DEF FoundersLinked
    <2>3. CASE storages # <<>> /\ t = storages[Len(storages)]
      <3>1. Len(storages) \in DOMAIN storages
        BY <1>2, <2>3, EmptySeq
      <3>2. PICK q \in DOMAIN storages : storages[q] = s
        BY <1>8, <2>1 DEF FoundersListed, Member, ToSet
      <3>3. q < Len(storages)
        BY <1>2, <1>8, <2>3, <3>2
      <3>4. Upto(s, t)
        BY <2>1, <2>3, <3>1, <3>2, <3>3 DEF FoundersListed
      <3>5. QED
        BY <1>8, <3>4, UptoOrder
    <2>4. QED
      BY <1>7, <2>1, <2>2, <2>3
  <1>9. \A t \in Storage : Founder(link'[t]) => link'[t] = link[t]
    <2>1. ~ Founder(Nil)
      BY PraidAssumption, UptoOrder
    <2>2. QED
      BY <1>1, <1>7, <2>1
  <1>10. FoundersLinked'
    BY <1>4, <1>8, <1>9 DEF FoundersLinked, Founder, Upto
  <1>11. QED
    BY <1>6, <1>10

\* A PPD that ended leaves: those before it now link to what it links to.
LEMMA ListShrinks ==
  ASSUME IInv, FoundersListed, FoundersLinked, NEW s \in Storage, RemoveStorage(s),
         ppdStatus[s] = "dead", UNCHANGED <<ppdStatus, acceptor, syncState>>
  PROVE  FoundersListed' /\ FoundersLinked'
  <1> USE DEF IInv, TypeOK
  <1>1. storages \in Seq(Storage) /\ DOMAIN storages = 1 .. Len(storages) /\ Len(storages) \in Nat
    BY LenProperties DEF StorageTypeOK
  <1>2. storages' = storages \/ \E i \in DOMAIN storages :
                                   storages[i] = s /\ Without(storages, storages', i)
                                   /\ storages' \in Seq(Storage)
    <2>1. CASE Member(s)
      <3> DEFINE i == CHOOSE i \in DOMAIN storages : storages[i] = s
      <3>1. i \in DOMAIN storages /\ storages[i] = s
        BY <2>1 DEF Member, ToSet
      <3>2. storages' = RemoveAt(storages, i)
        BY <2>1 DEF RemoveStorage, Unlink
      <3> HIDE DEF i
      <3>3. Without(storages, storages', i) /\ storages' \in Seq(Storage)
        BY <1>1, <3>1, <3>2, RemoveAtWithout
      <3>4. QED
        BY <3>1, <3>3
    <2>2. QED
      BY <2>1 DEF RemoveStorage, Unlink
  <1>3. /\ \A p, q \in DOMAIN storages' : q < p /\ Founder(storages'[p]) =>
              Upto(storages'[q], storages'[p]) /\ storages'[q] # storages'[p]
        /\ \A t \in Storage : Member(t) /\ t # s => Member(t)'
    <2>1. CASE storages' = storages
      BY <2>1 DEF FoundersListed, Member
    <2>2. ASSUME NEW i \in DOMAIN storages, storages[i] = s, Without(storages, storages', i),
                 storages' \in Seq(Storage)
          PROVE  /\ \A p, q \in DOMAIN storages' : q < p /\ Founder(storages'[p]) =>
                        Upto(storages'[q], storages'[p]) /\ storages'[q] # storages'[p]
                 /\ \A t \in Storage : Member(t) /\ t # s => Member(t)'
      <3>1. /\ DOMAIN storages' = 1 .. Len(storages) - 1 /\ i \in 1 .. Len(storages)
            /\ \A j \in DOMAIN storages' :
                  storages'[j] = IF j < i THEN storages[j] ELSE storages[j + 1]
        BY <1>1, <2>2, LenProperties DEF Without
      <3>2. ASSUME NEW p \in DOMAIN storages', NEW q \in DOMAIN storages', q < p,
                   Founder(storages'[p])
            PROVE  Upto(storages'[q], storages'[p]) /\ storages'[q] # storages'[p]
        <4>1. PICK k \in DOMAIN storages : k = IF p < i THEN p ELSE p + 1
          BY <1>1, <3>1
        <4>2. PICK l \in DOMAIN storages : l = IF q < i THEN q ELSE q + 1
          BY <1>1, <3>1
        <4>3. l < k /\ storages'[p] = storages[k] /\ storages'[q] = storages[l]
          BY <1>1, <3>1, <3>2, <4>1, <4>2
        <4>4. QED
          BY <3>2, <4>3 DEF FoundersListed
      <3>3. ASSUME NEW t \in Storage, Member(t), t # s
            PROVE  Member(t)'
        <4>1. PICK j \in DOMAIN storages : storages[j] = t
          BY <3>3 DEF Member, ToSet
        <4>2. PICK k : k = IF j < i THEN j ELSE j - 1
          OBVIOUS
        <4>3. k \in DOMAIN storages' /\ storages'[k] = t
          BY <1>1, <2>2, <3>1, <3>3, <4>1, <4>2
        <4>4. QED
          BY <4>3 DEF Member, ToSet
      <3>4. QED
        BY <3>2, <3>3
    <2>3. QED
      BY <1>2, <2>1, <2>2
  <1>4. FoundersListed'
    BY <1>3 DEF FoundersListed, Founder, Upto
  <1>5. \A t \in Storage : link'[t] = link[t] \/ (t # s /\ link[t] = s /\ link'[t] = link[s])
    BY DEF RemoveStorage, StorageTypeOK
  <1>6. ASSUME NEW t \in Storage, NEW u \in Storage, Upto(t, u), t # u, ppdStatus[u] = "running"
        PROVE  Upto(link'[t], u)
    <2>1. Upto(link[t], u)
      BY <1>6 DEF FoundersLinked
    <2>2. CASE link[t] = s
      <3>1. Upto(s, u) /\ s # u
        BY <1>6, <2>1, <2>2
      <3>2. Upto(link[s], u)
        BY <1>6, <3>1 DEF FoundersLinked
      <3>3. QED
        BY <1>5, <2>1, <3>2
    <2>3. QED
      BY <1>5, <2>1, <2>2
  <1>7. ASSUME NEW t \in Storage, Founder(link'[t])
        PROVE  Upto(t, link'[t]) /\ t # link'[t]
    <2>1. CASE link'[t] = link[t]
      BY <1>7, <2>1 DEF FoundersLinked
    <2>2. CASE t # s /\ link[t] = s /\ link'[t] = link[s]
      <3>1. Upto(s, link[s]) /\ s # link[s]
        BY <1>7, <2>2 DEF FoundersLinked
      <3>2. Upto(t, s) /\ t # s
        BY <2>2, <3>1, UptoOrder DEF FoundersLinked
      <3>3. QED
        BY <2>2, <3>1, <3>2, UptoOrder
    <2>3. QED
      BY <1>5, <2>1, <2>2
  <1>8. FoundersLinked'
    BY <1>6, <1>7 DEF FoundersLinked, Founder, Upto
  <1>9. QED
    BY <1>4, <1>8

LEMMA ListStep ==
  ASSUME IInv, AllEnded, FoundersListed, FoundersLinked, [Next]_vars
  PROVE  FoundersListed' /\ FoundersLinked'
  <1> USE DEF IInv, TypeOK
  <1>1. ~ Founder(Nil)
    BY PraidAssumption, UptoOrder
  <1>2. ASSUME UNCHANGED <<storages, link, ppdStatus, acceptor, syncState>>
        PROVE  FoundersListed' /\ FoundersLinked'
    BY <1>2, ListUntouched DEF FoundersListed
  <1>3. CASE UNCHANGED vars
    BY <1>2, <1>3 DEF vars
  <1>4. CASE PraidStep
    <2>1. CASE Acceptor(Drained)
      <3>1. CASE \E s \in Storage : DenyPpd(s) \/ AcceptPpd(s)
        <4>1. PICK s \in Storage : DenyPpd(s) \/ AcceptPpd(s)
          BY <3>1
        <4>2. /\ ~ Founder(s) /\ UNCHANGED <<storages, link, syncState>>
              /\ \A t \in Storage \ {s} : ppdStatus'[t] = ppdStatus[t]
              /\ ppdStatus'[s] # "offline"
          BY <4>1 DEF DenyPpd, AcceptPpd, FoundersListed, NodeTypeOK
        <4>3. acceptor' = acceptor \/ (acceptor'.destiny = s)
          BY <4>1 DEF DenyPpd, AcceptPpd, AcceptorAt
        <4>4. QED
          BY <4>2, <4>3, ListUntouched DEF FoundersListed
      <3>2. CASE AddPpd
        BY <3>2, ListGrows
      <3>3. CASE ValidateReplication \/ StartReplication(Drained) \/ FireSynchronization
        <4>1. UNCHANGED <<storages, link, ppdStatus>> /\ ~ Founder(acceptor.destiny)
          BY <3>3 DEF ValidateReplication, StartReplication, FireSynchronization, FoundersListed
        <4>2. /\ acceptor'.destiny \in {acceptor.destiny, Nil}
              /\ syncState'.destiny \in {acceptor.destiny, syncState.destiny}
          BY <3>3 DEF ValidateReplication, StartReplication, FireSynchronization, AcceptAgain,
             AcceptorAt
        <4>3. ~ Founder(acceptor'.destiny) /\ ~ Founder(syncState'.destiny)
          BY <1>1, <4>1, <4>2 DEF FoundersListed
        <4>4. QED
          BY <4>1, <4>3, ListUntouched
      <3>4. CASE \E c \in Socket : AcceptPfs(c)
        BY <1>2, <3>4 DEF AcceptPfs
      <3>5. QED
        BY <2>1, <3>1, <3>2, <3>3, <3>4 DEF Acceptor
    <2>2. CASE \E c \in Socket : Worker(c)
      BY <1>2, <2>2 DEF Worker, PfsReceive, IterateStorages, ExecutePut, SelectForGet, EnqueueGet
    <2>3. CASE \E s \in Storage : Sender(s)
      BY <1>2, <2>3 DEF Sender, SenderCheck, SenderSend, SenderExit, SenderRecord, SenderCount
    <2>4. ASSUME NEW s \in Storage, Listener(s)
          PROVE  FoundersListed' /\ FoundersLinked'
      <3>1. CASE RemoveDisconnected(s)
        <4>1. ppdStatus[s] = "dead" /\ RemoveStorage(s)
          BY <3>1 DEF RemoveDisconnected, AllEnded, Ended, HandingOver
        <4>2. UNCHANGED <<ppdStatus, acceptor, syncState>>
          BY <3>1 DEF RemoveDisconnected
        <4>3. QED
          BY <4>1, <4>2, ListShrinks
      <3>2. CASE ~ RemoveDisconnected(s)
        <4>1. UNCHANGED <<storages, link, ppdStatus, acceptor, syncState>>
          BY <2>4, <3>2 DEF Listener, ListenerResponse, ListenerReply, ListenerForget,
             ListenerSyncPut, ListenerSyncEnd, ListenerDisconnected, ProcessDisconnection,
             CollectRead, ChooseCandidate, AssignJob
        <4>2. QED
          BY <1>2, <4>1
      <3>3. QED
        BY <3>1, <3>2
    <2>5. QED
      BY <1>4, <2>1, <2>2, <2>3, <2>4 DEF PraidStep
  <1>5. CASE NodeStep
    <2>1. PICK s \in Storage : Node(s) \/ NodeLosesJob(s) \/ NodeDies(s)
      BY <1>5 DEF NodeStep
    <2>2. UNCHANGED praidVars
      BY <2>1 DEF Node, NodeQueueJob, NodeSyncGet, NodeStream, NodeUnmap,
       NodeStreamEnd, NodeSyncPut, NodeSyncEnd, NodeExecute, NodeLosesJob, NodeDies
    <2>3. ppdStatus' = ppdStatus \/ Ends(s)
      BY <2>1 DEF Node, NodeQueueJob, NodeSyncGet, NodeStream, NodeUnmap,
       NodeStreamEnd, NodeSyncPut, NodeSyncEnd, NodeExecute, NodeLosesJob, NodeDies, Executes
    <2>4. \A t \in Storage : ppdStatus'[t] = ppdStatus[t] \/ ppdStatus'[t] = "dead"
      BY <2>3 DEF Ends, NodeTypeOK
    <2>5. QED
      BY <2>2, <2>4, ListUntouched DEF FoundersListed
  <1>6. CASE ClientStep
    BY <1>2, <1>6 DEF ClientStep, ClientGet, ClientPut, ClientReceive
  <1>7. QED
    BY <1>3, <1>4, <1>5, <1>6 DEF Next

LEMMA ListInit == Init => FoundersListed /\ FoundersLinked
  <1> SUFFICES ASSUME Init PROVE FoundersListed /\ FoundersLinked
    OBVIOUS
  <1> USE DEF Init, InitPraid, InitNode
  <1>1. /\ InitialStorages \in Seq(Storage) /\ DOMAIN InitialStorages = 1 .. Len(InitialStorages)
        /\ Len(InitialStorages) \in Nat
        /\ \A i, j \in DOMAIN InitialStorages : InitialStorages[i] = InitialStorages[j] => i = j
    BY PraidAssumption, LenProperties
  <1>2. \A i \in DOMAIN InitialStorages : InitialStorages[i] \in Storage
    BY <1>1, ElementOfSeq
  <1>3. ~ Founder(Nil)
    BY PraidAssumption, UptoOrder
  <1>4. FoundersListed
    <2>1. \A p, q \in DOMAIN storages : q < p =>
             Upto(storages[q], storages[p]) /\ storages[q] # storages[p]
      BY <1>1 DEF Upto
    <2>2. \A s \in Storage : Founder(s) => ppdStatus[s] = "running" /\ Member(s)
      BY DEF Founder, Member
    <2>3. ~ Founder(acceptor.destiny) /\ ~ Founder(syncState.destiny)
      BY <1>3 DEF AcceptorAt
    <2>4. QED
      BY <2>1, <2>2, <2>3 DEF FoundersListed
  <1>5. \A t \in Storage :
           \/ /\ link[t] = Nil
              /\ ~ \E i \in 1 .. Len(InitialStorages) - 1 : InitialStorages[i] = t
           \/ \E i \in 1 .. Len(InitialStorages) - 1 :
                 InitialStorages[i] = t /\ link[t] = InitialStorages[1 + i]
    <2> SUFFICES ASSUME NEW t \in Storage, link[t] # Nil
                            \/ \E i \in 1 .. Len(InitialStorages) - 1 : InitialStorages[i] = t
                 PROVE  \E i \in 1 .. Len(InitialStorages) - 1 :
                           InitialStorages[i] = t /\ link[t] = InitialStorages[1 + i]
      OBVIOUS
    <2>1. \E i \in 1 .. Len(InitialStorages) - 1 : InitialStorages[i] = t
      OBVIOUS
    <2> DEFINE k == CHOOSE i \in 1 .. Len(InitialStorages) - 1 : InitialStorages[i] = t
    <2>2. k \in 1 .. Len(InitialStorages) - 1 /\ InitialStorages[k] = t
      BY <2>1
    <2>3. link[t] = InitialStorages[1 + k]
      BY <2>1
    <2> HIDE DEF k
    <2>4. QED
      BY <2>2, <2>3
  <1>6. ASSUME NEW t \in Storage, NEW s \in Storage, Upto(t, s), t # s
        PROVE  Upto(link[t], s)
    <2>1. PICK k, l \in DOMAIN InitialStorages :
             k <= l /\ InitialStorages[k] = t /\ InitialStorages[l] = s
      BY <1>6 DEF Upto
    <2>2. k \in 1 .. Len(InitialStorages) - 1 /\ 1 + k <= l /\ 1 + k \in DOMAIN InitialStorages
      BY <1>1, <1>6, <2>1
    <2>3. PICK i \in 1 .. Len(InitialStorages) - 1 :
                 InitialStorages[i] = t /\ link[t] = InitialStorages[1 + i]
      BY <1>5, <2>1, <2>2
    <2>4. i = k
      BY <1>1, <2>1, <2>2, <2>3
    <2>5. QED
      BY <2>1, <2>2, <2>3, <2>4 DEF Upto
  <1>7. ASSUME NEW t \in Storage, Founder(link[t])
        PROVE  Upto(t, link[t]) /\ t # link[t]
    <2>1. PICK i \in 1 .. Len(InitialStorages) - 1 :
                 InitialStorages[i] = t /\ link[t] = InitialStorages[1 + i]
      BY <1>3, <1>5, <1>7
    <2>2. i \in DOMAIN InitialStorages /\ 1 + i \in DOMAIN InitialStorages /\ i <= 1 + i /\ i # 1 + i
      BY <1>1
    <2>3. QED
      BY <1>1, <2>1, <2>2 DEF Upto
  <1>8. QED
    BY <1>4, <1>6, <1>7 DEF FoundersLinked

-----------------------------------------------------------------------------
(* The listener of a PPD that ended hands over reads only.                  *)

OrphansAreReads ==
    \A s \in Storage : \A i \in DOMAIN listener[s].orphans : listener[s].orphans[i].op = "get"

LEMMA OrphansStep ==
  ASSUME IInv, OrphansAreReads, [Next]_vars
  PROVE  OrphansAreReads'
  <1> USE DEF IInv, TypeOK
  <1>1. ASSUME \A s \in Storage : listener'[s] = listener[s] \/ listener'[s].orphans = <<>>
        PROVE  OrphansAreReads'
    BY <1>1 DEF OrphansAreReads
  <1>2. CASE UNCHANGED vars
    BY <1>1, <1>2 DEF vars
  <1>3. CASE PraidStep
    <2>1. CASE Acceptor(Drained)
      BY <1>1, <2>1 DEF Acceptor, DenyPpd, AcceptPpd, AddPpd, ValidateReplication,
         StartReplication, FireSynchronization, AcceptPfs, LaunchSlaveThreads, ListenerMoves,
         ListenerAt, ThreadTypeOK
    <2>2. CASE \E c \in Socket : Worker(c)
      BY <1>1, <2>2 DEF Worker, PfsReceive, IterateStorages, ExecutePut, SelectForGet, EnqueueGet
    <2>3. CASE \E s \in Storage : Sender(s)
      BY <1>1, <2>3 DEF Sender, SenderCheck, SenderSend, SenderExit, SenderRecord, SenderCount
    <2>4. ASSUME NEW s \in Storage, Listener(s)
          PROVE  OrphansAreReads'
      <3>1. \A t \in Storage \ {s} : listener'[t] = listener[t]
        BY <2>4 DEF Listener, ListenerResponse, ListenerReply, ListenerForget, ListenerSyncPut,
           ListenerSyncEnd, ListenerDisconnected, ProcessDisconnection, CollectRead,
           RemoveDisconnected, ChooseCandidate, AssignJob, ListenerMoves, ListenerLoops,
           ListenerEnds, ThreadTypeOK
      <3>2. listener[s].orphans \in Seq(Job)
        BY ThreadFields
      <3>3. \A i \in DOMAIN listener'[s].orphans : listener'[s].orphans[i].op = "get"
        <4>1. CASE ListenerSyncPut(s) \/ ListenerSyncEnd(s)
          BY <4>1 DEF ListenerSyncPut, ListenerSyncEnd, OrphansAreReads
        <4>2. CASE ListenerResponse(s) \/ ListenerReply(s) \/ ListenerForget(s)
                     \/ ListenerDisconnected(s) \/ ProcessDisconnection(s)
          <5>1. listener'[s].orphans = <<>>
            BY <4>2 DEF ListenerResponse, ListenerReply, ListenerForget, ListenerDisconnected,
               ProcessDisconnection, ListenerMoves, ListenerLoops, ListenerAt, HandoverAt,
               ThreadTypeOK
          <5>2. QED
            BY <5>1
        <4>3. CASE RemoveDisconnected(s) \/ ChooseCandidate(s)
          <5>1. \/ ListenerEnds(s)
                \/ \E pc, target : ListenerMoves(s, HandoverAt(pc, 0, listener[s].orphans, target))
            BY <4>3 DEF RemoveDisconnected, ChooseCandidate
          <5>2. listener'[s].orphans = <<>> \/ listener'[s].orphans = listener[s].orphans
            BY <5>1 DEF ListenerMoves, ListenerEnds, ListenerAt, HandoverAt, ThreadTypeOK
          <5>3. QED
            BY <5>2 DEF OrphansAreReads
        <4>4. CASE AssignJob(s)
          <5>1. \/ ListenerEnds(s)
                \/ ListenerMoves(s, HandoverAt("choose", 0, Tail(listener[s].orphans), Nil))
            BY <4>4 DEF AssignJob
          <5>2. listener[s].orphans # <<>>
            BY <4>4 DEF AssignJob, ThreadsHoldJobs
          <5>3. \A i \in DOMAIN Tail(listener[s].orphans) : Tail(listener[s].orphans)[i].op = "get"
            BY <3>2, <5>2, TailAt DEF OrphansAreReads
          <5>4. CASE ListenerEnds(s)
            <6>1. listener'[s].orphans = <<>>
              BY <5>4 DEF ListenerMoves, ListenerEnds, ListenerAt, ThreadTypeOK
            <6>2. QED
              BY <6>1
          <5>5. CASE ListenerMoves(s, HandoverAt("choose", 0, Tail(listener[s].orphans), Nil))
            <6>1. listener'[s].orphans = Tail(listener[s].orphans)
              BY <5>5 DEF ListenerMoves, HandoverAt, ThreadTypeOK
            <6>2. QED
              BY <5>3, <6>1
          <5>6. QED
            BY <5>1, <5>4, <5>5
        <4>5. CASE CollectRead(s)
          <5>1. \/ listener'[s].orphans = listener[s].orphans
                \/ \E i \in 1 .. Len(ScannedQueue(s)) :
                     listener'[s].orphans = AddRead(listener[s].orphans, ScannedQueue(s)[i])
            <6>1. ScannedQueue(s) \in Seq(Job) /\ Len(ScannedQueue(s)) \in Nat
              BY LenProperties DEF ScannedQueue, StorageTypeOK
            <6>2. listener[s].scanned + 1 \in Nat \ {0}
              BY ThreadFields
            <6>3. QED
              BY <4>5, <6>1, <6>2 DEF CollectRead, ListenerMoves, HandoverAt, ThreadTypeOK
          <5>2. CASE listener'[s].orphans = listener[s].orphans
            BY <5>2 DEF OrphansAreReads
          <5>3. ASSUME NEW i \in 1 .. Len(ScannedQueue(s)),
                       listener'[s].orphans = AddRead(listener[s].orphans, ScannedQueue(s)[i])
                PROVE  \A j \in DOMAIN listener'[s].orphans : listener'[s].orphans[j].op = "get"
            <6>1. ScannedQueue(s)[i] \in Job
              BY ElementOfSeq, LenProperties DEF ScannedQueue, StorageTypeOK
            <6>2. PICK job \in Job : job = ScannedQueue(s)[i]
              BY <6>1
            <6>3. QED
              BY <3>2, <5>3, <6>2, AppendAt DEF AddRead, OrphansAreReads
          <5>4. QED
            BY <5>1, <5>2, <5>3
        <4>6. QED
          BY <2>4, <4>1, <4>2, <4>3, <4>4, <4>5 DEF Listener
      <3>4. QED
        BY <3>1, <3>3 DEF OrphansAreReads
    <2>5. QED
      BY <1>3, <2>1, <2>2, <2>3, <2>4 DEF PraidStep
  <1>4. CASE NodeStep
    BY <1>1, <1>4 DEF NodeStep, Node, NodeQueueJob, NodeSyncGet, NodeStream,
       NodeUnmap, NodeStreamEnd, NodeSyncPut, NodeSyncEnd, NodeExecute, NodeLosesJob, NodeDies
  <1>5. CASE ClientStep
    BY <1>1, <1>5 DEF ClientStep, ClientGet, ClientPut, ClientReceive
  <1>6. QED
    BY <1>2, <1>3, <1>4, <1>5 DEF Next

-----------------------------------------------------------------------------
(* Writes on their way.                                                     *)

\* A message that is no write of the sector leaves without a trace.
LEMMA UponSkip ==
  ASSUME NEW T, NEW q \in Seq(T), NEW r \in Seq(T), NEW i, Without(q, r, i),
         NEW x, ~ IsWrite(q[i], x), NEW d
  PROVE  Upon(q, x, d) = Upon(r, x, d)
  <1>1. /\ Len(q) \in Nat /\ DOMAIN q = 1 .. Len(q) /\ DOMAIN r = 1 .. Len(q) - 1
        /\ i \in 1 .. Len(q) /\ \A j \in DOMAIN r : r[j] = IF j < i THEN q[j] ELSE q[j + 1]
    BY LenProperties DEF Without
  <1>2. \A j \in DOMAIN q : j # i =>
           \E k \in DOMAIN r : r[k] = q[j] /\ k = IF j < i THEN j ELSE j - 1
    <2> SUFFICES ASSUME NEW j \in DOMAIN q, j # i
                 PROVE  \E k \in DOMAIN r : r[k] = q[j] /\ k = IF j < i THEN j ELSE j - 1
      OBVIOUS
    <2>1. CASE j < i
      BY <1>1, <2>1
    <2>2. CASE j > i
      <3>1. j - 1 \in DOMAIN r /\ r[j - 1] = q[(j - 1) + 1] /\ (j - 1) + 1 = j
        BY <1>1, <2>2
      <3>2. QED
        BY <1>1, <2>2, <3>1
    <2>3. QED
      BY <1>1, <2>1, <2>2
  <1>3. CASE NoWrite(r, x)
    <2>1. NoWrite(q, x)
      BY <1>2, <1>3 DEF NoWrite
    <2>2. QED
      BY <1>3, <2>1, UponNothing
  <1>4. CASE ~ NoWrite(r, x)
    <2>1. PICK k \in DOMAIN r : /\ IsWrite(r[k], x)
                                /\ \A j \in DOMAIN r : j > k => ~ IsWrite(r[j], x)
      BY <1>4, LastExists
    <2>2. PICK l \in DOMAIN q : q[l] = r[k] /\ l = IF k < i THEN k ELSE k + 1
      BY <1>1
    <2>3. ASSUME NEW j \in DOMAIN q, j > l, IsWrite(q[j], x)
          PROVE  FALSE
      <3>1. j # i
        BY <2>3
      <3>2. PICK m \in DOMAIN r : r[m] = q[j] /\ m = IF j < i THEN j ELSE j - 1
        BY <1>2, <3>1
      <3>3. m > k
        BY <1>1, <2>2, <2>3, <3>1, <3>2
      <3>4. QED
        BY <2>1, <2>3, <3>2, <3>3
    <2>4. Upon(q, x, d) = q[l].value
      BY <2>1, <2>2, <2>3, UponLast
    <2>5. Upon(r, x, d) = r[k].value
      BY <2>1, UponLast
    <2>6. QED
      BY <2>2, <2>4, <2>5
  <1>5. QED
    BY <1>3, <1>4

\* The same writes, in the same order.
SameWrites(q, r) == \A x, d : Upon(r, x, d) = Upon(q, x, d)

LEMMA SameItself == \A q : SameWrites(q, q)
  BY DEF SameWrites

LEMMA SameAppend ==
  ASSUME NEW T, NEW q \in Seq(T), NEW m \in T, m.op # "put"
  PROVE  SameWrites(q, Append(q, m))
  BY UponAppend DEF SameWrites, IsWrite

LEMMA SameTail ==
  ASSUME NEW T, NEW q \in Seq(T), q # <<>>, Head(q).op # "put"
  PROVE  SameWrites(q, Tail(q))
  BY UponTail DEF SameWrites, IsWrite

\* The first message of a queue becomes the last one of the queue ahead.
LEMMA UponMoves ==
  ASSUME NEW T, NEW p \in Seq(T), NEW U, NEW q \in Seq(U), q # <<>>, Head(q) \in T
  PROVE  \A x, d : Upon(Tail(q), x, Upon(Append(p, Head(q)), x, d)) = Upon(q, x, Upon(p, x, d))
  <1> SUFFICES ASSUME NEW x, NEW d
               PROVE  Upon(Tail(q), x, Upon(Append(p, Head(q)), x, d)) = Upon(q, x, Upon(p, x, d))
    OBVIOUS
  <1>1. Upon(Append(p, Head(q)), x, d) =
           IF IsWrite(Head(q), x) THEN Head(q).value ELSE Upon(p, x, d)
    BY UponAppend
  <1>2. \A e : Upon(q, x, e) = Upon(Tail(q), x, IF IsWrite(Head(q), x) THEN Head(q).value ELSE e)
    BY UponTail
  <1>3. QED
    BY <1>1, <1>2

LEMMA UponOne ==
  ASSUME NEW T, NEW m \in T, NEW x, NEW d
  PROVE  Upon(<<m>>, x, d) = IF IsWrite(m, x) THEN m.value ELSE d
  <1>1. <<m>> \in Seq(T) /\ DOMAIN <<m>> = {1} /\ <<m>>[1] = m
    OBVIOUS
  <1>2. CASE IsWrite(m, x)
    <2>1. \A j \in DOMAIN <<m>> : j > 1 => ~ IsWrite(<<m>>[j], x)
      BY <1>1
    <2>2. Upon(<<m>>, x, d) = <<m>>[1].value
      BY <1>1, <1>2, <2>1, UponLast, ZenonT(60)
    <2>3. QED
      BY <1>1, <1>2, <2>2
  <1>3. CASE ~ IsWrite(m, x)
    BY <1>1, <1>3, UponNothing DEF NoWrite
  <1>4. QED
    BY <1>2, <1>3

\* The writes on their way to s: in its PPD, to its PPD, in its queue, in the
\* hands of the thread of c if W says that it has yet to visit s, and on c.
Hand(c, W) == IF W THEN <<worker[c].job>> ELSE <<>>
Arriving(s, c, x, d, W) ==
    Upon(requests[c], x, Upon(Hand(c, W), x,
         Upon(pending[s], x, Upon(toPpd[s], x, Upon(jobs[s], x, d)))))

\* The thread of c has yet to visit the founder s.
Reaches(c, s) ==
    \/ worker[c].pc = "walk" /\ Upto(worker[c].cursor, s)
    \/ worker[c].pc = "put" /\ (worker[c].cursor = s \/ Upto(worker[c].next, s))

\* The founder that was read from a link comes after the one that is visited.
NextAhead(c) ==
    worker[c].pc = "put" /\ Founder(worker[c].next) =>
        Upto(worker[c].cursor, worker[c].next) /\ worker[c].cursor # worker[c].next

\* The sectors whose jobs no PPD has executed out of order, or lost.
Clean == { x \in Sector : ~ Astray(x) }

LEMMA CleanShrinks ==
  ASSUME StraysStay
  PROVE  Clean' \subseteq Clean
  BY AstrayStays DEF Clean, Sector

LEMMA CleanSame ==
  ASSUME UNCHANGED nodeVars
  PROVE  Clean' \subseteq Clean
  BY StraysSame, CleanShrinks

Settled(s, c) ==
    /\ Len(disk[s]) = VolumeSectors
    /\ ~ Has(toPpd[s], {"syncPut"})
    /\ \A x \in Clean : Arriving(s, c, x, disk[s][x], Reaches(c, s)) = lastPut[x]

FoundersInv(c) == \A s \in Storage : Founder(s) /\ ppdStatus[s] = "running" => Settled(s, c)

\* Steps that neither bring a write nor take one.
LEMMA SettledKeeps ==
  ASSUME NEW s \in Storage, NEW c, Settled(s, c), UNCHANGED lastPut, disk'[s] = disk[s],
         SameWrites(jobs[s], jobs'[s]), SameWrites(toPpd[s], toPpd'[s]),
         SameWrites(pending[s], pending'[s]), SameWrites(requests[c], requests'[c]),
         SameWrites(Hand(c, Reaches(c, s)), Hand(c, Reaches(c, s))'),
         ~ Has(toPpd'[s], {"syncPut"}), Clean' \subseteq Clean
  PROVE  Settled(s, c)'
  <1>1. \A x \in Clean' : Arriving(s, c, x, disk[s][x], Reaches(c, s))' =
                          Arriving(s, c, x, disk[s][x], Reaches(c, s))
    BY DEF SameWrites, Arriving
  <1>2. QED
    BY <1>1 DEF Settled

\* A write moves on among the queues of s and of c.
LEMMA SettledMoves ==
  ASSUME NEW s \in Storage, NEW c, Settled(s, c), UNCHANGED lastPut, Len(disk'[s]) = VolumeSectors,
         \A x \in Clean' : Arriving(s, c, x, disk[s][x], Reaches(c, s))' =
                           Arriving(s, c, x, disk[s][x], Reaches(c, s)),
         ~ Has(toPpd'[s], {"syncPut"}), Clean' \subseteq Clean
  PROVE  Settled(s, c)'
  BY DEF Settled

LEMMA HandEmpty ==
  ASSUME NEW c
  PROVE  /\ \A s : worker[c].pc \notin {"walk", "put"} => Hand(c, Reaches(c, s)) = <<>>
         /\ \A s : worker'[c].pc \notin {"walk", "put"} => Hand(c, Reaches(c, s))' = <<>>
  BY DEF Hand, Reaches

LEMMA AcceptorSettles ==
  ASSUME IInv, NEW c \in Socket, Socket = {c}, FoundersListed, FoundersInv(c),
         NEW Quiet, Acceptor(Quiet), UNCHANGED <<nodeVars, clientVars>>
  PROVE  FoundersInv(c)'
  <1> USE DEF IInv, TypeOK
  <1> SUFFICES ASSUME NEW s \in Storage, Founder(s), ppdStatus'[s] = "running"
               PROVE  Settled(s, c)'
    BY DEF FoundersInv, Founder
  <1>1. ppdStatus[s] = "running"
    BY DEF FoundersListed, Acceptor, DenyPpd, AcceptPpd, AddPpd, ValidateReplication,
       StartReplication, FireSynchronization, AcceptPfs, NodeTypeOK
  <1>2. Settled(s, c) /\ toPpd[s] \in Seq(Message)
    BY <1>1 DEF FoundersInv, NetworkTypeOK
  <1>3. UNCHANGED <<pending, requests>>
    BY DEF Acceptor, DenyPpd, AcceptPpd, AddPpd, ValidateReplication,
       StartReplication, FireSynchronization, AcceptPfs
  <1>4. SameWrites(toPpd[s], toPpd'[s]) /\ ~ Has(toPpd'[s], {"syncPut"})
    <2>1. toPpd' = toPpd \/ \E d : \E op \in {"syncGet", "syncEnd"} : SendPpd(d, Sync(op, 0))
      BY DEF Acceptor, DenyPpd, AcceptPpd, AddPpd, ValidateReplication,
       StartReplication, FireSynchronization, AcceptPfs
    <2>2. CASE toPpd' = toPpd
      BY <1>2, <2>2, SameItself DEF Settled
    <2>3. ASSUME NEW d, NEW op \in {"syncGet", "syncEnd"}, SendPpd(d, Sync(op, 0))
          PROVE  SameWrites(toPpd[s], toPpd'[s]) /\ ~ Has(toPpd'[s], {"syncPut"})
      <3>1. PICK m \in Message : m = Sync(op, 0) /\ m.op \notin {"put", "syncPut"}
        BY InitialValues, SyncOp
      <3>2. toPpd'[s] = toPpd[s] \/ toPpd'[s] = Append(toPpd[s], m)
        BY <2>3, <3>1, SendPpdReaches
      <3>3. SameWrites(toPpd[s], Append(toPpd[s], m)) /\ ~ Has(Append(toPpd[s], m), {"syncPut"})
        BY <1>2, <3>1, SameAppend, HasAfterAppend DEF Settled
      <3>4. QED
        BY <1>2, <3>2, <3>3, SameItself DEF Settled
    <2>4. QED
      BY <2>1, <2>2, <2>3
  <1>5. SameWrites(Hand(c, Reaches(c, s)), Hand(c, Reaches(c, s))')
    <2>1. CASE worker' = worker
      <3>1. Hand(c, Reaches(c, s))' = Hand(c, Reaches(c, s))
        BY <2>1 DEF Hand, Reaches, Upto
      <3>2. QED
        BY <3>1, SameItself
    <2>2. CASE \E d \in Socket : AcceptPfs(d)
      <3>1. worker[c].pc = "off" /\ worker'[c].pc = "receive"
        BY <2>2 DEF AcceptPfs, WorkerLoops, WorkerMoves, WorkerAt, ThreadTypeOK
      <3>2. QED
        BY <3>1, HandEmpty, SameItself
    <2>3. QED
      BY <2>1, <2>2 DEF Acceptor, DenyPpd, AcceptPpd, AddPpd, ValidateReplication,
       StartReplication, FireSynchronization
  <1>6. QED
    BY <1>2, <1>3, <1>4, <1>5, SettledKeeps, SameItself, CleanSame

\* A worker reads the link of a node, and then gets past it.
LEMMA WalkSettles ==
  ASSUME IInv, NEW c \in Socket, FoundersListed, FoundersLinked, FoundersInv(c),
         IterateStorages(c), UNCHANGED <<nodeVars, clientVars>>,
         NEW s \in Storage, Founder(s), ppdStatus[s] = "running"
  PROVE  Settled(s, c)'
  <1> USE DEF IInv, TypeOK
  <1>1. PICK t \in Storage : t = worker[c].cursor
    BY DEF IterateStorages, ThreadsHoldJobs
  <1>2. /\ Settled(s, c) /\ UNCHANGED <<pending, toPpd, requests>>
        /\ worker[c].pc = "walk"
    BY DEF FoundersInv, IterateStorages
  <1>3. /\ worker'[c].pc = "put" /\ worker'[c].cursor = t /\ worker'[c].next = link[t]
        /\ worker'[c].job = worker[c].job
    BY <1>1 DEF IterateStorages, WorkerMoves, WorkerPuts, ThreadTypeOK
  <1>4. Upto(t, s) <=> t = s \/ Upto(link[t], s)
    <2>1. CASE t = s
      BY <2>1, UptoOrder
    <2>2. CASE t # s
      <3>1. Upto(t, s) => Upto(link[t], s)
        BY <2>2 DEF FoundersLinked
      <3>2. Upto(link[t], s) => Upto(t, s)
        BY UptoOrder DEF FoundersLinked
      <3>3. QED
        BY <2>2, <3>1, <3>2
    <2>3. QED
      BY <2>1, <2>2
  <1>5. Reaches(c, s)' <=> Reaches(c, s)
    BY <1>1, <1>2, <1>3, <1>4 DEF Reaches, Upto
  <1>6. Hand(c, Reaches(c, s))' = Hand(c, Reaches(c, s))
    BY <1>3, <1>5 DEF Hand
  <1>7. QED
    BY <1>2, <1>6, SettledKeeps, SameItself, CleanSame DEF Settled

LEMMA PutSettles ==
  ASSUME IInv, JobsInHand, NEW c \in Socket, NextAhead(c), FoundersInv(c),
         ExecutePut(c), UNCHANGED <<nodeVars, clientVars>>,
         NEW s \in Storage, Founder(s), ppdStatus[s] = "running"
  PROVE  Settled(s, c)'
  <1> USE DEF IInv, TypeOK
  <1>1. PICK t \in Storage : t = worker[c].cursor
    BY DEF ExecutePut, ThreadsHoldJobs
  <1>2. PICK job \in Job : job = worker[c].job /\ job.op = "put"
    BY DEF ExecutePut, ThreadsHoldJobs, JobsInHand, WorkerHolds
  <1>3. /\ Settled(s, c) /\ pending[s] \in Seq(Job) /\ toPpd' = toPpd /\ requests' = requests
        /\ worker[c].pc = "put"
    BY DEF FoundersInv, StorageTypeOK, ExecutePut
  <1>4. pending' = [pending EXCEPT ![t] = Append(@, job)]
    BY <1>1, <1>2 DEF ExecutePut
  <1>5. PICK n \in Storage \cup {Nil} : n = worker[c].next
    BY DEF ThreadTypeOK, WorkerState
  <1>6. \/ worker'[c].pc \notin {"walk", "put"} /\ n = Nil
        \/ worker'[c].pc = "walk" /\ worker'[c].cursor = n /\ worker'[c].job = job
    <2>1. CASE n = Nil
      BY <1>5, <2>1 DEF ExecutePut, WorkerLoops, WorkerMoves, WorkerAt, ThreadTypeOK
    <2>2. CASE n # Nil
      BY <1>2, <1>5, <2>2 DEF ExecutePut, WorkerMoves, WorkerAt, ThreadTypeOK
    <2>3. QED
      BY <2>1, <2>2
  <1>7. ~ Upto(Nil, s)
    BY PraidAssumption, UptoOrder
  <1>8. Reaches(c, s) <=> t = s \/ Upto(n, s)
    BY <1>1, <1>3, <1>5 DEF Reaches
  <1>9. Reaches(c, s)' <=> Upto(n, s)
    BY <1>6, <1>7 DEF Reaches, Upto
  <1>10. CASE t = s
    <2>1. ~ Upto(n, s)
      BY <1>1, <1>3, <1>5, <1>10, UptoOrder DEF NextAhead
    <2>2. Hand(c, Reaches(c, s)) = <<job>> /\ Hand(c, Reaches(c, s))' = <<>>
      BY <1>2, <1>8, <1>9, <1>10, <2>1 DEF Hand
    <2>3. pending'[s] = Append(pending[s], job)
      BY <1>4, <1>10 DEF StorageTypeOK
    <2>4. \A x, d : Upon(Hand(c, Reaches(c, s))', x, Upon(pending'[s], x, d)) =
                    Upon(Hand(c, Reaches(c, s)), x, Upon(pending[s], x, d))
      <3> SUFFICES ASSUME NEW x, NEW d
                   PROVE  Upon(<<>>, x, Upon(Append(pending[s], job), x, d)) =
                          Upon(<<job>>, x, Upon(pending[s], x, d))
        BY <2>2, <2>3
      <3>1. Upon(Append(pending[s], job), x, d) =
               IF IsWrite(job, x) THEN job.value ELSE Upon(pending[s], x, d)
        BY <1>3, UponAppend
      <3>2. QED
        BY <3>1, UponOne, UponEmpty
    <2>5. \A x \in Clean' : Arriving(s, c, x, disk[s][x], Reaches(c, s))' =
                            Arriving(s, c, x, disk[s][x], Reaches(c, s))
      BY <1>3, <2>4 DEF Arriving
    <2>6. QED
      BY <1>3, <2>5, SettledMoves, CleanSame DEF Settled
  <1>11. CASE t # s
    <2>1. pending'[s] = pending[s]
      BY <1>4, <1>11 DEF StorageTypeOK
    <2>2. Reaches(c, s)' => worker'[c].job = worker[c].job
      BY <1>2, <1>6, <1>7, <1>9
    <2>3. Hand(c, Reaches(c, s))' = Hand(c, Reaches(c, s))
      BY <1>8, <1>9, <1>11, <2>2 DEF Hand
    <2>4. QED
      BY <1>3, <2>1, <2>3, SettledKeeps, SameItself, CleanSame DEF Settled
  <1>12. QED
    BY <1>10, <1>11

\* A request taken from the connection: a write starts at the head of the list,
\* with every founder that runs ahead of it.
LEMMA ReceiveSettles ==
  ASSUME IInv, NEW c \in Socket, FoundersListed, FoundersInv(c),
         PfsReceive(c), UNCHANGED <<nodeVars, clientVars>>,
         NEW s \in Storage, Founder(s), ppdStatus[s] = "running"
  PROVE  Settled(s, c)'
  <1> USE DEF IInv, TypeOK
  <1>1. /\ Settled(s, c) /\ requests[c] \in Seq(Job) /\ requests[c] # <<>>
        /\ toPpd' = toPpd /\ pending' = pending
        /\ worker[c].pc = "receive"
        /\ requests'[c] = Tail(requests[c])
    BY DEF FoundersInv, NetworkTypeOK, PfsReceive
  <1>2. PICK job \in Job : job = Head(requests[c])
    BY <1>1, HeadAndTail
  <1>3. Hand(c, Reaches(c, s)) = <<>>
    BY <1>1, HandEmpty
  <1>4. CASE job.op = "get"
    <2>1. worker'[c].pc = "select"
      BY <1>2, <1>4 DEF PfsReceive, WorkerMoves, WorkerAt, ThreadTypeOK
    <2>2. Hand(c, Reaches(c, s))' = <<>>
      BY <2>1, HandEmpty
    <2>3. SameWrites(requests[c], requests'[c])
      BY <1>1, <1>2, <1>4, SameTail
    <2>4. QED
      BY <1>1, <1>3, <2>2, <2>3, SettledKeeps, SameItself, CleanSame DEF Settled
  <1>5. CASE job.op = "put"
    <2>1. PICK p \in DOMAIN storages : storages[p] = s
      BY DEF FoundersListed, Member, ToSet
    <2>2. /\ storages \in Seq(Storage) /\ DOMAIN storages = 1 .. Len(storages)
          /\ Len(storages) \in Nat
      BY LenProperties DEF StorageTypeOK
    <2>3. storages # <<>> /\ 1 \in DOMAIN storages /\ Head(storages) = storages[1]
      BY <2>1, <2>2
    <2>4. Upto(storages[1], s)
      <3>1. CASE p = 1
        BY <2>1, <3>1, UptoOrder
      <3>2. CASE p # 1
        <4>1. 1 < p
          BY <2>2, <3>2
        <4>2. QED
          BY <2>1, <2>3, <4>1 DEF FoundersListed
      <3>3. QED
        BY <3>1, <3>2
    <2>5. worker'[c].pc = "walk" /\ worker'[c].job = job /\ worker'[c].cursor = storages[1]
      BY <1>2, <1>5, <2>3 DEF PfsReceive, WorkerMoves, WorkerAt, ThreadTypeOK
    <2>6. Hand(c, Reaches(c, s))' = <<job>>
      BY <2>4, <2>5 DEF Hand, Reaches, Upto
    <2>7. \A x, d : Upon(requests'[c], x, Upon(Hand(c, Reaches(c, s))', x, d)) =
                    Upon(requests[c], x, Upon(Hand(c, Reaches(c, s)), x, d))
      <3> SUFFICES ASSUME NEW x, NEW d
                   PROVE  Upon(Tail(requests[c]), x, Upon(<<job>>, x, d)) =
                          Upon(requests[c], x, Upon(<<>>, x, d))
        BY <1>1, <1>3, <2>6
      <3>1. Upon(requests[c], x, d) =
               Upon(Tail(requests[c]), x, IF IsWrite(job, x) THEN job.value ELSE d)
        BY <1>1, <1>2, UponTail
      <3>2. QED
        BY <3>1, UponOne, UponEmpty
    <2>8. \A x \in Clean' : Arriving(s, c, x, disk[s][x], Reaches(c, s))' =
                            Arriving(s, c, x, disk[s][x], Reaches(c, s))
      BY <1>1, <2>7 DEF Arriving
    <2>9. QED
      BY <1>1, <2>8, SettledMoves, CleanSame DEF Settled
  <1>6. QED
    BY <1>4, <1>5 DEF Job

LEMMA WorkerSettles ==
  ASSUME IInv, JobsInHand, NEW c \in Socket, FoundersListed, FoundersLinked, NextAhead(c), FoundersInv(c),
         Worker(c), UNCHANGED <<nodeVars, clientVars>>
  PROVE  FoundersInv(c)'
  <1> USE DEF IInv, TypeOK
  <1>1. ppdStatus' = ppdStatus
    BY DEF Worker, PfsReceive, IterateStorages, ExecutePut, SelectForGet, EnqueueGet
  <1> SUFFICES ASSUME NEW s \in Storage, Founder(s), ppdStatus[s] = "running"
               PROVE  Settled(s, c)'
    BY <1>1 DEF FoundersInv, Founder
  <1>2. CASE PfsReceive(c)
    BY <1>2, ReceiveSettles
  <1>3. CASE IterateStorages(c) \/ ExecutePut(c)
    BY <1>3, WalkSettles, PutSettles
  <1>4. CASE SelectForGet(c) \/ EnqueueGet(c)
    <2>1. Settled(s, c) /\ UNCHANGED <<toPpd, requests>> /\ pending[s] \in Seq(Job)
      BY <1>4 DEF SelectForGet, EnqueueGet, FoundersInv, StorageTypeOK
    <2>2. worker[c].pc \notin {"walk", "put"} /\ worker'[c].pc \notin {"walk", "put"}
      BY <1>4 DEF SelectForGet, EnqueueGet, WorkerLoops, WorkerMoves, WorkerAt, ThreadTypeOK
    <2>3. SameWrites(pending[s], pending'[s])
      <3>1. CASE SelectForGet(c)
        BY <3>1, SameItself DEF SelectForGet
      <3>2. CASE EnqueueGet(c)
        <4>1. PICK job \in Job : job = worker[c].job /\ job.op = "get"
          BY <3>2 DEF EnqueueGet, ThreadsHoldJobs, JobsInHand, WorkerHolds
        <4>2. pending'[s] = pending[s] \/ pending'[s] = Append(pending[s], job)
          BY <3>2, <4>1 DEF EnqueueGet, QueueRead, StorageTypeOK
        <4>3. SameWrites(pending[s], Append(pending[s], job))
          BY <2>1, <4>1, SameAppend
        <4>4. QED
          BY <4>2, <4>3, SameItself
      <3>3. QED
        BY <1>4, <3>1, <3>2
    <2>4. QED
      BY <2>1, <2>2, <2>3, HandEmpty, SettledKeeps, SameItself, CleanSame DEF Settled
  <1>5. QED
    BY <1>2, <1>3, <1>4 DEF Worker

\* Nothing moves but what is on its way, and not at s.
LEMMA SettledUntouched ==
  ASSUME NEW s \in Storage, NEW c, Settled(s, c), UNCHANGED <<lastPut, worker, requests>>,
         disk'[s] = disk[s], jobs'[s] = jobs[s],
         SameWrites(toPpd[s], toPpd'[s]), SameWrites(pending[s], pending'[s]),
         ~ Has(toPpd'[s], {"syncPut"}), Clean' \subseteq Clean
  PROVE  Settled(s, c)'
  <1>1. Hand(c, Reaches(c, s))' = Hand(c, Reaches(c, s))
    BY DEF Hand, Reaches, Upto
  <1>2. QED
    BY <1>1, SettledKeeps, SameItself

LEMMA SenderSettles ==
  ASSUME IInv, NEW c \in Socket, FoundersInv(c), NEW t \in Storage, Sender(t),
         UNCHANGED <<nodeVars, clientVars>>
  PROVE  FoundersInv(c)'
  <1> USE DEF IInv, TypeOK
  <1>1. UNCHANGED <<ppdStatus, worker, requests>>
    BY DEF Sender, SenderCheck, SenderSend, SenderExit, SenderRecord, SenderCount
  <1> SUFFICES ASSUME NEW s \in Storage, Founder(s), ppdStatus[s] = "running"
               PROVE  Settled(s, c)'
    BY <1>1 DEF FoundersInv, Founder
  <1>2. Settled(s, c) /\ toPpd[s] \in Seq(Message) /\ pending[s] \in Seq(Job)
    BY DEF FoundersInv, NetworkTypeOK, StorageTypeOK
  <1>3. CASE ~ SenderSend(t)
    <2>1. UNCHANGED <<toPpd, pending>>
      BY <1>3 DEF Sender, SenderCheck, SenderExit, SenderRecord, SenderCount
    <2>2. QED
      BY <1>1, <1>2, <2>1, SettledUntouched, SameItself, CleanSame DEF Settled
  <1>4. CASE SenderSend(t) /\ t # s
    <2>1. toPpd'[s] = toPpd[s] /\ pending'[s] = pending[s]
      BY <1>4 DEF SenderSend, SendPpd, NetworkTypeOK, StorageTypeOK
    <2>2. QED
      BY <1>1, <1>2, <2>1, SettledUntouched, SameItself, CleanSame DEF Settled
  <1>5. CASE SenderSend(s)
    <2>1. pending[s] # <<>>
      BY <1>5 DEF SenderSend, ThreadsHoldJobs
    <2>2. Head(pending[s]) \in Job /\ Head(pending[s]) \in Message
      BY <1>2, <2>1, HeadAndTail DEF Message
    <2>3. toPpd'[s] = Append(toPpd[s], Head(pending[s])) /\ pending'[s] = Tail(pending[s])
      BY <1>5 DEF SenderSend, SendPpd, NetworkTypeOK, StorageTypeOK
    <2>4. \A x, d : Upon(pending'[s], x, Upon(toPpd'[s], x, d)) =
                    Upon(pending[s], x, Upon(toPpd[s], x, d))
      BY <1>2, <2>1, <2>2, <2>3, UponMoves
    <2>5. ~ Has(toPpd'[s], {"syncPut"})
      <3>1. Head(pending[s]).op \notin {"syncPut"}
        BY <2>2 DEF Job
      <3>2. QED
        BY <1>2, <2>2, <2>3, <3>1, HasAfterAppend DEF Settled
    <2>6. Hand(c, Reaches(c, s))' = Hand(c, Reaches(c, s))
      BY <1>1 DEF Hand, Reaches, Upto
    <2>7. \A x \in Clean' : Arriving(s, c, x, disk[s][x], Reaches(c, s))' =
                            Arriving(s, c, x, disk[s][x], Reaches(c, s))
      BY <1>1, <2>4, <2>6 DEF Arriving
    <2>8. QED
      BY <1>2, <2>5, <2>7, SettledMoves, CleanSame DEF Settled
  <1>6. QED
    BY <1>3, <1>4, <1>5

LEMMA ListenerSettles ==
  ASSUME IInv, JobsInHand, OrphansAreReads, NEW c \in Socket, FoundersListed, FoundersInv(c),
         NEW t \in Storage, Listener(t), UNCHANGED <<nodeVars, clientVars>>
  PROVE  FoundersInv(c)'
  <1> USE DEF IInv, TypeOK
  <1>1. UNCHANGED <<ppdStatus, worker>> /\ requests' = requests
    BY DEF Listener, ListenerResponse, ListenerReply, ListenerForget, ListenerSyncPut,
       ListenerSyncEnd, ListenerDisconnected, ProcessDisconnection, CollectRead,
       RemoveDisconnected, ChooseCandidate, AssignJob
  <1> SUFFICES ASSUME NEW s \in Storage, Founder(s), ppdStatus[s] = "running"
               PROVE  Settled(s, c)'
    BY <1>1 DEF FoundersInv, Founder
  <1>2. Settled(s, c) /\ toPpd[s] \in Seq(Message) /\ pending[s] \in Seq(Job)
    BY DEF FoundersInv, NetworkTypeOK, StorageTypeOK
  <1>3. toPpd'[s] = toPpd[s]
    <2>1. toPpd' = toPpd \/ \E m : SendPpd(syncState.destiny, m)
      BY DEF Listener, ListenerResponse, ListenerReply, ListenerForget, ListenerSyncPut,
         ListenerSyncEnd, ListenerDisconnected, ProcessDisconnection, CollectRead,
         RemoveDisconnected, ChooseCandidate, AssignJob
    <2>2. syncState.destiny # s
      BY DEF FoundersListed
    <2>3. QED
      BY <2>1, <2>2 DEF SendPpd, NetworkTypeOK
  <1>4. SameWrites(pending[s], pending'[s])
    <2>1. CASE AssignJob(t)
      <3>1. listener[t].orphans \in Seq(Job) /\ listener[t].orphans # <<>>
        BY <2>1, ThreadFields DEF AssignJob, ThreadsHoldJobs
      <3>2. PICK job \in Job : job = Head(listener[t].orphans)
        BY <3>1, HeadAndTail
      <3>3. job.op = "get"
        BY <3>1, <3>2, TailAt DEF OrphansAreReads
      <3>4. pending'[s] = pending[s] \/ pending'[s] = Append(pending[s], job)
        BY <2>1, <3>2 DEF AssignJob, QueueRead, StorageTypeOK
      <3>5. SameWrites(pending[s], Append(pending[s], job))
        BY <1>2, <3>3, SameAppend
      <3>6. QED
        BY <3>4, <3>5, SameItself
    <2>2. CASE ~ AssignJob(t)
      <3>1. pending' = pending
        BY <2>2 DEF Listener, ListenerResponse, ListenerReply, ListenerForget, ListenerSyncPut,
           ListenerSyncEnd, ListenerDisconnected, ProcessDisconnection, CollectRead,
           RemoveDisconnected, ChooseCandidate
      <3>2. QED
        BY <3>1, SameItself
    <2>3. QED
      BY <2>1, <2>2
  <1>5. QED
    BY <1>1, <1>2, <1>3, <1>4, SettledUntouched, SameItself, CleanSame DEF Settled

\* A job is executed: a write reaches the disk, before any other of its sector.
LEMMA ExecuteSettles ==
  ASSUME IInv, NEW c \in Socket, NEW s \in Storage, Settled(s, c), NodeExecute(s), UNCHANGED clientVars,
         ppdStatus'[s] = "running"
  PROVE  Settled(s, c)'
  <1> USE DEF IInv, TypeOK
  <1>1. PICK i \in DOMAIN jobs[s] : Executable(s, i) /\ Executes(s, i)
    BY DEF NodeExecute
  <1>2. jobs[s] \in Seq(Job) /\ disk[s] \in Seq(Value) /\ DOMAIN disk[s] = 1 .. Len(disk[s])
    BY LenProperties DEF NodeTypeOK
  <1>3. PICK job \in Job : job = jobs[s][i]
    BY <1>2, ElementOfSeq
  <1>4. mapped[s] /\ job.sector \in DOMAIN disk[s]
    <2>1. ~ Ends(s)
      BY DEF Ends, NodeTypeOK
    <2>2. QED
      BY <1>1, <1>3, <2>1 DEF Executes
  <1>5. /\ jobs'[s] = RemoveAt(jobs[s], i)
        /\ toPpd' = toPpd /\ UNCHANGED <<worker, requests, pending>>
    BY <1>1, <1>3, <1>4 DEF Executes, NodeExecute, NodeTypeOK
  <1>6. PICK r \in Seq(Job) : r = jobs'[s] /\ Without(jobs[s], r, i)
    BY <1>2, <1>5, RemoveAtWithout
  <1>7. \A j \in 1 .. i - 1 : ~ IsWrite(jobs[s][j], job.sector)
    BY <1>1, <1>3 DEF Executable, IsWrite
  <1>8. Hand(c, Reaches(c, s))' = Hand(c, Reaches(c, s))
    BY <1>5 DEF Hand, Reaches, Upto
  <1>12. Clean' \subseteq Clean /\ Clean' \subseteq Sector
    BY CleanShrinks DEF NodeExecute, StraysStay, Clean, Sector
  <1>9. CASE job.op = "put"
    <2>1. disk'[s] = [disk[s] EXCEPT ![job.sector] = job.value]
      BY <1>1, <1>3, <1>4, <1>9 DEF Executes, NodeTypeOK
    <2>2. Len(disk'[s]) = Len(disk[s]) /\ DOMAIN disk'[s] = DOMAIN disk[s]
      BY <1>2, <1>4, <2>1, ExceptSeq, LenProperties
    <2>3. ASSUME NEW x \in Sector
          PROVE  Upon(jobs'[s], x, disk'[s][x]) = Upon(jobs[s], x, disk[s][x])
      <3>1. x \in DOMAIN disk[s]
        BY <1>2, PraidAssumption DEF Sector, Settled
      <3>2. CASE x = job.sector
        <4>1. IsWrite(jobs[s][i], x) /\ disk'[s][x] = job.value
          BY <1>3, <1>9, <2>1, <3>1, <3>2 DEF IsWrite
        <4>2. \A j \in 1 .. i - 1 : ~ IsWrite(jobs[s][j], x)
          BY <1>7, <3>2
        <4>3. Upon(jobs[s], x, disk[s][x]) =
                 Upon(r, x, IF IsWrite(jobs[s][i], x) THEN jobs[s][i].value ELSE disk[s][x])
          BY <1>2, <1>6, <4>2, UponWithout
        <4>4. QED
          BY <1>3, <1>6, <4>1, <4>3
      <3>3. CASE x # job.sector
        <4>1. ~ IsWrite(jobs[s][i], x) /\ disk'[s][x] = disk[s][x]
          BY <1>3, <2>1, <3>1, <3>3 DEF IsWrite
        <4>2. Upon(jobs[s], x, disk[s][x]) = Upon(r, x, disk[s][x])
          BY <1>2, <1>6, <4>1, UponSkip
        <4>3. QED
          BY <1>6, <4>1, <4>2
      <3>4. QED
        BY <3>2, <3>3
    <2>4. \A x \in Clean' : Arriving(s, c, x, disk[s][x], Reaches(c, s))' =
                            Arriving(s, c, x, disk[s][x], Reaches(c, s))
      BY <1>5, <1>8, <1>12, <2>3 DEF Arriving
    <2>5. QED
      BY <1>5, <1>12, <2>2, <2>4, SettledMoves DEF Settled
  <1>10. CASE job.op # "put"
    <2>1. disk' = disk
      BY <1>1, <1>3, <1>4, <1>10 DEF Executes
    <2>2. \A x, d : Upon(jobs'[s], x, d) = Upon(jobs[s], x, d)
      <3>1. \A x : ~ IsWrite(jobs[s][i], x)
        BY <1>3, <1>10 DEF IsWrite
      <3>2. QED
        BY <1>2, <1>6, <3>1, UponSkip
    <2>3. SameWrites(jobs[s], jobs'[s])
      BY <2>2 DEF SameWrites
    <2>4. QED
      BY <1>5, <1>8, <1>12, <2>1, <2>3, SettledKeeps, SameItself DEF Settled
  <1>11. QED
    BY <1>9, <1>10

LEMMA NodeStrays == NodeStep => StraysStay
  <1> SUFFICES ASSUME NEW t \in Storage, Node(t) \/ NodeLosesJob(t) \/ NodeDies(t)
               PROVE  StraysStay
    BY DEF NodeStep
  <1>1. CASE NodeQueueJob(t)
    BY <1>1 DEF NodeQueueJob, QueueInOrder, Misplace, StraysStay
  <1>2. CASE ~ NodeQueueJob(t)
    BY <1>2 DEF Node, NodeLosesJob, NodeSyncGet, NodeStream, NodeUnmap, NodeStreamEnd, NodeSyncPut,
       NodeSyncEnd, NodeExecute, NodeLosesJob, NodeDies, StraysStay
  <1>3. QED
    BY <1>1, <1>2

\* To the sectors that stay clean it does not matter where a job was put.
LEMMA QueuedUpon ==
  ASSUME IInv, NEW s \in Storage, NodeQueueJob(s), NEW x \in Clean'
  PROVE  \A d : Upon(jobs'[s], x, d) = Upon(Append(jobs[s], Head(toPpd[s])), x, d)
  <1>1. PICK job \in Job, k \in Nat :
            /\ job = Head(toPpd[s])
            /\ jobs[s] \in Seq(Job) /\ jobs'[s] \in Seq(Job)
            /\ Without(jobs'[s], jobs[s], k) /\ jobs'[s][k] = job
            /\ jobs'[s] = Append(jobs[s], job) \/ job.sector \in misplaced'
    BY QueuedJob
  <1>2. CASE jobs'[s] = Append(jobs[s], job)
    BY <1>1, <1>2
  <1>3. CASE job.sector \in misplaced'
    <2>1. job.sector # x
      BY <1>3 DEF Clean, Astray
    <2>2. ~ IsWrite(job, x)
      BY <2>1 DEF IsWrite
    <2> DEFINE r == jobs'[s]
    <2>3. r \in Seq(Job) /\ Without(r, jobs[s], k) /\ ~ IsWrite(r[k], x)
      BY <1>1, <2>2
    <2> HIDE DEF r
    <2>4. \A d : Upon(r, x, d) = Upon(jobs[s], x, d)
      BY <1>1, <2>3, UponSkip
    <2>5. \A d : Upon(Append(jobs[s], job), x, d) = Upon(jobs[s], x, d)
      BY <1>1, <2>2, UponAppend
    <2>6. QED
      BY <1>1, <2>4, <2>5 DEF r
  <1>4. QED
    BY <1>1, <1>2, <1>3

\* Nor which jobs the list loses.
LEMMA LostUpon ==
  ASSUME IInv, NEW s \in Storage, NodeLosesJob(s), NEW x \in Clean'
  PROVE  \A d : Upon(jobs'[s], x, d) = Upon(jobs[s], x, d)
  <1>1. PICK job \in Job, i \in DOMAIN jobs[s] :
            /\ job = jobs[s][i]
            /\ jobs[s] \in Seq(Job) /\ jobs'[s] \in Seq(Job)
            /\ Without(jobs[s], jobs'[s], i)
            /\ dropped' = dropped \cup {job.sector}
    BY LostJob
  <1>2. ~ IsWrite(jobs[s][i], x)
    BY <1>1 DEF Clean, Astray, IsWrite
  <1> DEFINE r == jobs'[s]
  <1>3. r \in Seq(Job) /\ Without(jobs[s], r, i)
    BY <1>1
  <1> HIDE DEF r
  <1>4. \A d : Upon(jobs[s], x, d) = Upon(r, x, d)
    BY <1>1, <1>2, <1>3, UponSkip
  <1>5. QED
    BY <1>4 DEF r

LEMMA NodeSettles ==
  ASSUME IInv, NEW c \in Socket, FoundersListed, FoundersInv(c), NodeStep
  PROVE  FoundersInv(c)'
  <1> USE DEF IInv, TypeOK
  <1>1. PICK t \in Storage : NodeWorks(t) \/ NodeDies(t)
    BY DEF NodeStep, NodeWorks
  <1>2. UNCHANGED <<worker, requests, lastPut, pending>> /\ ppdStatus[t] = "running"
    BY <1>1 DEF NodeStep, NodeWorks, NodeLosesJob, Node, NodeQueueJob, NodeSyncGet, NodeStream,
       NodeUnmap, NodeStreamEnd, NodeSyncPut, NodeSyncEnd, NodeExecute, NodeLosesJob, NodeDies, Takes
  <1> SUFFICES ASSUME NEW s \in Storage, Founder(s), ppdStatus'[s] = "running"
               PROVE  Settled(s, c)'
    BY DEF FoundersInv, Founder
  <1>6. Clean' \subseteq Clean /\ Clean' \subseteq Sector
    BY NodeStrays, CleanShrinks DEF Clean, Sector
  <1>3. CASE t # s
    <2>1. /\ ppdStatus'[s] = ppdStatus[s] /\ disk'[s] = disk[s] /\ jobs'[s] = jobs[s]
          /\ toPpd'[s] = toPpd[s]
      <3>1. CASE NodeExecute(t)
        <4>1. PICK i \in DOMAIN jobs[t] : Executes(t, i)
          BY <3>1 DEF NodeExecute
        <4>2. QED
          BY <1>3, <4>1, SMTT(60) DEF Executes, Ends, NodeTypeOK, NetworkTypeOK
      <3>2. CASE ~ NodeExecute(t)
        BY <1>1, <1>3, <3>2 DEF NodeWorks, NodeLosesJob, Node, NodeQueueJob, QueueInOrder, Misplace, NodeSyncGet, NodeStream, NodeUnmap,
           NodeStreamEnd, NodeSyncPut, NodeSyncEnd, NodeDies, Ends, Takes, NodeTypeOK,
           NetworkTypeOK
      <3>3. QED
        BY <3>1, <3>2
    <2>2. Settled(s, c)
      BY <2>1 DEF FoundersInv
    <2>3. QED
      BY <1>2, <1>6, <2>1, <2>2, SettledUntouched, SameItself DEF Settled
  <1>4. CASE t = s
    <2>1. Settled(s, c) /\ ~ Ends(s)
      BY <1>2, <1>4 DEF FoundersInv, Ends, NodeTypeOK
    <2>2. CASE NodeExecute(s)
      BY <2>1, <2>2, ExecuteSettles DEF NodeStep
    <2>3. CASE NodeQueueJob(s)
      <3>1. /\ toPpd[s] \in Seq(Message) /\ toPpd[s] # <<>> /\ jobs[s] \in Seq(Job)
            /\ Head(toPpd[s]) \in Message /\ Head(toPpd[s]).op \in {"get", "put"}
            /\ toPpd'[s] = Tail(toPpd[s])
        BY <2>3, TakesTail DEF NodeQueueJob, NodeTypeOK
      <3>2. Head(toPpd[s]) \in Job
        BY <3>1 DEF Message, SyncMessage
      <3>3. /\ disk' = disk
            /\ \A x \in Clean' : \A d : Upon(jobs'[s], x, d) = Upon(Append(jobs[s], Head(toPpd[s])), x, d)
        BY <2>3, QueuedUpon DEF NodeQueueJob
      <3>4. \A x \in Clean' : \A d : Upon(toPpd'[s], x, Upon(jobs'[s], x, d)) =
                                 Upon(toPpd[s], x, Upon(jobs[s], x, d))
        BY <3>1, <3>2, <3>3, UponMoves
      <3>5. Hand(c, Reaches(c, s))' = Hand(c, Reaches(c, s))
        BY <1>2 DEF Hand, Reaches, Upto
      <3>6. \A x \in Clean' : Arriving(s, c, x, disk[s][x], Reaches(c, s))' =
                              Arriving(s, c, x, disk[s][x], Reaches(c, s))
        BY <1>2, <3>3, <3>4, <3>5 DEF Arriving
      <3>7. ~ Has(toPpd'[s], {"syncPut"})
        BY <2>1, <3>1, HasTail DEF Settled
      <3>8. QED
        BY <1>2, <1>6, <2>1, <3>3, <3>6, <3>7, SettledMoves DEF Settled
    <2>4. CASE NodeSyncGet(s) \/ NodeSyncEnd(s)
      <3>1. \E ops : Takes(s, ops) /\ ops \in {{"syncGet"}, {"syncEnd"}}
        BY <2>1, <2>4 DEF NodeSyncGet, NodeSyncEnd
      <3>2. /\ toPpd[s] \in Seq(Message) /\ toPpd[s] # <<>>
            /\ Head(toPpd[s]).op # "put" /\ toPpd'[s] = Tail(toPpd[s])
        BY <3>1, TakesTail
      <3>3. SameWrites(toPpd[s], toPpd'[s]) /\ ~ Has(toPpd'[s], {"syncPut"})
        BY <2>1, <3>2, SameTail, HasTail DEF Settled
      <3>4. UNCHANGED <<disk, jobs>>
        BY <2>1, <2>4 DEF NodeSyncGet, NodeSyncEnd
      <3>5. QED
        BY <1>2, <1>6, <2>1, <3>3, <3>4, SettledUntouched, SameItself
    <2>5. CASE NodeStream(s) \/ NodeUnmap(s) \/ NodeStreamEnd(s)
      <3>1. UNCHANGED <<disk, jobs, toPpd>>
        BY <2>5 DEF NodeStream, NodeUnmap, NodeStreamEnd
      <3>2. QED
        BY <1>2, <1>6, <2>1, <3>1, SettledUntouched, SameItself DEF Settled
    <2>6. ~ NodeSyncPut(s)
      <3> SUFFICES ASSUME NodeSyncPut(s) PROVE FALSE
        OBVIOUS
      <3>1. toPpd[s] \in Seq(Message) /\ toPpd[s] # <<>> /\ Head(toPpd[s]).op = "syncPut"
        BY TakesTail DEF NodeSyncPut
      <3>2. 1 \in DOMAIN toPpd[s] /\ toPpd[s][1].op = "syncPut"
        BY <3>1, TailAt
      <3>3. QED
        BY <2>1, <3>2 DEF Settled, Has
    <2>7. ~ NodeDies(s)
      BY <2>1 DEF NodeDies
    <2>8. CASE NodeLosesJob(s)
      <3>1. UNCHANGED <<disk, toPpd>>
        BY <2>8 DEF NodeLosesJob
      <3>2. Hand(c, Reaches(c, s))' = Hand(c, Reaches(c, s))
        BY <1>2 DEF Hand, Reaches, Upto
      <3>3. \A x \in Clean' : Arriving(s, c, x, disk[s][x], Reaches(c, s))' =
                              Arriving(s, c, x, disk[s][x], Reaches(c, s))
        BY <1>2, <2>8, <3>1, <3>2, LostUpon DEF Arriving
      <3>4. QED
        BY <1>2, <1>6, <2>1, <3>1, <3>3, SettledMoves DEF Settled
    <2>9. QED
      BY <1>1, <1>4, <2>2, <2>3, <2>4, <2>5, <2>6, <2>7, <2>8 DEF NodeWorks, Node
  <1>5. QED
    BY <1>3, <1>4

LEMMA ClientSettles ==
  ASSUME IInv, NEW c \in Socket, Socket = {c}, FoundersInv(c), ClientStep
  PROVE  FoundersInv(c)'
  <1> USE DEF IInv, TypeOK
  <1>1. UNCHANGED <<ppdStatus, worker, disk, jobs, toPpd, pending>>
    BY DEF ClientStep, ClientGet, ClientPut, ClientReceive
  <1> SUFFICES ASSUME NEW s \in Storage, Founder(s), ppdStatus[s] = "running"
               PROVE  Settled(s, c)'
    BY <1>1 DEF FoundersInv, Founder
  <1>2. Settled(s, c) /\ requests[c] \in Seq(Job)
    BY DEF FoundersInv, NetworkTypeOK
  <1>8. Clean' \subseteq Clean /\ Clean' \subseteq Sector
    BY CleanSame DEF ClientStep, ClientGet, ClientPut, ClientReceive, Clean, Sector
  <1>3. Hand(c, Reaches(c, s))' = Hand(c, Reaches(c, s))
    BY <1>1 DEF Hand, Reaches, Upto
  <1>4. CASE ClientReceive(c)
    <2>1. UNCHANGED <<requests, lastPut>>
      BY <1>4 DEF ClientReceive
    <2>2. QED
      BY <1>1, <1>2, <1>8, <2>1, SettledUntouched, SameItself DEF Settled
  <1>5. ASSUME NEW x \in Sector, ClientGet(c, x)
        PROVE  Settled(s, c)'
    <2>1. PICK job \in Job : /\ job = [op |-> "get", socket |-> c, sector |-> x, value |-> 0]
                             /\ requests'[c] = Append(requests[c], job)
      BY <1>5, InitialValues DEF ClientGet, NetworkTypeOK, Job
    <2>2. SameWrites(requests[c], requests'[c])
      BY <1>2, <2>1, SameAppend
    <2>3. lastPut' = lastPut
      BY <1>5 DEF ClientGet
    <2>4. QED
      BY <1>1, <1>2, <1>3, <1>8, <2>2, <2>3, SettledKeeps, SameItself DEF Settled
  <1>6. ASSUME NEW x \in Sector, ClientPut(c, x)
        PROVE  Settled(s, c)'
    <2>1. PICK job \in Job : /\ job = [op |-> "put", socket |-> c, sector |-> x, value |-> puts + 1]
                             /\ requests'[c] = Append(requests[c], job)
      <3>1. puts + 1 \in Value
        BY <1>6, PraidAssumption DEF ClientPut, Value, Stale, ClientTypeOK
      <3>2. [op |-> "put", socket |-> c, sector |-> x, value |-> puts + 1] \in Job
        BY <3>1 DEF Job
      <3>3. QED
        BY <1>6, <3>2 DEF ClientPut, NetworkTypeOK
    <2>2. ASSUME NEW y \in Clean'
          PROVE  Arriving(s, c, y, disk[s][y], Reaches(c, s))' = lastPut'[y]
      <3>1. \A d : Upon(requests'[c], y, d) = IF IsWrite(job, y) THEN job.value
                                              ELSE Upon(requests[c], y, d)
        BY <1>2, <2>1, UponAppend
      <3>2. Arriving(s, c, y, disk[s][y], Reaches(c, s))' =
               IF IsWrite(job, y) THEN job.value ELSE Arriving(s, c, y, disk[s][y], Reaches(c, s))
        BY <1>1, <1>3, <3>1 DEF Arriving
      <3>3. lastPut'[y] = IF y = x THEN puts + 1 ELSE lastPut[y]
        BY <1>6, <1>8 DEF ClientPut, ClientTypeOK
      <3>4. QED
        BY <1>2, <1>8, <2>1, <3>2, <3>3 DEF IsWrite, Settled
    <2>3. QED
      BY <1>1, <1>2, <2>2 DEF Settled
  <1>7. QED
    BY <1>4, <1>5, <1>6 DEF ClientStep

LEMMA SettledStep ==
  ASSUME IInv, JobsInHand, OrphansAreReads, NEW c, Socket = {c}, FoundersListed, FoundersLinked,
         NextAhead(c), FoundersInv(c), [Next]_vars
  PROVE  FoundersInv(c)'
  <1>1. CASE UNCHANGED vars
    <2>1. \A s \in Storage : Settled(s, c)' <=> Settled(s, c)
      BY <1>1 DEF vars, Settled, Clean, Astray, Sector, Has, Arriving, Hand, Reaches, Upto
    <2>2. QED
      BY <1>1, <2>1 DEF vars, FoundersInv, Founder
  <1>2. CASE PraidStep
    BY <1>2, AcceptorSettles, WorkerSettles, SenderSettles, ListenerSettles DEF PraidStep
  <1>3. CASE NodeStep
    BY <1>3, NodeSettles
  <1>4. CASE ClientStep
    BY <1>4, ClientSettles
  <1>5. QED
    BY <1>1, <1>2, <1>3, <1>4 DEF Next

LEMMA SettledInit == ASSUME NEW c \in Socket, Init PROVE FoundersInv(c) /\ OrphansAreReads
  <1> USE DEF Init, InitPraid, InitNode, InitClient
  <1>1. OrphansAreReads
    BY DEF OrphansAreReads, ListenerAt
  <1>2. ASSUME NEW s \in Storage, Founder(s)
        PROVE  Settled(s, c)
    <2>1. disk[s] = Volume(0) /\ Len(disk[s]) = VolumeSectors
      BY <1>2, PraidAssumption DEF Founder, Volume, Sector
    <2>2. /\ requests[c] = <<>> /\ Hand(c, Reaches(c, s)) = <<>> /\ pending[s] = <<>>
          /\ toPpd[s] = <<>> /\ jobs[s] = <<>>
      BY HandEmpty DEF WorkerAt
    <2>3. \A x \in Clean : Arriving(s, c, x, disk[s][x], Reaches(c, s)) = lastPut[x]
      BY <2>1, <2>2, UponEmpty DEF Arriving, Volume, Clean
    <2>4. QED
      BY <2>1, <2>2, <2>3, HasNothing DEF Settled
  <1>3. QED
    BY <1>1, <1>2 DEF FoundersInv

LEMMA NextAheadStep ==
  ASSUME IInv, FoundersLinked, NEW c \in Socket, NextAhead(c), [Next]_vars
  PROVE  NextAhead(c)'
  <1> USE DEF IInv, TypeOK
  <1>1. CASE IterateStorages(c)
    <2>1. PICK t \in Storage : t = worker[c].cursor
      BY <1>1 DEF IterateStorages, ThreadsHoldJobs
    <2>2. worker'[c].cursor = t /\ worker'[c].next = link[t]
      BY <1>1, <2>1 DEF IterateStorages, WorkerMoves, WorkerPuts, ThreadTypeOK
    <2>3. QED
      BY <2>2 DEF NextAhead, FoundersLinked, Founder, Upto
  <1>2. CASE worker'[c] = worker[c]
    BY <1>2 DEF NextAhead, Founder, Upto
  <1>3. CASE worker'[c].pc # "put"
    BY <1>3 DEF NextAhead
  <1>4. QED
    <2>1. CASE PraidStep
      <3>1. CASE \E d \in Socket : Worker(d) \/ AcceptPfs(d)
        BY <1>1, <1>2, <1>3, <3>1 DEF Worker, PfsReceive, IterateStorages, ExecutePut, SelectForGet, EnqueueGet,
           AcceptPfs, WorkerLoops, WorkerMoves, WorkerAt, ThreadTypeOK
      <3>2. CASE worker' = worker
        BY <1>2, <3>2
      <3>3. QED
        BY <2>1, <3>1, <3>2 DEF PraidStep, Acceptor, DenyPpd, AcceptPpd, AddPpd, ValidateReplication,
           StartReplication, FireSynchronization, Sender, SenderCheck, SenderSend, SenderExit,
           SenderRecord, SenderCount, Listener, ListenerResponse, ListenerReply, ListenerForget,
           ListenerSyncPut, ListenerSyncEnd, ListenerDisconnected, ProcessDisconnection, CollectRead,
           RemoveDisconnected, ChooseCandidate, AssignJob
    <2>2. CASE NodeStep
      BY <1>2, <2>2 DEF NodeStep, Node, NodeQueueJob, NodeSyncGet, NodeStream, NodeUnmap, NodeStreamEnd,
         NodeSyncPut, NodeSyncEnd, NodeExecute, NodeLosesJob, NodeDies
    <2>3. CASE ClientStep \/ UNCHANGED vars
      BY <1>2, <2>3 DEF ClientStep, ClientGet, ClientPut, ClientReceive, vars
    <2>4. QED
      BY <2>1, <2>2, <2>3 DEF Next

FoundersServed(c) ==
    OrphansAreReads /\ FoundersListed /\ FoundersLinked /\ NextAhead(c) /\ FoundersInv(c)

\* With one PFS connection, for every sector that is not astray the last write of a PPD that was
\* listed from the start and runs, over its volume, its queues, the messages to
\* it, the hand of the PFS thread that still has to reach it
\* (praid_pfs_entrypoint_executePutSector), and the requests, is the last write
\* made by the client, whatever joins and ends, and whenever.
THEOREM RaidFounders == ASSUME NEW c, Socket = {c} PROVE Spec => []FoundersServed(c)
  <1>1. Init => FoundersServed(c)
    <2> SUFFICES ASSUME Init PROVE NextAhead(c)
      BY ListInit, SettledInit DEF FoundersServed
    <2>1. c \in Socket
      OBVIOUS
    <2>2. worker[c].pc # "put"
      BY <2>1 DEF Init, InitPraid, WorkerAt
    <2>3. QED
      BY <2>2 DEF NextAhead
  <1>2. IInv /\ JobsInHand /\ AllEnded /\ FoundersServed(c) /\ [Next]_vars => FoundersServed(c)'
    BY OrphansStep, ListStep, NextAheadStep, SettledStep DEF FoundersServed
  <1>3. Spec => []JobsInHand
    BY RaidReads, PTL
  <1>4. Spec => []AllEnded
    BY RaidRecovery, PTL
  <1>5. QED
    BY <1>1, <1>2, <1>3, <1>4, RaidInvariant, PTL DEF Spec

\* Once the writes of c are distributed those on their way to s are in the queue
\* of its PPD, on the connection to it and in pendingJobs.
LEMMA ArrivingSettles ==
  ASSUME TypeOK, NEW c \in Socket, requests[c] = <<>>, NEW W, Hand(c, W) = <<>>,
         NEW s \in Storage, NEW x
  PROVE  Arriving(s, c, x, disk[s][x], W) = SettledValue(s, x)
  <1> USE DEF TypeOK
  <1>1. /\ jobs[s] \in Seq(Message) /\ toPpd[s] \in Seq(Message) /\ pending[s] \in Seq(Message)
    BY JobsAreMessages DEF NodeTypeOK, NetworkTypeOK, StorageTypeOK
  <1> DEFINE a == jobs[s]
             b == toPpd[s]
             p == pending[s]
             d == disk[s][x]
  <1>2. a \in Seq(Message) /\ b \in Seq(Message) /\ p \in Seq(Message)
    BY <1>1
  <1>3. SettledValue(s, x) = Upon((a \o b) \o p, x, d)
    BY DEF SettledValue, Upon
  <1>4. Arriving(s, c, x, disk[s][x], W) = Upon(p, x, Upon(b, x, Upon(a, x, d)))
    BY UponEmpty DEF Arriving
  <1> HIDE DEF a, b, p, d
  <1>5. PICK q \in Seq(Message) : q = a \o b
    BY <1>2, ConcatProperties
  <1>6. Upon(q \o p, x, d) = Upon(p, x, Upon(q, x, d))
    BY <1>2, UponConcat
  <1>7. Upon(a \o b, x, d) = Upon(b, x, Upon(a, x, d))
    BY <1>2, UponConcat
  <1>8. QED
    BY <1>3, <1>4, <1>5, <1>6, <1>7

\* With one PFS connection in use every PPD of the first ones that still runs
\* ends with the last write of every sector that is not astray: the iteration over the list misses
\* none of them and visits none twice, although the list changes under it and it
\* holds no lock (praid_pfs_entrypoint_executePutSector).
THEOREM RaidFoundersHoldLastWrite ==
  ASSUME NEW c, Socket = {c} PROVE Spec => []FoundersHoldLastWrite
  <1>1. IInv /\ FoundersServed(c) => FoundersHoldLastWrite
    <2> SUFFICES ASSUME IInv, FoundersServed(c), Distributed, NEW s \in ToSet(InitialStorages),
                        ppdStatus[s] = "running", NEW x \in Sector
                 PROVE  x \in DOMAIN disk[s] /\ (Astray(x) \/ SettledValue(s, x) = lastPut[x])
      BY DEF FoundersHoldLastWrite, HoldsLastWrites
    <2>1. c \in Socket /\ s \in Storage /\ Founder(s)
      BY UptoOrder DEF Founder
    <2>2. Settled(s, c)
      BY <2>1 DEF FoundersServed, FoundersInv
    <2>3. requests[c] = <<>> /\ Hand(c, Reaches(c, s)) = <<>>
      BY <2>1, HandEmpty DEF Distributed
    <2>4. x \in Clean => SettledValue(s, x) = lastPut[x]
      BY <2>1, <2>2, <2>3, ArrivingSettles DEF IInv, Settled
    <2>5. disk[s] \in Seq(Value) /\ DOMAIN disk[s] = 1 .. VolumeSectors
      BY <2>1, <2>2, LenProperties DEF IInv, TypeOK, NodeTypeOK, Settled
    <2>6. QED
      BY <2>4, <2>5 DEF Sector, Clean
  <1>2. QED
    BY <1>1, RaidInvariant, RaidFounders, PTL

-----------------------------------------------------------------------------
(* The list and the walk over it, while no PPD has ended.                   *)

\* s is t or comes after it; the thread of c has yet to visit s.
Ahead(t, s) == \E i, j \in DOMAIN storages : i <= j /\ storages[i] = t /\ storages[j] = s
Visits(c, s) ==
    \/ worker[c].pc = "walk" /\ Ahead(worker[c].cursor, s)
    \/ worker[c].pc = "put" /\ (worker[c].cursor = s \/ Ahead(worker[c].next, s))

\* The walk stands on the list, and so does the link it has read.
Walking(c) ==
    /\ worker[c].pc \in {"walk", "put"} => Member(worker[c].cursor)
    /\ worker[c].pc = "put" /\ worker[c].next # Nil =>
          Ahead(worker[c].cursor, worker[c].next) /\ worker[c].cursor # worker[c].next

ListOrder ==
    /\ \A i, j \in DOMAIN storages : storages[i] = storages[j] => i = j
    /\ \A i \in DOMAIN storages :
          link[storages[i]] = IF i = Len(storages) THEN Nil ELSE storages[i + 1]
    /\ \A c \in Socket : Walking(c)

\* A master was listed before the PPD it is chosen for.
MasterAhead ==
    /\ acceptor.pc = "add" => ~ Member(acceptor.destiny) /\ Member(acceptor.master)
    /\ acceptor.pc \notin {"accept", "add"} => Ahead(acceptor.master, acceptor.destiny)
    /\ replicationActive /\ acceptor.pc # "fire" => Ahead(syncState.source, syncState.destiny)

StrangersIdle == \A s \in Storage : ~ Member(s) => \A x \in Sector : NoWrite(pending[s], x)

LEMMA ListTypes ==
  ASSUME TypeOK
  PROVE  /\ storages \in Seq(Storage) /\ DOMAIN storages = 1 .. Len(storages)
         /\ Len(storages) \in Nat /\ \A i \in DOMAIN storages : storages[i] \in Storage
         /\ Nil \notin Storage
  <1>1. storages \in Seq(Storage)
    BY DEF TypeOK, StorageTypeOK
  <1>2. QED
    BY <1>1, LenProperties, ElementOfSeq, PraidAssumption

LEMMA AheadOrder ==
  ASSUME TypeOK, ListOrder
  PROVE  /\ \A t, s : Ahead(t, s) => Member(t) /\ Member(s) /\ t \in Storage /\ s \in Storage
         /\ \A s : Member(s) => Ahead(s, s) /\ s \in Storage
         /\ \A t, s, u : Ahead(t, s) /\ Ahead(s, u) => Ahead(t, u)
         /\ \A t, s : Ahead(t, s) /\ Ahead(s, t) => t = s
  <1>1. \A t, s : Ahead(t, s) => Member(t) /\ Member(s) /\ t \in Storage /\ s \in Storage
    BY ListTypes DEF Ahead, Member, ToSet
  <1>2. \A s : Member(s) => Ahead(s, s) /\ s \in Storage
    <2> SUFFICES ASSUME NEW s, Member(s) PROVE Ahead(s, s) /\ s \in Storage
      OBVIOUS
    <2>1. PICK i \in DOMAIN storages : storages[i] = s
      BY DEF Member, ToSet
    <2>2. i <= i /\ s \in Storage
      BY <2>1, ListTypes
    <2>3. QED
      BY <2>1, <2>2 DEF Ahead
  <1>3. ASSUME NEW t, NEW s, NEW u, Ahead(t, s), Ahead(s, u)
        PROVE  Ahead(t, u)
    <2>1. PICK i, j \in DOMAIN storages : i <= j /\ storages[i] = t /\ storages[j] = s
      BY <1>3 DEF Ahead
    <2>2. PICK k, l \in DOMAIN storages : k <= l /\ storages[k] = s /\ storages[l] = u
      BY <1>3 DEF Ahead
    <2>3. j = k
      BY <2>1, <2>2 DEF ListOrder
    <2>4. i <= l
      BY <2>1, <2>2, <2>3, ListTypes
    <2>5. QED
      BY <2>1, <2>2, <2>4 DEF Ahead
  <1>4. ASSUME NEW t, NEW s, Ahead(t, s), Ahead(s, t)
        PROVE  t = s
    <2>1. PICK i, j \in DOMAIN storages : i <= j /\ storages[i] = t /\ storages[j] = s
      BY <1>4 DEF Ahead
    <2>2. PICK k, l \in DOMAIN storages : k <= l /\ storages[k] = s /\ storages[l] = t
      BY <1>4 DEF Ahead
    <2>3. j = k /\ l = i
      BY <2>1, <2>2 DEF ListOrder
    <2>4. i = j
      BY <2>1, <2>2, <2>3, ListTypes
    <2>5. QED
      BY <2>1, <2>4
  <1>5. QED
    BY <1>1, <1>2, <1>3, <1>4

\* One turn of the walk gets past one storage.
LEMMA WalkOn ==
  ASSUME TypeOK, ListOrder, NEW t, Member(t)
  PROVE  /\ link[t] = Nil => \A s : Ahead(t, s) <=> s = t
         /\ link[t] # Nil => /\ Member(link[t])
                             /\ \A s : Ahead(link[t], s) <=> (Ahead(t, s) /\ s # t)
  <1>1. PICK p \in DOMAIN storages : storages[p] = t
    BY DEF Member, ToSet
  <1>2. /\ DOMAIN storages = 1 .. Len(storages) /\ Len(storages) \in Nat
        /\ \A i \in DOMAIN storages : storages[i] \in Storage
        /\ \A i, j \in DOMAIN storages : storages[i] = storages[j] => i = j
        /\ Nil \notin Storage
    BY ListTypes DEF ListOrder
  <1>3. link[t] = IF p = Len(storages) THEN Nil ELSE storages[p + 1]
    BY <1>1 DEF ListOrder
  <1>4. \A s : Ahead(t, s) <=> \E j \in DOMAIN storages : p <= j /\ storages[j] = s
    BY <1>1, <1>2 DEF Ahead
  <1>5. CASE p = Len(storages)
    <2>1. \A j \in DOMAIN storages : p <= j => j = p
      BY <1>2, <1>5
    <2>2. p <= p
      BY <1>2
    <2>3. \A s : Ahead(t, s) <=> s = t
      BY <1>1, <1>4, <2>1, <2>2
    <2>4. QED
      BY <1>3, <1>5, <2>3
  <1>6. CASE p # Len(storages)
    <2>1. PICK n \in DOMAIN storages : n = p + 1 /\ link[t] = storages[n]
      BY <1>2, <1>3, <1>6
    <2>2. Member(link[t]) /\ link[t] # Nil
      BY <1>2, <2>1 DEF Member, ToSet
    <2>3. \A s : Ahead(link[t], s) <=> \E j \in DOMAIN storages : n <= j /\ storages[j] = s
      BY <1>2, <2>1 DEF Ahead
    <2>4. \A j \in DOMAIN storages : n <= j <=> p <= j /\ j # p
      BY <1>2, <2>1
    <2>5. \A s : Ahead(link[t], s) <=> (Ahead(t, s) /\ s # t)
      BY <1>1, <1>2, <1>4, <2>3, <2>4
    <2>6. QED
      BY <2>2, <2>5
  <1>7. QED
    BY <1>5, <1>6

LEMMA WalkStarts ==
  ASSUME TypeOK, NEW s, Member(s)
  PROVE  storages # <<>> /\ Ahead(Head(storages), s) /\ Member(Head(storages))
  <1>1. PICK p \in DOMAIN storages : storages[p] = s
    BY DEF Member, ToSet
  <1>2. /\ 1 \in DOMAIN storages /\ 1 <= p /\ storages # <<>> /\ Head(storages) = storages[1]
    BY <1>1, ListTypes
  <1>3. QED
    BY <1>1, <1>2 DEF Ahead, Member, ToSet

\* A PPD that joins comes last.
LEMMA AheadGrows ==
  ASSUME TypeOK, NEW d \in Storage, storages' = Append(storages, d)
  PROVE  /\ \A t, s : Ahead(t, s) => Ahead(t, s)'
         /\ \A t, s : Ahead(t, s)' => Ahead(t, s) \/ s = d
         /\ \A t : Member(t) => Ahead(t, d)'
         /\ \A s : Member(s)' <=> (Member(s) \/ s = d)
  <1>1. /\ DOMAIN storages = 1 .. Len(storages) /\ Len(storages) \in Nat
        /\ DOMAIN storages' = DOMAIN storages \cup {Len(storages) + 1}
        /\ storages'[Len(storages) + 1] = d
        /\ \A p \in DOMAIN storages : storages'[p] = storages[p]
    BY ListTypes, AppendAt
  <1>2. ASSUME NEW t, NEW s, Ahead(t, s)
        PROVE  Ahead(t, s)'
    <2>1. PICK i, j \in DOMAIN storages : i <= j /\ storages[i] = t /\ storages[j] = s
      BY <1>2 DEF Ahead
    <2>2. i \in DOMAIN storages' /\ j \in DOMAIN storages' /\ storages'[i] = t /\ storages'[j] = s
      BY <1>1, <2>1
    <2>3. QED
      BY <2>1, <2>2 DEF Ahead
  <1>3. ASSUME NEW t, NEW s, Ahead(t, s)', s # d
        PROVE  Ahead(t, s)
    <2>1. PICK i, j \in DOMAIN storages' : i <= j /\ storages'[i] = t /\ storages'[j] = s
      BY <1>3 DEF Ahead
    <2>2. j \in DOMAIN storages
      BY <1>1, <1>3, <2>1
    <2>3. i \in DOMAIN storages
      BY <1>1, <2>1, <2>2
    <2>4. QED
      BY <1>1, <2>1, <2>2, <2>3 DEF Ahead
  <1>4. ASSUME NEW t, Member(t)
        PROVE  Ahead(t, d)'
    <2>1. PICK i \in DOMAIN storages : storages[i] = t
      BY <1>4 DEF Member, ToSet
    <2>2. PICK n \in DOMAIN storages' : n = Len(storages) + 1 /\ storages'[n] = d
      BY <1>1
    <2>3. i \in DOMAIN storages' /\ i <= n /\ storages'[i] = t
      BY <1>1, <2>1, <2>2
    <2>4. QED
      BY <2>2, <2>3 DEF Ahead
  <1>5. \A s : Member(s)' <=> (Member(s) \/ s = d)
    BY <1>1 DEF Member, ToSet
  <1>6. QED
    BY <1>2, <1>3, <1>4, <1>5

ListSame == UNCHANGED <<storages, link>>

LEMMA ListSameKeeps ==
  ASSUME ListSame
  PROVE  /\ \A t, s : Ahead(t, s)' <=> Ahead(t, s)
         /\ \A s : Member(s)' <=> Member(s)
  BY DEF ListSame, Ahead, Member

LEMMA WalkingSame ==
  ASSUME ListSame, NEW c, Walking(c), worker'[c] = worker[c]
  PROVE  Walking(c)'
  <1>1. Member(worker[c].cursor)' <=> Member(worker[c].cursor)
    BY DEF ListSame, Member
  <1>2. Ahead(worker[c].cursor, worker[c].next)' <=> Ahead(worker[c].cursor, worker[c].next)
    BY DEF ListSame, Ahead
  <1>3. QED
    BY <1>1, <1>2 DEF Walking, Member, Ahead

LEMMA WalkingNot ==
  ASSUME NEW c, worker'[c].pc \notin {"walk", "put"}
  PROVE  Walking(c)'
  BY DEF Walking

\* Steps with the list as it is, which queue writes for its storages only.
LEMMA OrderUntouched ==
  ASSUME ListOrder, MasterAhead, StrangersIdle, ListSame,
         \A c \in Socket : Walking(c)',
         UNCHANGED <<acceptor, syncState>>, replicationActive' => replicationActive,
         \A s \in Storage : ~ Member(s) => \A x \in Sector : NoWrite(pending[s], x) => NoWrite(pending'[s], x)
  PROVE  ListOrder' /\ MasterAhead' /\ StrangersIdle'
  <1>1. ListOrder'
    BY DEF ListSame, ListOrder
  <1>2. MasterAhead'
    BY ListSameKeeps DEF MasterAhead
  <1>3. StrangersIdle'
    BY ListSameKeeps DEF StrangersIdle, NoWrite
  <1>4. QED
    BY <1>1, <1>2, <1>3

LEMMA NoWriteKeeps ==
  ASSUME NEW T, NEW q \in Seq(T), NEW x
  PROVE  /\ \A m \in T : NoWrite(Append(q, m), x) <=> NoWrite(q, x) /\ ~ IsWrite(m, x)
         /\ q # <<>> => (NoWrite(q, x) <=> NoWrite(Tail(q), x) /\ ~ IsWrite(Head(q), x))
  <1>1. ASSUME NEW m \in T
        PROVE  NoWrite(Append(q, m), x) <=> NoWrite(q, x) /\ ~ IsWrite(m, x)
    <2>1. /\ DOMAIN Append(q, m) = DOMAIN q \cup {Len(q) + 1}
          /\ \A i \in DOMAIN q : Append(q, m)[i] = q[i]
          /\ Append(q, m)[Len(q) + 1] = m
      BY AppendAt
    <2>2. QED
      BY <2>1 DEF NoWrite
  <1>2. ASSUME q # <<>>
        PROVE  NoWrite(q, x) <=> NoWrite(Tail(q), x) /\ ~ IsWrite(Head(q), x)
    <2>1. /\ DOMAIN q = 1 .. Len(q) /\ Len(q) \in Nat /\ Len(q) >= 1
          /\ DOMAIN Tail(q) = 1 .. Len(q) - 1
          /\ \A i \in DOMAIN Tail(q) : Tail(q)[i] = q[i + 1] /\ i + 1 \in DOMAIN q
          /\ \A i \in DOMAIN q : i # 1 => i - 1 \in DOMAIN Tail(q)
          /\ Head(q) = q[1]
      BY <1>2, TailAt
    <2>2. ASSUME NEW i \in DOMAIN q, i # 1
          PROVE  \E j \in DOMAIN Tail(q) : Tail(q)[j] = q[i]
      <3>1. i - 1 \in DOMAIN Tail(q) /\ Tail(q)[i - 1] = q[(i - 1) + 1] /\ (i - 1) + 1 = i
        BY <2>1, <2>2
      <3>2. QED
        BY <3>1
    <2>3. 1 \in DOMAIN q
      BY <2>1
    <2>4. QED
      BY <2>1, <2>2, <2>3 DEF NoWrite
  <1>3. QED
    BY <1>1, <1>2

\* A PPD joins: it comes last, and the one that was last now links to it.
LEMMA OrderGrows ==
  ASSUME IInv, FlagRaised, ListOrder, MasterAhead, StrangersIdle, AddPpd
  PROVE  ListOrder' /\ MasterAhead' /\ StrangersIdle'
  <1> USE DEF IInv, TypeOK
  <1>1. PICK d \in Storage : d = acceptor.destiny /\ ~ Member(d)
    BY DEF StaysDisconnected, AddPpd, MasterAhead
  <1>2. /\ storages \in Seq(Storage) /\ DOMAIN storages = 1 .. Len(storages)
        /\ Len(storages) \in Nat /\ \A p \in DOMAIN storages : storages[p] \in Storage
        /\ Nil \notin Storage
    BY ListTypes
  <1>3. storages' = Append(storages, d)
    BY <1>1 DEF AddPpd, AddStorage
  <1>4. /\ DOMAIN storages' = DOMAIN storages \cup {Len(storages) + 1}
        /\ storages'[Len(storages) + 1] = d /\ Len(storages') = Len(storages) + 1
        /\ \A p \in DOMAIN storages : storages'[p] = storages[p]
    BY <1>2, <1>3, AppendAt, AppendProperties
  <1>5. /\ UNCHANGED <<worker, pending, syncVars>>
        /\ acceptor'.pc = "validate" /\ acceptor'.destiny = d /\ acceptor'.master = acceptor.master
        /\ Member(acceptor.master) /\ ~ replicationActive
    BY <1>1 DEF AddPpd, AcceptorAt, MasterAhead, FlagRaised
  <1>6. \A p \in DOMAIN storages : storages[p] # d
    BY <1>1 DEF Member, ToSet
  <1>7. ASSUME NEW i \in DOMAIN storages', NEW j \in DOMAIN storages', storages'[i] = storages'[j]
        PROVE  i = j
    BY <1>2, <1>4, <1>6, <1>7 DEF ListOrder
  <1>8. \A t \in Storage : link'[t] = IF storages # <<>> /\ t = storages[Len(storages)] THEN d
                                      ELSE IF t = d THEN Nil ELSE link[t]
    <2>1. CASE storages = <<>>
      BY <1>1, <1>2, <2>1 DEF AddPpd, AddStorage, StorageTypeOK
    <2>2. CASE storages # <<>>
      <3>1. Len(storages) \in DOMAIN storages
        BY <1>2, <2>2, EmptySeq
      <3>2. storages[Len(storages)] # d
        BY <1>6, <3>1
      <3>3. QED
        BY <1>1, <1>2, <2>2, <3>1, <3>2 DEF AddPpd, AddStorage, StorageTypeOK
    <2>3. QED
      BY <2>1, <2>2
  <1>9. ASSUME NEW i \in DOMAIN storages'
        PROVE  link'[storages'[i]] = IF i = Len(storages') THEN Nil ELSE storages'[i + 1]
    <2>1. CASE i = Len(storages) + 1
      <3>1. storages # <<>> => Len(storages) \in DOMAIN storages
        BY <1>2, EmptySeq
      <3>2. storages # <<>> => d # storages[Len(storages)]
        BY <1>6, <3>1
      <3>3. QED
        BY <1>4, <1>8, <2>1, <3>2
    <2>2. CASE i = Len(storages) /\ i \in DOMAIN storages
      <3>1. storages # <<>>
        BY <1>2, <2>2
      <3>2. storages'[i] = storages[Len(storages)] /\ storages'[i] \in Storage
        BY <1>2, <1>4, <2>2
      <3>3. link'[storages'[i]] = d
        BY <1>8, <3>1, <3>2
      <3>4. i # Len(storages') /\ i + 1 = Len(storages) + 1
        <4>1. i \in Nat /\ i = Len(storages) /\ Len(storages') = Len(storages) + 1
          BY <1>2, <1>4, <2>2
        <4>2. QED
          BY <4>1
      <3>5. QED
        BY <1>4, <3>3, <3>4
    <2>3. CASE i \in DOMAIN storages /\ i # Len(storages)
      <3>1. PICK n \in DOMAIN storages : n = i + 1
        BY <1>2, <2>3
      <3>2. Len(storages) \in DOMAIN storages
        BY <1>2, <2>3
      <3>3. storages[i] # storages[Len(storages)] /\ storages[i] # d /\ storages[i] \in Storage
        BY <1>2, <1>6, <2>3, <3>2 DEF ListOrder
      <3>4. link'[storages[i]] = link[storages[i]]
        BY <1>8, <3>3
      <3>5. link[storages[i]] = storages[n]
        BY <2>3, <3>1 DEF ListOrder
      <3>6. QED
        BY <1>2, <1>4, <2>3, <3>1, <3>4, <3>5
    <2>4. QED
      BY <1>2, <1>4, <2>1, <2>2, <2>3
  <1>10. \A s : Member(s)' <=> (Member(s) \/ s = d)
    BY <1>3, AheadGrows
  <1>11. ListOrder'
    <2>1. ASSUME NEW c \in Socket
          PROVE  Walking(c)'
      <3>1. Walking(c) /\ worker' = worker
        BY <1>5 DEF ListOrder
      <3>2. Ahead(worker[c].cursor, worker[c].next) => Ahead(worker[c].cursor, worker[c].next)'
        BY <1>3, <3>1, AheadGrows
      <3>3. Member(worker[c].cursor) => Member(worker[c].cursor)'
        BY <1>10, <3>1
      <3>4. QED
        BY <3>1, <3>2, <3>3 DEF Walking, Member, Ahead
    <2>2. QED
      BY <1>7, <1>9, <2>1 DEF ListOrder
  <1>12. MasterAhead'
    <2>1. Ahead(acceptor.master, d)'
      BY <1>3, <1>5, AheadGrows
    <2>2. Ahead(acceptor.master, acceptor.destiny)'
      BY <1>5, <2>1 DEF Ahead
    <2>3. QED
      BY <1>5, <2>2 DEF MasterAhead
  <1>13. StrangersIdle'
    BY <1>5, <1>10 DEF StrangersIdle
  <1>14. QED
    BY <1>11, <1>12, <1>13

LEMMA OrderAcceptor ==
  ASSUME IInv, FlagRaised, Stages, ReplicationEnabled, ListOrder, MasterAhead, StrangersIdle,
         NEW Quiet, Acceptor(Quiet)
  PROVE  ListOrder' /\ MasterAhead' /\ StrangersIdle'
  <1> USE DEF IInv, TypeOK
  <1>1. CASE \E s \in Storage : DenyPpd(s)
    <2>1. UNCHANGED <<storages, link, worker, acceptor, syncVars, pending>>
      BY <1>1 DEF DenyPpd
    <2>2. QED
      BY <2>1, OrderUntouched, WalkingSame DEF ListSame, ListOrder, NoWrite
  <1>2. ASSUME NEW d \in Storage, AcceptPpd(d)
        PROVE  ListOrder' /\ MasterAhead' /\ StrangersIdle'
    <2>1. /\ UNCHANGED <<storages, link, worker, syncVars, pending>>
          /\ acceptor'.pc = "add" /\ acceptor'.destiny = d
          /\ \E m \in Storage \cup {Nil} : Selects(m) /\ acceptor'.master = m
          /\ ppdStatus[d] = "offline" /\ ~ replicationActive
      BY <1>2 DEF AcceptPpd, AcceptorAt
    <2>2. ~ Member(d)
      BY <2>1 DEF Stages, ListedRun
    <2>3. Member(acceptor'.master)
      BY <2>1 DEF Selects, Member, ToSet, Stages, ListedRun
    <2>4. ListOrder' /\ StrangersIdle'
      BY <2>1, WalkingSame DEF ListSame, ListOrder, StrangersIdle, Member
    <2>5. MasterAhead'
      BY <2>1, <2>2, <2>3 DEF MasterAhead, Member
    <2>6. QED
      BY <2>4, <2>5
  <1>3. CASE AddPpd
    BY <1>3, OrderGrows
  <1>4. CASE ValidateReplication \/ StartReplication(Quiet)
    <2>1. /\ UNCHANGED <<storages, link, worker, syncState, pending>>
          /\ acceptor'.destiny = acceptor.destiny /\ acceptor'.master = acceptor.master
          /\ acceptor.pc \notin {"accept", "add"} /\ acceptor'.pc \notin {"accept", "add"}
          /\ acceptor'.pc # "fire" => ~ replicationActive'
      <3>1. CASE ValidateReplication
        BY <3>1 DEF ValidateReplication, AcceptorAt, FlagRaised, Stages, ListedRun
      <3>2. CASE StartReplication(Quiet)
        BY <3>2 DEF StartReplication, AcceptorAt, FlagRaised
      <3>3. QED
        BY <1>4, <3>1, <3>2
    <2>2. ListOrder' /\ StrangersIdle'
      BY <2>1, WalkingSame DEF ListSame, ListOrder, StrangersIdle, Member
    <2>3. MasterAhead'
      BY <2>1 DEF MasterAhead, Ahead
    <2>4. QED
      BY <2>2, <2>3
  <1>5. CASE FireSynchronization
    <2>1. /\ UNCHANGED <<storages, link, worker, pending>>
          /\ syncState' = [source |-> acceptor.master, destiny |-> acceptor.destiny]
          /\ acceptor.pc = "fire" /\ acceptor'.pc = "accept"
      BY <1>5 DEF FireSynchronization, AcceptAgain, AcceptorAt
    <2>2. ListOrder' /\ StrangersIdle'
      BY <2>1, WalkingSame DEF ListSame, ListOrder, StrangersIdle, Member
    <2>3. MasterAhead'
      BY <2>1 DEF MasterAhead, Ahead
    <2>4. QED
      BY <2>2, <2>3
  <1>6. ASSUME NEW c \in Socket, AcceptPfs(c)
        PROVE  ListOrder' /\ MasterAhead' /\ StrangersIdle'
    <2>1. UNCHANGED <<storages, link, acceptor, syncVars, pending>>
      BY <1>6 DEF AcceptPfs
    <2>2. \A b \in Socket : worker'[b] = worker[b] \/ worker'[b].pc \notin {"walk", "put"}
      BY <1>6 DEF AcceptPfs, WorkerLoops, WorkerMoves, WorkerAt, ThreadTypeOK
    <2>3. QED
      BY <2>1, <2>2, OrderUntouched, WalkingSame, WalkingNot DEF ListSame, ListOrder, NoWrite
  <1>7. QED
    BY <1>1, <1>2, <1>3, <1>4, <1>5, <1>6 DEF Acceptor

LEMMA OrderWorker ==
  ASSUME IInv, JobsInHand, ListOrder, MasterAhead, StrangersIdle, NEW c \in Socket, Worker(c)
  PROVE  ListOrder' /\ MasterAhead' /\ StrangersIdle'
  <1> USE DEF IInv, TypeOK
  <1>1. UNCHANGED <<storages, link, acceptor, syncVars>>
    BY DEF Worker, PfsReceive, IterateStorages, ExecutePut, SelectForGet, EnqueueGet
  <1>2. \A b \in Socket \ {c} : worker'[b] = worker[b]
    BY DEF Worker, PfsReceive, IterateStorages, ExecutePut, SelectForGet, EnqueueGet, WorkerLoops, WorkerMoves,
       ThreadTypeOK
  <1> DEFINE w == worker'[c]
  <1>6. /\ w.pc \notin {"walk", "put"} => Walking(c)'
        /\ w.pc = "walk" /\ Member(w.cursor) => Walking(c)'
        /\ w.pc = "put" /\ Member(w.cursor)
              /\ (w.next # Nil => Ahead(w.cursor, w.next) /\ w.cursor # w.next) => Walking(c)'
        /\ w = worker[c] => Walking(c)'
    BY <1>1, WalkingSame DEF Walking, Member, Ahead, ListOrder, ListSame
  <1> HIDE DEF w
  <1>3. /\ Walking(c)'
        /\ \A s \in Storage : ~ Member(s) =>
              \A x \in Sector : NoWrite(pending[s], x) => NoWrite(pending'[s], x)
    <2>1. CASE PfsReceive(c)
      <3>1. pending' = pending /\ worker[c].pc = "receive"
        BY <2>1 DEF PfsReceive
      <3>2. PICK job \in Job : job = Head(requests[c])
        <4>1. requests[c] \in Seq(Job) /\ requests[c] # <<>>
          BY <2>1 DEF PfsReceive, NetworkTypeOK
        <4>2. QED
          BY <4>1, HeadAndTail
      <3>3. \/ worker' = worker
            \/ worker'[c].pc = "select"
            \/ storages # <<>> /\ worker'[c].pc = "walk" /\ worker'[c].cursor = Head(storages)
        <4>1. CASE job.op = "get"
          BY <2>1, <3>2, <4>1 DEF PfsReceive, WorkerMoves, WorkerAt, ThreadTypeOK
        <4>2. CASE job.op = "put"
          BY <2>1, <3>2, <4>2 DEF PfsReceive, WorkerMoves, WorkerAt, ThreadTypeOK
        <4>3. QED
          BY <4>1, <4>2 DEF Job
      <3>4. storages # <<>> => Member(Head(storages))
        BY ListTypes, EmptySeq DEF Member, ToSet
      <3>5. QED
        BY <1>6, <3>1, <3>3, <3>4 DEF w
    <2>2. CASE ExecutePut(c)
      <3>1. PICK t \in Storage : t = worker[c].cursor /\ Member(t)
        BY <2>2 DEF ExecutePut, ThreadsHoldJobs, ListOrder, Walking
      <3>2. \/ worker'[c].pc = "receive"
            \/ worker'[c].pc = "walk" /\ worker'[c].cursor = worker[c].next /\ worker[c].next # Nil
        BY <2>2 DEF ExecutePut, WorkerLoops, WorkerMoves, WorkerAt, ThreadTypeOK
      <3>5. worker[c].next # Nil => Member(worker[c].next)
        BY <2>2, AheadOrder DEF ExecutePut, ListOrder, Walking
      <3>3. \A s \in Storage : ~ Member(s) => pending'[s] = pending[s]
        BY <2>2, <3>1 DEF ExecutePut, StorageTypeOK
      <3>4. QED
        BY <1>6, <3>1, <3>2, <3>3, <3>5 DEF w
    <2>5. CASE IterateStorages(c)
      <3>1. PICK t \in Storage : t = worker[c].cursor /\ Member(t)
        BY <2>5 DEF IterateStorages, ThreadsHoldJobs, ListOrder, Walking
      <3>2. w.pc = "put" /\ w.cursor = t /\ w.next = link[t] /\ pending' = pending
        BY <2>5, <3>1 DEF IterateStorages, WorkerPuts, WorkerMoves, ThreadTypeOK, w
      <3>3. link[t] # Nil => Ahead(t, link[t]) /\ t # link[t]
        BY <3>1, WalkOn, AheadOrder
      <3>4. QED
        BY <1>6, <3>1, <3>2, <3>3
    <2>3. CASE SelectForGet(c) \/ EnqueueGet(c)
      <3>1. worker'[c].pc \in {"enqueue", "receive"}
        BY <2>3 DEF SelectForGet, EnqueueGet, WorkerLoops, WorkerMoves, WorkerAt, ThreadTypeOK
      <3>2. ASSUME NEW s \in Storage, NEW x \in Sector, NoWrite(pending[s], x)
            PROVE  NoWrite(pending'[s], x)
        <4>1. CASE EnqueueGet(c)
          <5>1. PICK job \in Job : job = worker[c].job /\ job.op = "get"
            BY <4>1 DEF EnqueueGet, ThreadsHoldJobs, JobsInHand, WorkerHolds
          <5>2. pending'[s] = pending[s] \/ pending'[s] = Append(pending[s], job)
            BY <4>1, <5>1 DEF EnqueueGet, QueueRead, StorageTypeOK
          <5>3. NoWrite(Append(pending[s], job), x)
            BY <3>2, <5>1, NoWriteKeeps DEF StorageTypeOK, IsWrite
          <5>4. QED
            BY <3>2, <5>2, <5>3
        <4>2. CASE SelectForGet(c)
          BY <3>2, <4>2 DEF SelectForGet
        <4>3. QED
          BY <2>3, <4>1, <4>2
      <3>3. QED
        BY <1>6, <3>1, <3>2 DEF w
    <2>4. QED
      BY <2>1, <2>2, <2>3, <2>5 DEF Worker
  <1>4. \A b \in Socket : Walking(b)'
    BY <1>1, <1>2, <1>3, WalkingSame DEF ListOrder, ListSame
  <1>5. QED
    BY <1>1, <1>3, <1>4, OrderUntouched DEF ListSame

LEMMA OrderStep ==
  ASSUME IInv, JobsInHand, NobodyEnded, FlagRaised, Stages, ReplicationEnabled,
         ListOrder, MasterAhead, StrangersIdle, [Next]_vars
  PROVE  ListOrder' /\ MasterAhead' /\ StrangersIdle'
  <1> USE DEF IInv, TypeOK
  <1>1. ASSUME UNCHANGED <<storages, link, acceptor, syncState, worker>>,
               replicationActive' => replicationActive,
               \A s \in Storage : \A x \in Sector : NoWrite(pending[s], x) => NoWrite(pending'[s], x)
        PROVE  ListOrder' /\ MasterAhead' /\ StrangersIdle'
    <2>1. \A c \in Socket : Walking(c)'
      BY <1>1, WalkingSame DEF ListOrder, ListSame
    <2>2. QED
      BY <1>1, <2>1, OrderUntouched DEF ListSame
  <1>2. CASE PraidStep
    <2>1. CASE Acceptor(Drained)
      BY <2>1, OrderAcceptor
    <2>2. CASE \E c \in Socket : Worker(c)
      BY <2>2, OrderWorker
    <2>3. ASSUME NEW t \in Storage, Sender(t)
          PROVE  ListOrder' /\ MasterAhead' /\ StrangersIdle'
      <3>1. UNCHANGED <<storages, link, acceptor, syncVars, worker>>
        BY <2>3 DEF Sender, SenderCheck, SenderSend, SenderExit, SenderRecord, SenderCount
      <3>2. ASSUME NEW s \in Storage, NEW x \in Sector, NoWrite(pending[s], x)
            PROVE  NoWrite(pending'[s], x)
        <4>1. pending'[s] = pending[s] \/ (SenderSend(t) /\ t = s /\ pending'[s] = Tail(pending[s]))
          BY <2>3 DEF Sender, SenderCheck, SenderSend, SenderExit, SenderRecord, SenderCount,
             StorageTypeOK
        <4>2. SenderSend(s) => pending[s] # <<>>
          BY DEF SenderSend, ThreadsHoldJobs
        <4>3. pending[s] # <<>> => NoWrite(Tail(pending[s]), x)
          BY <3>2, NoWriteKeeps DEF StorageTypeOK
        <4>4. QED
          BY <3>2, <4>1, <4>2, <4>3
      <3>3. QED
        BY <1>1, <3>1, <3>2
    <2>4. ASSUME NEW t \in Storage, Listener(t)
          PROVE  ListOrder' /\ MasterAhead' /\ StrangersIdle'
      <3>1. /\ UNCHANGED <<storages, link, acceptor, syncState, worker, pending>>
            /\ replicationActive' => replicationActive
        BY <2>4, ListenerStays DEF ListenerResponse, ListenerReply, ListenerForget, ListenerSyncPut,
           ListenerSyncEnd
      <3>2. QED
        BY <1>1, <3>1
    <2>5. QED
      BY <1>2, <2>1, <2>2, <2>3, <2>4 DEF PraidStep
  <1>3. CASE NodeStep
    <2>1. UNCHANGED praidVars
      BY <1>3 DEF NodeStep, Node, NodeQueueJob, NodeSyncGet, NodeStream, NodeUnmap,
       NodeStreamEnd, NodeSyncPut, NodeSyncEnd, NodeExecute, NodeLosesJob, NodeDies
    <2>2. QED
      BY <1>1, <2>1
  <1>4. CASE ClientStep \/ UNCHANGED vars
    <2>1. UNCHANGED praidVars
      BY <1>4 DEF ClientStep, ClientGet, ClientPut, ClientReceive, vars
    <2>2. QED
      BY <1>1, <2>1
  <1>5. QED
    BY <1>2, <1>3, <1>4 DEF Next

LEMMA OrderInit == Init => ListOrder /\ MasterAhead /\ StrangersIdle
  <1> SUFFICES ASSUME Init PROVE ListOrder /\ MasterAhead /\ StrangersIdle
    OBVIOUS
  <1> USE DEF Init, InitPraid
  <1>1. /\ InitialStorages \in Seq(Storage) /\ DOMAIN InitialStorages = 1 .. Len(InitialStorages)
        /\ Len(InitialStorages) \in Nat
        /\ \A i, j \in DOMAIN InitialStorages : InitialStorages[i] = InitialStorages[j] => i = j
    BY PraidAssumption, LenProperties
  <1>2. \A i \in DOMAIN InitialStorages : InitialStorages[i] \in Storage
    BY <1>1, ElementOfSeq
  <1>3. ASSUME NEW p \in DOMAIN InitialStorages
        PROVE  link[InitialStorages[p]] =
                  IF p = Len(InitialStorages) THEN Nil ELSE InitialStorages[p + 1]
    <2> DEFINE t == InitialStorages[p]
               Is(i) == i \in 1 .. Len(InitialStorages) - 1 /\ InitialStorages[i] = t
    <2>1. t \in Storage
      BY <1>2
    <2>2. link[t] = IF \E i \in 1 .. Len(InitialStorages) - 1 : InitialStorages[i] = t
                    THEN InitialStorages[1 + CHOOSE i \in 1 .. Len(InitialStorages) - 1 :
                                                InitialStorages[i] = t]
                    ELSE Nil
      BY <2>1
    <2>3. \A i \in 1 .. Len(InitialStorages) - 1 : InitialStorages[i] = t => i = p
      BY <1>1
    <2>4. CASE p = Len(InitialStorages)
      <3>1. \A i \in 1 .. Len(InitialStorages) - 1 : InitialStorages[i] # t
        <4>1. \A n \in Nat : \A i \in 1 .. n - 1 : i # n
          OBVIOUS
        <4>2. p \in Nat /\ Len(InitialStorages) = p
          BY <1>1, <2>4
        <4>3. \A i \in 1 .. Len(InitialStorages) - 1 : i # p
          BY <4>1, <4>2
        <4>4. QED
          BY <2>3, <4>3
      <3>2. QED
        BY <2>2, <2>4, <3>1
    <2>5. CASE p # Len(InitialStorages)
      <3>1. p \in 1 .. Len(InitialStorages) - 1
        BY <1>1, <2>5
      <3>2. (CHOOSE i \in 1 .. Len(InitialStorages) - 1 : InitialStorages[i] = t) = p
        BY <2>3, <3>1
      <3>3. link[t] = InitialStorages[1 + p]
        BY <2>2, <3>1, <3>2
      <3>4. 1 + p = p + 1
        BY <1>1
      <3>5. QED
        BY <2>5, <3>3, <3>4
    <2>6. QED
      BY <2>4, <2>5
  <1>4. ListOrder
    BY <1>1, <1>3 DEF ListOrder, WorkerAt, Walking
  <1>5. MasterAhead /\ StrangersIdle
    BY DEF MasterAhead, StrangersIdle, AcceptorAt, NoWrite
  <1>6. QED
    BY <1>4, <1>5

-----------------------------------------------------------------------------
(* What is on its way to the storages of the list.                          *)

Flow(s, c, x, d) == Arriving(s, c, x, d, Visits(c, s))
Flows(s, c) == \A x \in Clean' : \A d : Flow(s, c, x, d)' = Flow(s, c, x, d)

LEMMA FlowsSame ==
  ASSUME NEW s \in Storage, NEW c,
         SameWrites(jobs[s], jobs'[s]), SameWrites(toPpd[s], toPpd'[s]),
         SameWrites(pending[s], pending'[s]), SameWrites(requests[c], requests'[c]),
         SameWrites(Hand(c, Visits(c, s)), Hand(c, Visits(c, s))')
  PROVE  Flows(s, c)
  BY DEF SameWrites, Arriving, Flow, Flows

LEMMA HandVisits ==
  ASSUME NEW c, NEW s
  PROVE  /\ worker[c].pc \notin {"walk", "put"} => Hand(c, Visits(c, s)) = <<>>
         /\ worker'[c].pc \notin {"walk", "put"} => Hand(c, Visits(c, s))' = <<>>
         /\ UNCHANGED <<worker, storages>> => Hand(c, Visits(c, s))' = Hand(c, Visits(c, s))
  BY DEF Hand, Visits, Ahead

LEMMA FlowsBeyond ==
  ASSUME NEW s \in Storage, NEW c, UNCHANGED <<worker, storages, requests>>, jobs'[s] = jobs[s],
         SameWrites(toPpd[s], toPpd'[s]), SameWrites(pending[s], pending'[s])
  PROVE  Flows(s, c)
  BY HandVisits, FlowsSame, SameItself

LEMMA AcceptorFlows ==
  ASSUME IInv, NEW c \in Socket, Socket = {c}, ListOrder, MasterAhead,
         NEW Quiet, Acceptor(Quiet), UNCHANGED <<nodeVars, clientVars>>,
         NEW s \in Storage, Member(s)
  PROVE  Flows(s, c)
  <1> USE DEF IInv, TypeOK
  <1>1. UNCHANGED <<pending, requests>>
    BY DEF Acceptor, DenyPpd, AcceptPpd, AddPpd, ValidateReplication,
       StartReplication, FireSynchronization, AcceptPfs
  <1>2. SameWrites(toPpd[s], toPpd'[s])
    <2>1. toPpd' = toPpd \/ \E d : \E op \in {"syncGet", "syncEnd"} : SendPpd(d, Sync(op, 0))
      BY DEF Acceptor, DenyPpd, AcceptPpd, AddPpd, ValidateReplication,
       StartReplication, FireSynchronization, AcceptPfs
    <2>2. ASSUME NEW d, NEW op \in {"syncGet", "syncEnd"}, SendPpd(d, Sync(op, 0))
          PROVE  SameWrites(toPpd[s], toPpd'[s])
      <3>1. PICK m \in Message : m = Sync(op, 0) /\ m.op \notin {"put", "syncPut"}
        BY InitialValues, SyncOp
      <3>2. toPpd'[s] = toPpd[s] \/ toPpd'[s] = Append(toPpd[s], m)
        BY <2>2, <3>1, SendPpdReaches
      <3>3. SameWrites(toPpd[s], Append(toPpd[s], m))
        BY <3>1, SameAppend DEF NetworkTypeOK
      <3>4. QED
        BY <3>2, <3>3, SameItself
    <2>3. QED
      BY <2>1, <2>2, SameItself
  <1>3. SameWrites(Hand(c, Visits(c, s)), Hand(c, Visits(c, s))')
    <2>1. CASE UNCHANGED <<worker, storages>>
      BY <2>1, HandVisits, SameItself
    <2>2. CASE \E d \in Socket : AcceptPfs(d)
      <3>1. worker[c].pc = "off" /\ worker'[c].pc = "receive"
        BY <2>2 DEF AcceptPfs, WorkerLoops, WorkerMoves, WorkerAt, ThreadTypeOK
      <3>2. QED
        BY <3>1, HandVisits, SameItself
    <2>3. CASE AddPpd
      <3>1. PICK d \in Storage : d = acceptor.destiny
        BY <2>3 DEF StaysDisconnected, AddPpd
      <3>2. storages' = Append(storages, d) /\ worker' = worker /\ s # d
        BY <2>3, <3>1 DEF AddPpd, AddStorage, MasterAhead
      <3>3. /\ Ahead(worker[c].cursor, s)' <=> Ahead(worker[c].cursor, s)
            /\ Ahead(worker[c].next, s)' <=> Ahead(worker[c].next, s)
        <4>1. \A t : Ahead(t, s)' <=> Ahead(t, s)
          BY <3>2, AheadGrows
        <4>2. QED
          BY <3>2, <4>1 DEF Ahead
      <3>4. Hand(c, Visits(c, s))' = Hand(c, Visits(c, s))
        BY <3>2, <3>3 DEF Hand, Visits
      <3>5. QED
        BY <3>4, SameItself
    <2>4. QED
      BY <2>1, <2>2, <2>3 DEF Acceptor, DenyPpd, AcceptPpd, ValidateReplication,
       StartReplication, FireSynchronization
  <1>4. QED
    BY <1>1, <1>2, <1>3, FlowsSame, SameItself

\* One turn of the iteration over the list.
LEMMA WalkVisits ==
  ASSUME IInv, NEW c \in Socket, ListOrder, IterateStorages(c)
  PROVE  /\ \A s \in Storage : Hand(c, Visits(c, s))' = Hand(c, Visits(c, s))
         /\ \A s \in Storage : Visits(c, s)' <=> Visits(c, s)
  <1> USE DEF IInv, TypeOK
  <1>1. PICK t \in Storage : t = worker[c].cursor /\ Member(t)
    BY DEF IterateStorages, ThreadsHoldJobs, ListOrder, Walking
  <1>2. /\ storages' = storages /\ worker[c].pc = "walk"
        /\ worker'[c].pc = "put" /\ worker'[c].cursor = t /\ worker'[c].next = link[t]
        /\ worker'[c].job = worker[c].job
    BY <1>1 DEF IterateStorages, WorkerMoves, WorkerPuts, ThreadTypeOK
  <1>3. ASSUME NEW s \in Storage
        PROVE  Visits(c, s)' <=> Visits(c, s)
    <2>1. Ahead(t, s) <=> t = s \/ Ahead(link[t], s)
      <3>1. Ahead(t, t)
        BY <1>1, AheadOrder
      <3>2. ~ Ahead(Nil, s)
        BY ListTypes, AheadOrder
      <3>3. QED
        BY <1>1, <3>1, <3>2, WalkOn
    <2>2. Visits(c, s)' <=> t = s \/ Ahead(link[t], s)
      BY <1>2 DEF Visits, Ahead
    <2>3. QED
      BY <1>1, <1>2, <2>1, <2>2 DEF Visits
  <1>4. QED
    BY <1>2, <1>3 DEF Hand

LEMMA PutVisits ==
  ASSUME IInv, JobsInHand, NEW c \in Socket, ListOrder, ExecutePut(c)
  PROVE  \E t \in Storage, job \in Job :
            /\ t = worker[c].cursor /\ Member(t) /\ job = worker[c].job
            /\ pending' = [pending EXCEPT ![t] = Append(@, job)]
            /\ \A s \in Storage :
                  /\ Visits(c, s)' <=> Visits(c, s) /\ s # t
                  /\ s = t => Visits(c, s)
                  /\ Visits(c, s) => Ahead(t, s)
                  /\ Visits(c, s) => Hand(c, Visits(c, s)) = <<job>>
                  /\ Visits(c, s)' => Hand(c, Visits(c, s))' = <<job>>
  <1> USE DEF IInv, TypeOK
  <1>1. PICK t \in Storage : t = worker[c].cursor /\ Member(t)
    BY DEF ExecutePut, ThreadsHoldJobs, ListOrder, Walking
  <1>2. PICK job \in Job : job = worker[c].job
    BY DEF ExecutePut, ThreadsHoldJobs
  <1>3. storages' = storages /\ worker[c].pc = "put"
    BY DEF ExecutePut
  <1>4. pending' = [pending EXCEPT ![t] = Append(@, job)]
    BY <1>1, <1>2 DEF ExecutePut
  <1>5. PICK n \in Storage \cup {Nil} : n = worker[c].next
    BY DEF ThreadTypeOK, WorkerState
  <1>6. \/ worker'[c].pc \notin {"walk", "put"} /\ n = Nil
        \/ worker'[c].pc = "walk" /\ worker'[c].cursor = n /\ worker'[c].job = job /\ n # Nil
    <2>1. CASE n = Nil
      BY <1>5, <2>1 DEF ExecutePut, WorkerLoops, WorkerMoves, WorkerAt, ThreadTypeOK
    <2>2. CASE n # Nil
      BY <1>2, <1>5, <2>2 DEF ExecutePut, WorkerMoves, WorkerAt, ThreadTypeOK
    <2>3. QED
      BY <2>1, <2>2
  <1>7. n # Nil => Ahead(t, n) /\ t # n
    BY <1>1, <1>3, <1>5 DEF ListOrder, Walking
  <1>8. ASSUME NEW s \in Storage
        PROVE  /\ Visits(c, s)' <=> Visits(c, s) /\ s # t
               /\ s = t => Visits(c, s)
               /\ Visits(c, s) => Ahead(t, s)
    <2>1. Visits(c, s) <=> t = s \/ Ahead(n, s)
      BY <1>1, <1>3, <1>5 DEF Visits
    <2>2. ~ Ahead(Nil, s)
      BY ListTypes, AheadOrder
    <2>3. Visits(c, s)' <=> Ahead(n, s)
      BY <1>3, <1>6, <2>2 DEF Visits, Ahead
    <2>4. Ahead(n, s) => s # t
      BY <1>7, <2>2, AheadOrder
    <2>5. t = s \/ Ahead(n, s) => Ahead(t, s)
      BY <1>1, <1>7, <2>2, AheadOrder
    <2>6. QED
      BY <2>1, <2>3, <2>4, <2>5
  <1>9. ASSUME NEW s \in Storage
        PROVE  /\ Visits(c, s) => Hand(c, Visits(c, s)) = <<job>>
               /\ Visits(c, s)' => Hand(c, Visits(c, s))' = <<job>>
    <2>1. Visits(c, s)' => worker'[c].pc \in {"walk", "put"}
      BY DEF Visits
    <2>2. QED
      BY <1>2, <1>6, <2>1 DEF Hand
  <1>10. QED
    BY <1>1, <1>2, <1>4, <1>8, <1>9

LEMMA PutFlows ==
  ASSUME IInv, JobsInHand, NEW c \in Socket, ListOrder,
         ExecutePut(c), UNCHANGED <<nodeVars, clientVars>>, NEW s \in Storage, Member(s)
  PROVE  Flows(s, c)
  <1> USE DEF IInv, TypeOK
  <1>1. PICK t \in Storage, job \in Job :
              /\ t = worker[c].cursor /\ Member(t)
              /\ pending' = [pending EXCEPT ![t] = Append(@, job)]
              /\ Visits(c, s)' <=> Visits(c, s) /\ s # t
              /\ s = t => Visits(c, s)
              /\ Visits(c, s) => Hand(c, Visits(c, s)) = <<job>>
              /\ Visits(c, s)' => Hand(c, Visits(c, s))' = <<job>>
    BY PutVisits
  <1>2. pending[s] \in Seq(Job) /\ UNCHANGED <<toPpd, requests, storages>>
    BY DEF StorageTypeOK, ExecutePut
  <1>3. /\ ~ Visits(c, s) => Hand(c, Visits(c, s)) = <<>>
        /\ ~ Visits(c, s)' => Hand(c, Visits(c, s))' = <<>>
    BY DEF Hand
  <1>4. CASE t = s
    <2>1. Visits(c, s)
      BY <1>1, <1>4
    <2>2. Hand(c, Visits(c, s)) = <<job>> /\ Hand(c, Visits(c, s))' = <<>>
      BY <1>1, <1>3, <1>4, <2>1
    <2>3. pending'[s] = Append(pending[s], job)
      BY <1>1, <1>4 DEF StorageTypeOK
    <2>4. \A x, d : Upon(Hand(c, Visits(c, s))', x, Upon(pending'[s], x, d)) =
                    Upon(Hand(c, Visits(c, s)), x, Upon(pending[s], x, d))
      <3> SUFFICES ASSUME NEW x, NEW d
                   PROVE  Upon(<<>>, x, Upon(Append(pending[s], job), x, d)) =
                          Upon(<<job>>, x, Upon(pending[s], x, d))
        BY <2>2, <2>3
      <3>1. Upon(Append(pending[s], job), x, d) =
               IF IsWrite(job, x) THEN job.value ELSE Upon(pending[s], x, d)
        BY <1>2, UponAppend
      <3>2. QED
        BY <3>1, UponOne, UponEmpty
    <2>5. QED
      BY <1>2, <2>4 DEF Flows, Flow, Arriving
  <1>5. CASE t # s
    <2>1. pending'[s] = pending[s]
      BY <1>1, <1>5 DEF StorageTypeOK
    <2>2. Hand(c, Visits(c, s))' = Hand(c, Visits(c, s))
      BY <1>1, <1>3, <1>5
    <2>3. QED
      BY <1>2, <2>1, <2>2, FlowsSame, SameItself
  <1>6. QED
    BY <1>4, <1>5

LEMMA ReceiveFlows ==
  ASSUME IInv, NEW c \in Socket, PfsReceive(c), UNCHANGED <<nodeVars, clientVars>>,
         NEW s \in Storage, Member(s)
  PROVE  Flows(s, c)
  <1> USE DEF IInv, TypeOK
  <1>1. /\ requests[c] \in Seq(Job) /\ requests[c] # <<>>
        /\ UNCHANGED <<toPpd, pending, storages>>
        /\ worker[c].pc = "receive"
        /\ requests'[c] = Tail(requests[c])
    BY DEF NetworkTypeOK, PfsReceive
  <1>2. PICK job \in Job : job = Head(requests[c])
    BY <1>1, HeadAndTail
  <1>3. Hand(c, Visits(c, s)) = <<>>
    BY <1>1, HandVisits
  <1>4. CASE job.op = "get"
    <2>1. worker'[c].pc = "select"
      BY <1>2, <1>4 DEF PfsReceive, WorkerMoves, WorkerAt, ThreadTypeOK
    <2>2. Hand(c, Visits(c, s))' = <<>>
      BY <2>1, HandVisits
    <2>3. SameWrites(requests[c], requests'[c])
      BY <1>1, <1>2, <1>4, SameTail
    <2>4. QED
      BY <1>1, <1>3, <2>2, <2>3, FlowsSame, SameItself
  <1>5. CASE job.op = "put"
    <2>1. storages # <<>> /\ Ahead(Head(storages), s)
      BY WalkStarts
    <2>2. worker'[c].pc = "walk" /\ worker'[c].job = job /\ worker'[c].cursor = Head(storages)
      BY <1>2, <1>5, <2>1 DEF PfsReceive, WorkerMoves, WorkerAt, ThreadTypeOK
    <2>3. Visits(c, s)'
      BY <1>1, <2>1, <2>2 DEF Visits, Ahead
    <2>4. Hand(c, Visits(c, s))' = <<job>>
      BY <2>2, <2>3 DEF Hand
    <2>5. \A x, d : Upon(requests'[c], x, Upon(Hand(c, Visits(c, s))', x, d)) =
                    Upon(requests[c], x, Upon(Hand(c, Visits(c, s)), x, d))
      <3> SUFFICES ASSUME NEW x, NEW d
                   PROVE  Upon(Tail(requests[c]), x, Upon(<<job>>, x, d)) =
                          Upon(requests[c], x, Upon(<<>>, x, d))
        BY <1>1, <1>3, <2>4
      <3>1. Upon(requests[c], x, d) =
               Upon(Tail(requests[c]), x, IF IsWrite(job, x) THEN job.value ELSE d)
        BY <1>1, <1>2, UponTail
      <3>2. QED
        BY <3>1, UponOne, UponEmpty
    <2>6. QED
      BY <1>1, <2>5 DEF Flows, Flow, Arriving
  <1>6. QED
    BY <1>4, <1>5 DEF Job

LEMMA WorkerFlows ==
  ASSUME IInv, JobsInHand, NEW c \in Socket, ListOrder,
         Worker(c), UNCHANGED <<nodeVars, clientVars>>, NEW s \in Storage, Member(s)
  PROVE  Flows(s, c)
  <1> USE DEF IInv, TypeOK
  <1>1. CASE PfsReceive(c)
    BY <1>1, ReceiveFlows
  <1>2. CASE ExecutePut(c)
    BY <1>2, PutFlows
  <1>5. CASE IterateStorages(c)
    <2>1. UNCHANGED <<toPpd, requests, pending>>
      BY <1>5 DEF IterateStorages
    <2>2. QED
      BY <1>5, <2>1, WalkVisits, FlowsSame, SameItself
  <1>3. CASE SelectForGet(c) \/ EnqueueGet(c)
    <2>1. UNCHANGED <<toPpd, requests>> /\ pending[s] \in Seq(Job)
      BY <1>3 DEF SelectForGet, EnqueueGet, StorageTypeOK
    <2>2. worker[c].pc \notin {"walk", "put"} /\ worker'[c].pc \notin {"walk", "put"}
      BY <1>3 DEF SelectForGet, EnqueueGet, WorkerLoops, WorkerMoves, WorkerAt, ThreadTypeOK
    <2>3. SameWrites(pending[s], pending'[s])
      <3>1. CASE SelectForGet(c)
        BY <3>1, SameItself DEF SelectForGet
      <3>2. CASE EnqueueGet(c)
        <4>1. PICK job \in Job : job = worker[c].job /\ job.op = "get"
          BY <3>2 DEF EnqueueGet, ThreadsHoldJobs, JobsInHand, WorkerHolds
        <4>2. pending'[s] = pending[s] \/ pending'[s] = Append(pending[s], job)
          BY <3>2, <4>1 DEF EnqueueGet, QueueRead, StorageTypeOK
        <4>3. SameWrites(pending[s], Append(pending[s], job))
          BY <2>1, <4>1, SameAppend
        <4>4. QED
          BY <4>2, <4>3, SameItself
      <3>3. QED
        BY <1>3, <3>1, <3>2
    <2>4. QED
      BY <2>1, <2>2, <2>3, HandVisits, FlowsSame, SameItself
  <1>4. QED
    BY <1>1, <1>2, <1>3, <1>5 DEF Worker

LEMMA SenderFlows ==
  ASSUME IInv, NEW c, NEW t \in Storage, Sender(t), UNCHANGED <<nodeVars, clientVars>>,
         NEW s \in Storage, ppdStatus[s] = "running"
  PROVE  Flows(s, c)
  <1> USE DEF IInv, TypeOK
  <1>1. UNCHANGED <<ppdStatus, worker, requests, storages>>
    BY DEF Sender, SenderCheck, SenderSend, SenderExit, SenderRecord, SenderCount
  <1>2. toPpd[s] \in Seq(Message) /\ pending[s] \in Seq(Job)
    BY DEF NetworkTypeOK, StorageTypeOK
  <1>3. CASE ~ SenderSend(t) \/ t # s
    <2>1. toPpd'[s] = toPpd[s] /\ pending'[s] = pending[s]
      <3>1. CASE SenderSend(t)
        BY <1>3, <3>1 DEF SenderSend, SendPpd, NetworkTypeOK, StorageTypeOK
      <3>2. CASE ~ SenderSend(t)
        BY <3>2 DEF Sender, SenderCheck, SenderExit, SenderRecord, SenderCount
      <3>3. QED
        BY <3>1, <3>2
    <2>2. QED
      BY <1>1, <2>1, FlowsBeyond, SameItself
  <1>4. CASE SenderSend(s)
    <2>1. pending[s] # <<>>
      BY <1>4 DEF SenderSend, ThreadsHoldJobs
    <2>2. Head(pending[s]) \in Job /\ Head(pending[s]) \in Message
      BY <1>2, <2>1, HeadAndTail DEF Message
    <2>3. toPpd'[s] = Append(toPpd[s], Head(pending[s])) /\ pending'[s] = Tail(pending[s])
      BY <1>4 DEF SenderSend, SendPpd, NetworkTypeOK, StorageTypeOK
    <2>4. \A x, d : Upon(pending'[s], x, Upon(toPpd'[s], x, d)) =
                    Upon(pending[s], x, Upon(toPpd[s], x, d))
      BY <1>2, <2>1, <2>2, <2>3, UponMoves
    <2>5. QED
      BY <1>1, <2>4, HandVisits DEF Flows, Flow, Arriving
  <1>5. QED
    BY <1>3, <1>4

LEMMA ListenerFlows ==
  ASSUME IInv, NobodyEnded, NEW c, NEW t \in Storage, Listener(t), UNCHANGED <<nodeVars, clientVars>>,
         NEW s \in Storage
  PROVE  Flows(s, c)
  <1> USE DEF IInv, TypeOK
  <1>1. UNCHANGED <<worker, requests, storages, pending>>
    BY ListenerStays DEF ListenerResponse, ListenerReply, ListenerForget, ListenerSyncPut,
       ListenerSyncEnd
  <1>2. SameWrites(toPpd[s], toPpd'[s])
    <2>1. toPpd' = toPpd \/ ListenerSyncPut(t) \/ ListenerSyncEnd(t)
      BY ListenerStays DEF ListenerResponse, ListenerReply, ListenerForget
    <2>2. CASE ListenerSyncPut(t) \/ ListenerSyncEnd(t)
      <3>1. PICK m \in Message : SendPpd(syncState.destiny, m) /\ m.op # "put"
        <4>1. CASE ListenerSyncPut(t)
          <5>1. fromPpd[t] \in Seq(Message) /\ fromPpd[t] # <<>> /\ Head(fromPpd[t]).op = "syncPut"
            BY <4>1 DEF ListenerSyncPut, Receives, NetworkTypeOK
          <5>2. Head(fromPpd[t]) \in Message
            BY <5>1, HeadAndTail
          <5>3. QED
            BY <4>1, <5>1, <5>2 DEF ListenerSyncPut
        <4>2. CASE ListenerSyncEnd(t)
          <5>1. Sync("syncEnd", 0) \in Message /\ Sync("syncEnd", 0).op = "syncEnd"
            BY InitialValues, SyncOp
          <5>2. QED
            BY <4>2, <5>1 DEF ListenerSyncEnd
        <4>3. QED
          BY <2>2, <4>1, <4>2
      <3>2. toPpd'[s] = toPpd[s] \/ toPpd'[s] = Append(toPpd[s], m)
        BY <3>1, SendPpdReaches
      <3>3. SameWrites(toPpd[s], Append(toPpd[s], m))
        BY <3>1, SameAppend DEF NetworkTypeOK
      <3>4. QED
        BY <3>2, <3>3, SameItself
    <2>3. QED
      BY <2>1, <2>2, SameItself
  <1>3. QED
    BY <1>1, <1>2, FlowsBeyond, SameItself

\* A PPD takes and executes what came, and a write reaches the disk before any
\* other of its sector.
LEMMA NodeFlows ==
  ASSUME IInv, NEW c, NEW t \in Storage, NodeWorks(t), deaths' = 0, UNCHANGED clientVars,
         NEW s \in Storage, t # s \/ ~ NodeExecute(s)
  PROVE  Flows(s, c)
  <1> USE DEF IInv, TypeOK
  <1>1. /\ UNCHANGED <<worker, requests, pending, storages>>
        /\ \A u \in Storage \ {t} : Still(u) /\ toPpd'[u] = toPpd[u]
    BY NodeOthers
  <1>2. CASE t # s
    BY <1>1, <1>2, FlowsBeyond, SameItself DEF Still
  <1>3. CASE NodeQueueJob(s)
    <2>1. /\ toPpd[s] \in Seq(Message) /\ toPpd[s] # <<>> /\ jobs[s] \in Seq(Job)
          /\ Head(toPpd[s]) \in Message /\ Head(toPpd[s]).op \in {"get", "put"}
          /\ toPpd'[s] = Tail(toPpd[s])
      BY <1>3, TakesTail DEF NodeQueueJob, NodeTypeOK
    <2>2. Head(toPpd[s]) \in Job
      BY <2>1 DEF Message, SyncMessage
    <2>3. \A x \in Clean' : \A d : Upon(jobs'[s], x, d) = Upon(Append(jobs[s], Head(toPpd[s])), x, d)
      BY <1>3, QueuedUpon
    <2>4. \A x \in Clean' : \A d : Upon(toPpd'[s], x, Upon(jobs'[s], x, d)) =
                    Upon(toPpd[s], x, Upon(jobs[s], x, d))
      BY <2>1, <2>2, <2>3, UponMoves
    <2>5. QED
      BY <1>1, <2>4, HandVisits DEF Flows, Flow, Arriving
  <1>4. CASE NodeSyncGet(s) \/ NodeSyncPut(s) \/ NodeSyncEnd(s)
    <2>1. jobs' = jobs /\ \E ops : Takes(s, ops) /\ "put" \notin ops
      <3>1. CASE NodeSyncGet(s)
        <4>1. ~ Ends(s)
          BY EndsStay DEF Ends, NodeTypeOK
        <4>2. "put" \notin {"syncGet"}
          OBVIOUS
        <4>3. QED
          BY <3>1, <4>1, <4>2 DEF NodeSyncGet
      <3>2. CASE NodeSyncPut(s)
        <4>1. "put" \notin {"syncPut"}
          OBVIOUS
        <4>2. QED
          BY <3>2, <4>1 DEF NodeSyncPut
      <3>3. CASE NodeSyncEnd(s)
        <4>1. "put" \notin {"syncEnd"}
          OBVIOUS
        <4>2. QED
          BY <3>3, <4>1 DEF NodeSyncEnd
      <3>4. QED
        BY <1>4, <3>1, <3>2, <3>3
    <2>2. /\ toPpd[s] \in Seq(Message) /\ toPpd[s] # <<>>
          /\ Head(toPpd[s]).op # "put" /\ toPpd'[s] = Tail(toPpd[s])
      BY <2>1, TakesTail
    <2>3. SameWrites(toPpd[s], toPpd'[s])
      BY <2>2, SameTail
    <2>4. QED
      BY <1>1, <2>1, <2>3, FlowsBeyond, SameItself
  <1>5. CASE NodeStream(s) \/ NodeUnmap(s) \/ NodeStreamEnd(s)
    <2>1. UNCHANGED <<jobs, toPpd>>
      BY <1>5 DEF NodeStream, NodeUnmap, NodeStreamEnd
    <2>2. QED
      BY <1>1, <2>1, FlowsBeyond, SameItself
  <1>6. CASE NodeLosesJob(s)
    <2>1. toPpd' = toPpd /\ \A x \in Clean' : \A d : Upon(jobs'[s], x, d) = Upon(jobs[s], x, d)
      BY <1>6, LostUpon DEF NodeLosesJob
    <2>2. QED
      BY <1>1, <2>1, HandVisits DEF Flows, Flow, Arriving
  <1>7. QED
    BY <1>2, <1>3, <1>4, <1>5, <1>6 DEF NodeWorks, Node

LEMMA ExecuteFlows ==
  ASSUME IInv, NEW c, NEW s \in Storage, NodeExecute(s), deaths' = 0, UNCHANGED clientVars,
         Len(disk[s]) = VolumeSectors
  PROVE  \A x \in Sector : \A a : a = disk'[s][x] => Flow(s, c, x, a)' = Flow(s, c, x, disk[s][x])
  <1> USE DEF IInv, TypeOK
  <1>1. PICK i \in DOMAIN jobs[s] : Executable(s, i) /\ Executes(s, i)
    BY DEF NodeExecute
  <1>2. jobs[s] \in Seq(Job) /\ disk[s] \in Seq(Value) /\ DOMAIN disk[s] = 1 .. Len(disk[s])
    BY LenProperties DEF NodeTypeOK
  <1>3. PICK job \in Job : job = jobs[s][i]
    BY <1>2, ElementOfSeq
  <1>4. mapped[s] /\ job.sector \in DOMAIN disk[s]
    <2>1. ~ Ends(s)
      BY DEF Ends, NodeTypeOK
    <2>2. QED
      BY <1>1, <1>3, <2>1 DEF Executes
  <1>5. /\ jobs'[s] = RemoveAt(jobs[s], i)
        /\ toPpd' = toPpd /\ UNCHANGED <<worker, requests, pending, storages>>
    BY <1>1, <1>3, <1>4 DEF Executes, NodeExecute, NodeTypeOK
  <1>6. PICK r \in Seq(Job) : r = jobs'[s] /\ Without(jobs[s], r, i)
    BY <1>2, <1>5, RemoveAtWithout
  <1>7. \A j \in 1 .. i - 1 : ~ IsWrite(jobs[s][j], job.sector)
    BY <1>1, <1>3 DEF Executable, IsWrite
  <1>8. ASSUME NEW x \in Sector
        PROVE  Upon(jobs'[s], x, disk'[s][x]) = Upon(jobs[s], x, disk[s][x])
    <2>1. x \in DOMAIN disk[s]
      BY <1>2, PraidAssumption DEF Sector
    <2>2. CASE job.op = "put" /\ x = job.sector
      <3>1. IsWrite(jobs[s][i], x) /\ disk'[s][x] = job.value
        BY <1>1, <1>3, <1>4, <2>1, <2>2 DEF IsWrite, Executes, NodeTypeOK
      <3>2. Upon(jobs[s], x, disk[s][x]) =
               Upon(r, x, IF IsWrite(jobs[s][i], x) THEN jobs[s][i].value ELSE disk[s][x])
        BY <1>2, <1>6, <1>7, <2>2, UponWithout
      <3>3. QED
        BY <1>3, <1>6, <3>1, <3>2
    <2>3. CASE ~ (job.op = "put" /\ x = job.sector)
      <3>1. ~ IsWrite(jobs[s][i], x)
        BY <1>3, <2>3 DEF IsWrite
      <3>2. disk'[s][x] = disk[s][x]
        <4>1. CASE job.op = "put"
          BY <1>1, <1>3, <1>4, <2>1, <2>3, <4>1 DEF Executes, NodeTypeOK
        <4>2. CASE job.op # "put"
          BY <1>1, <1>3, <1>4, <4>2 DEF Executes
        <4>3. QED
          BY <4>1, <4>2
      <3>3. Upon(jobs[s], x, disk[s][x]) = Upon(r, x, disk[s][x])
        BY <1>2, <1>6, <3>1, UponSkip
      <3>4. QED
        BY <1>6, <3>2, <3>3
    <2>4. QED
      BY <2>2, <2>3
  <1>9. Hand(c, Visits(c, s))' = Hand(c, Visits(c, s))
    BY <1>5, HandVisits
  <1>10. QED
    BY <1>5, <1>8, <1>9 DEF Flow, Arriving

LEMMA ClientFlows ==
  ASSUME IInv, NEW c \in Socket, Socket = {c}, ClientStep, NEW s \in Storage
  PROVE  \/ Flows(s, c) /\ UNCHANGED lastPut
         \/ \E job \in Job : /\ job.op = "put"
                             /\ requests'[c] = Append(requests[c], job)
                             /\ lastPut' = [lastPut EXCEPT ![job.sector] = job.value]
                             /\ \A x, d : Flow(s, c, x, d)' = IF IsWrite(job, x) THEN job.value
                                                              ELSE Flow(s, c, x, d)
  <1> USE DEF IInv, TypeOK
  <1>1. UNCHANGED <<worker, storages, jobs, toPpd, pending>> /\ requests[c] \in Seq(Job)
    BY DEF ClientStep, ClientGet, ClientPut, ClientReceive, NetworkTypeOK
  <1>2. CASE ClientReceive(c)
    <2>1. UNCHANGED <<requests, lastPut>>
      BY <1>2 DEF ClientReceive
    <2>2. QED
      BY <1>1, <2>1, FlowsBeyond, SameItself
  <1>3. ASSUME NEW x \in Sector, ClientGet(c, x)
        PROVE  Flows(s, c) /\ UNCHANGED lastPut
    <2>1. PICK job \in Job : /\ job = [op |-> "get", socket |-> c, sector |-> x, value |-> 0]
                             /\ requests'[c] = Append(requests[c], job)
      BY <1>3, InitialValues DEF ClientGet, NetworkTypeOK, Job
    <2>2. SameWrites(requests[c], requests'[c])
      BY <1>1, <2>1, SameAppend
    <2>3. lastPut' = lastPut
      BY <1>3 DEF ClientGet
    <2>4. QED
      BY <1>1, <2>2, <2>3, HandVisits, FlowsSame, SameItself
  <1>4. ASSUME NEW x \in Sector, ClientPut(c, x)
        PROVE  \E job \in Job : /\ job.op = "put"
                                /\ requests'[c] = Append(requests[c], job)
                                /\ lastPut' = [lastPut EXCEPT ![job.sector] = job.value]
                                /\ \A y, d : Flow(s, c, y, d)' = IF IsWrite(job, y) THEN job.value
                                                                 ELSE Flow(s, c, y, d)
    <2>1. PICK job \in Job : /\ job = [op |-> "put", socket |-> c, sector |-> x, value |-> puts + 1]
                             /\ requests'[c] = Append(requests[c], job)
      <3>1. puts + 1 \in Value
        BY <1>4, PraidAssumption DEF ClientPut, Value, Stale, ClientTypeOK
      <3>2. [op |-> "put", socket |-> c, sector |-> x, value |-> puts + 1] \in Job
        BY <3>1 DEF Job
      <3>3. QED
        BY <1>4, <3>2 DEF ClientPut, NetworkTypeOK
    <2>2. \A y, d : Upon(requests'[c], y, d) = IF IsWrite(job, y) THEN job.value
                                               ELSE Upon(requests[c], y, d)
      BY <1>1, <2>1, UponAppend
    <2>3. Hand(c, Visits(c, s))' = Hand(c, Visits(c, s))
      BY <1>1, HandVisits
    <2>4. \A y, d : Flow(s, c, y, d)' = IF IsWrite(job, y) THEN job.value ELSE Flow(s, c, y, d)
      BY <1>1, <2>2, <2>3 DEF Flow, Arriving
    <2>5. lastPut' = [lastPut EXCEPT ![job.sector] = job.value] /\ job.op = "put"
      BY <1>4, <2>1 DEF ClientPut
    <2>6. QED
      BY <2>1, <2>4, <2>5
  <1>5. QED
    BY <1>2, <1>3, <1>4 DEF ClientStep

-----------------------------------------------------------------------------
(* The sectors of a volume, by the order in which they come.                *)

\* If sector x is among those of q, of which the first is number n + 1, it is b.
ComesAt(q, n, x, b) ==
    \A i \in DOMAIN q :
        q[i].op = "syncPut" /\ n + Num(q, {"syncPut"}, 0, i) = x => q[i].value = b

\* No sector was taken from the queue and none was put into it.
Mild(q, r) ==
    \/ r = q
    \/ q # <<>> /\ Head(q).op # "syncPut" /\ r = Tail(q)
    \/ \E m \in Message : m.op # "syncPut" /\ r = Append(q, m)

LEMMA ComesNone ==
  ASSUME NEW q, ~ Has(q, {"syncPut"})
  PROVE  \A n, x, b : ComesAt(q, n, x, b)
  BY DEF ComesAt, Has

LEMMA NumStarts ==
  ASSUME NEW q \in Seq(Message)
  PROVE  /\ Num(q, {"syncPut"}, 0, 0) = 0
         /\ \A i \in DOMAIN q : /\ Num(q, {"syncPut"}, 0, i) \in Nat
                                /\ Num(q, {"syncPut"}, 0, i) <= SyncPuts(q)
  <1>1. PICK ops : ops = {"syncPut"}
    OBVIOUS
  <1>2. PICK k \in Int : k = 0
    OBVIOUS
  <1>3. Num(q, ops, 0, k) = 0
    <2>1. Matching(q, ops, 0, k) = {}
      BY <1>2 DEF Matching
    <2>2. QED
      BY <2>1, FS_EmptySet DEF Num
  <1>4. ASSUME NEW i \in DOMAIN q
        PROVE  Num(q, ops, 0, i) \in Nat /\ Num(q, ops, 0, i) <= SyncPuts(q)
    <2>1. Len(q) \in Nat /\ DOMAIN q = 1 .. Len(q) /\ i \in Int /\ i <= Len(q)
      BY LenProperties
    <2>2. IsFiniteSet(Matching(q, ops, 0, Len(q))) /\ Num(q, ops, 0, i) \in Nat
      BY <2>1, NumType
    <2>3. Matching(q, ops, 0, i) \subseteq Matching(q, ops, 0, Len(q))
      BY <2>1 DEF Matching
    <2>4. Cardinality(Matching(q, ops, 0, i)) <= Cardinality(Matching(q, ops, 0, Len(q)))
      BY <2>2, <2>3, FS_Subset
    <2>5. QED
      BY <1>1, <2>2, <2>4 DEF Num, SyncPuts
  <1>5. QED
    BY <1>1, <1>2, <1>3, <1>4

LEMMA ComesBeyond ==
  ASSUME NEW q \in Seq(Message), NEW n \in Int, NEW x \in Int, n + SyncPuts(q) < x
  PROVE  \A b : ComesAt(q, n, x, b)
  <1>1. SyncPuts(q) \in Nat
    BY PutsNat
  <1>2. \A i \in DOMAIN q : n + Num(q, {"syncPut"}, 0, i) # x
    BY <1>1, NumStarts
  <1>3. QED
    BY <1>2 DEF ComesAt

LEMMA ComesAppend ==
  ASSUME NEW q \in Seq(Message), NEW m \in Message, NEW n \in Int, NEW x \in Int, NEW b
  PROVE  ComesAt(Append(q, m), n, x, b) <=>
            /\ ComesAt(q, n, x, b)
            /\ m.op = "syncPut" /\ n + SyncPuts(q) + 1 = x => m.value = b
  <1>1. PICK r \in Seq(Message) : r = Append(q, m)
    BY AppendProperties
  <1>2. /\ DOMAIN r = DOMAIN q \cup {Len(q) + 1} /\ Len(q) \in Nat /\ r[Len(q) + 1] = m
        /\ \A i \in DOMAIN q : r[i] = q[i] /\ i \in 0 .. Len(q)
        /\ Len(r) = Len(q) + 1
    BY <1>1, AppendAt, AppendProperties, LenProperties
  <1>3. \A i \in DOMAIN q : Num(r, {"syncPut"}, 0, i) = Num(q, {"syncPut"}, 0, i)
    BY <1>1, <1>2, NumAppendBelow
  <1>4. Num(r, {"syncPut"}, 0, Len(q) + 1) = SyncPuts(q) + Part(m)
    BY <1>1, <1>2, PutsAppend DEF SyncPuts
  <1>5. m.op = "syncPut" => n + Num(r, {"syncPut"}, 0, Len(q) + 1) = n + SyncPuts(q) + 1
    BY <1>4, PutsNat DEF Part
  <1>6. ComesAt(r, n, x, b) <=>
           /\ \A i \in DOMAIN q : r[i].op = "syncPut" /\ n + Num(r, {"syncPut"}, 0, i) = x => r[i].value = b
           /\ m.op = "syncPut" /\ n + Num(r, {"syncPut"}, 0, Len(q) + 1) = x => m.value = b
    BY <1>2 DEF ComesAt
  <1>7. QED
    BY <1>1, <1>2, <1>3, <1>5, <1>6 DEF ComesAt

LEMMA ComesTail ==
  ASSUME NEW q \in Seq(Message), q # <<>>, NEW n \in Int, NEW x \in Int, NEW b
  PROVE  ComesAt(q, n, x, b) <=>
            /\ Head(q).op = "syncPut" /\ n + 1 = x => Head(q).value = b
            /\ ComesAt(Tail(q), n + Part(Head(q)), x, b)
  <1>1. PICK r \in Seq(Message) : r = Tail(q) /\ Without(q, r, 1)
    BY TailWithout
  <1>2. PICK h \in Message : h = Head(q) /\ h = q[1]
    BY TailWithout
  <1>3. /\ DOMAIN q = 1 .. Len(q) /\ Len(q) \in Nat /\ Len(q) >= 1
        /\ DOMAIN r = 1 .. Len(q) - 1
        /\ \A i \in DOMAIN r : r[i] = q[i + 1] /\ i + 1 \in DOMAIN q
        /\ \A i \in DOMAIN q : i # 1 => i - 1 \in DOMAIN r
    BY <1>1, TailAt
  <1>4. \A i \in DOMAIN q : Num(q, {"syncPut"}, 0, i) = Num(r, {"syncPut"}, 0, i - 1) + Part(h)
    <2>1. PICK ops : ops = {"syncPut"}
      OBVIOUS
    <2>2. PICK k : k = 1 /\ Without(q, r, k)
      BY <1>1
    <2>3. \A i \in k .. Len(q) : Num(q, ops, 0, i) = Num(r, ops, 0, i - 1) + Hit(q[k], ops, 0)
      BY <2>2, NumWithout
    <2>4. Hit(q[k], ops, 0) = Part(h)
      BY <1>2, <2>1, <2>2, SyncSector
    <2>5. QED
      BY <1>3, <2>1, <2>2, <2>3, <2>4
  <1>5. Num(r, {"syncPut"}, 0, 0) = 0 /\ Part(h) \in Nat /\ (h.op = "syncPut" => Part(h) = 1)
    BY NumStarts DEF Part
  <1>6. h.op = "syncPut" => n + Num(q, {"syncPut"}, 0, 1) = n + 1
    <2>1. 1 \in DOMAIN q /\ 1 - 1 = 0
      BY <1>3
    <2>2. QED
      BY <1>4, <1>5, <2>1
  <1>7. \A i \in DOMAIN r : n + Num(q, {"syncPut"}, 0, i + 1) = (n + Part(h)) + Num(r, {"syncPut"}, 0, i)
    <2>1. \A i \in DOMAIN r : (i + 1) - 1 = i /\ i + 1 \in DOMAIN q /\ Num(r, {"syncPut"}, 0, i) \in Nat
      BY <1>3, NumStarts
    <2>2. QED
      BY <1>4, <1>5, <2>1
  <1>8. ComesAt(q, n, x, b) <=>
           /\ h.op = "syncPut" /\ n + Num(q, {"syncPut"}, 0, 1) = x => h.value = b
           /\ \A i \in DOMAIN r : q[i + 1].op = "syncPut" /\ n + Num(q, {"syncPut"}, 0, i + 1) = x
                                     => q[i + 1].value = b
    <2>1. \A i \in DOMAIN q : i = 1 \/ \E j \in DOMAIN r : i = j + 1
      <3>1. \A i \in DOMAIN q : i # 1 => i - 1 \in DOMAIN r /\ i = (i - 1) + 1
        BY <1>3
      <3>2. QED
        BY <3>1
    <2>2. 1 \in DOMAIN q
      BY <1>3
    <2>3. QED
      BY <1>2, <1>3, <2>1, <2>2 DEF ComesAt
  <1>9. QED
    BY <1>1, <1>2, <1>3, <1>6, <1>7, <1>8 DEF ComesAt

LEMMA MildKeeps ==
  ASSUME NEW q \in Seq(Message), NEW r, Mild(q, r)
  PROVE  /\ SyncPuts(r) = SyncPuts(q)
         /\ \A n \in Int, x \in Int : \A b : ComesAt(q, n, x, b) => ComesAt(r, n, x, b)
  <1>1. SyncPuts(q) \in Nat
    BY PutsNat
  <1>2. CASE r = q
    BY <1>2
  <1>3. CASE q # <<>> /\ Head(q).op # "syncPut" /\ r = Tail(q)
    <2>1. Part(Head(q)) = 0 /\ Tail(q) \in Seq(Message)
      BY <1>3, TailWithout DEF Part
    <2>2. SyncPuts(Tail(q)) \in Nat
      BY <2>1, PutsNat
    <2>3. SyncPuts(r) = SyncPuts(q)
      BY <1>3, <2>1, <2>2, PutsTail
    <2>4. ASSUME NEW n \in Int, NEW x \in Int, NEW b, ComesAt(q, n, x, b)
          PROVE  ComesAt(r, n, x, b)
      <3>1. ComesAt(Tail(q), n + Part(Head(q)), x, b)
        BY <1>3, <2>4, ComesTail
      <3>2. n + Part(Head(q)) = n
        BY <2>1
      <3>3. QED
        BY <1>3, <3>1, <3>2
    <2>5. QED
      BY <2>3, <2>4
  <1>4. ASSUME NEW m \in Message, m.op # "syncPut", r = Append(q, m)
        PROVE  /\ SyncPuts(r) = SyncPuts(q)
               /\ \A n \in Int, x \in Int : \A b : ComesAt(q, n, x, b) => ComesAt(r, n, x, b)
    <2>1. SyncPuts(r) = SyncPuts(q)
      BY <1>1, <1>4, PutsAppend DEF Part
    <2>2. QED
      BY <1>4, <2>1, ComesAppend
  <1>5. QED
    BY <1>2, <1>3, <1>4 DEF Mild

\* In a queue of sectors the positions are the numbers.
LEMMA OnlyPutsCount ==
  ASSUME NEW q \in Seq(Message), OnlyPuts(q)
  PROVE  SyncPuts(q) = Len(q)
  <1>1. Len(q) \in Nat /\ DOMAIN q = 1 .. Len(q) /\ \A i \in DOMAIN q : q[i] \in Message
    BY LenProperties, ElementOfSeq
  <1>2. \A i \in DOMAIN q : q[i].op = "syncPut" /\ q[i].sector = 0
    <2>1. \A m \in Message : m.op = "syncPut" => m.sector = 0
      BY DEF Message, Job, SyncMessage
    <2>2. QED
      BY <1>1, <2>1 DEF OnlyPuts
  <1>3. Matching(q, {"syncPut"}, 0, Len(q)) = 1 .. Len(q)
    BY <1>1, <1>2 DEF Matching
  <1>4. Cardinality(1 .. Len(q)) = Len(q)
    <2>1. PICK n \in Nat : n = Len(q)
      BY <1>1
    <2>2. PICK k \in Int : k = 1
      OBVIOUS
    <2>3. Cardinality(k .. n) = IF k > n THEN 0 ELSE n - k + 1
      BY FS_Interval
    <2>4. QED
      BY <2>1, <2>2, <2>3
  <1>5. QED
    BY <1>3, <1>4 DEF SyncPuts, Num

-----------------------------------------------------------------------------
(* The volume of s: what it has of it, what is on its way to it, and what a *)
(* source has sent that PRAID has yet to forward.                           *)

Given(s, x, b) ==
    /\ x <= Got(s) => disk[s][x] = b
    /\ ComesAt(toPpd[s], Got(s), x, b)
    /\ \A m \in Storage : Replicating(s) /\ syncState.source = m =>
          ComesAt(fromPpd[m], Got(s) + SyncPuts(toPpd[s]), x, b)

GivenStays(s) == \A x \in Sector, b \in Value : Given(s, x, b) => Given(s, x, b)'

LEMMA SectorInt == Sector \subseteq Int /\ \A x \in Sector : x >= 1 /\ x <= VolumeSectors
  BY PraidAssumption DEF Sector

LEMMA GivenMild ==
  ASSUME TypeOK, NEW s \in Storage, disk'[s] = disk[s], Got(s)' = Got(s),
         Mild(toPpd[s], toPpd'[s]),
         \A m \in Storage : Replicating(s)' /\ syncState'.source = m =>
            \/ ~ Has(fromPpd'[m], {"syncPut"})
            \/ Replicating(s) /\ syncState.source = m /\ Mild(fromPpd[m], fromPpd'[m])
  PROVE  GivenStays(s)
  <1> SUFFICES ASSUME NEW x \in Sector, NEW b \in Value, Given(s, x, b)
               PROVE  Given(s, x, b)'
    BY DEF GivenStays
  <1>1. /\ toPpd[s] \in Seq(Message) /\ Got(s) \in Int /\ x \in Int
        /\ SyncPuts(toPpd[s]) \in Int
    BY NodeTypes, PutsNat, SectorInt
  <1>2. /\ SyncPuts(toPpd'[s]) = SyncPuts(toPpd[s])
        /\ ComesAt(toPpd'[s], Got(s), x, b)
    BY <1>1, MildKeeps DEF Given
  <1>3. ASSUME NEW m \in Storage, Replicating(s)', syncState'.source = m
        PROVE  ComesAt(fromPpd'[m], Got(s) + SyncPuts(toPpd[s]), x, b)
    <2>1. CASE ~ Has(fromPpd'[m], {"syncPut"})
      BY <2>1, ComesNone
    <2>2. CASE Replicating(s) /\ syncState.source = m /\ Mild(fromPpd[m], fromPpd'[m])
      <3>1. ComesAt(fromPpd[m], Got(s) + SyncPuts(toPpd[s]), x, b)
        BY <2>2 DEF Given
      <3>2. fromPpd[m] \in Seq(Message) /\ Got(s) + SyncPuts(toPpd[s]) \in Int
        BY <1>1, NodeTypes
      <3>3. QED
        BY <1>1, <2>2, <3>1, <3>2, MildKeeps
    <2>3. QED
      BY <1>3, <2>1, <2>2
  <1>4. QED
    BY <1>2, <1>3 DEF Given

LEMMA MildItself == \A q : Mild(q, q)
  BY DEF Mild

\* Messages to PPDs that are no part of a volume.
LEMMA SendMild ==
  ASSUME TypeOK, NEW d, NEW m \in Message, m.op # "syncPut", SendPpd(d, m), NEW s \in Storage
  PROVE  Mild(toPpd[s], toPpd'[s])
  <1>1. toPpd'[s] = toPpd[s] \/ toPpd'[s] = Append(toPpd[s], m)
    BY SendPpdReaches DEF TypeOK
  <1>2. QED
    BY <1>1 DEF Mild

LEMMA QuietGiven ==
  ASSUME TypeOK, NEW s \in Storage, Still(s), Mild(toPpd[s], toPpd'[s]),
         \A m \in Storage : Mild(fromPpd[m], fromPpd'[m]),
         Replicating(s)' => Replicating(s), syncState' = syncState
  PROVE  GivenStays(s)
  <1>1. Got(s)' = Got(s) /\ disk'[s] = disk[s]
    BY DEF Still, Got
  <1>2. QED
    BY <1>1, GivenMild

LEMMA AcceptorGiven ==
  ASSUME IInv, FlagRaised, Stages, NEW Quiet, Acceptor(Quiet), UNCHANGED nodeVars, NEW s \in Storage
  PROVE  GivenStays(s)
  <1> USE DEF IInv, TypeOK
  <1>1. Still(s) /\ Got(s)' = Got(s) /\ fromPpd' = fromPpd
    BY StillNodes DEF Got, Acceptor, DenyPpd, AcceptPpd, AddPpd, ValidateReplication,
       StartReplication, FireSynchronization, AcceptPfs
  <1>2. Mild(toPpd[s], toPpd'[s])
    <2>1. toPpd' = toPpd \/ \E d : \E op \in {"syncGet", "syncEnd"} : SendPpd(d, Sync(op, 0))
      BY DEF Acceptor, DenyPpd, AcceptPpd, AddPpd, ValidateReplication,
       StartReplication, FireSynchronization, AcceptPfs
    <2>2. ASSUME NEW d, NEW op \in {"syncGet", "syncEnd"}, SendPpd(d, Sync(op, 0))
          PROVE  Mild(toPpd[s], toPpd'[s])
      <3>1. PICK m \in Message : m = Sync(op, 0) /\ m.op # "syncPut"
        BY InitialValues, SyncOp
      <3>2. QED
        BY <2>2, <3>1, SendMild
    <2>3. QED
      BY <2>1, <2>2, MildItself
  <1>3. CASE FireSynchronization
    <2>1. syncState' = [source |-> acceptor.master, destiny |-> acceptor.destiny]
          /\ acceptor.pc = "fire"
      BY <1>3 DEF FireSynchronization
    <2>2. PICK m \in Storage : m = acceptor.master
      BY <2>1 DEF Stages, MasterServes
    <2>3. ~ Has(fromPpd[m], {"syncPut"})
      BY <2>1, StreamingHas DEF FlagRaised, Has
    <2>4. QED
      BY <1>1, <1>2, <2>1, <2>2, <2>3, GivenMild DEF Still
  <1>4. CASE ~ FireSynchronization
    <2>1. syncState' = syncState /\ (Replicating(s)' => Replicating(s))
      BY <1>4 DEF Acceptor, DenyPpd, AcceptPpd, AddPpd, ValidateReplication,
       StartReplication, AcceptPfs, Replicating, AcceptorAt, AcceptAgain
    <2>2. QED
      BY <1>1, <1>2, <2>1, QuietGiven, MildItself
  <1>5. QED
    BY <1>3, <1>4

LEMMA SenderGiven ==
  ASSUME IInv, NEW t \in Storage, Sender(t), UNCHANGED nodeVars, NEW s \in Storage
  PROVE  GivenStays(s)
  <1> USE DEF IInv, TypeOK
  <1>1. UNCHANGED <<fromPpd, syncVars, acceptor>>
    BY DEF Sender, SenderCheck, SenderSend, SenderExit, SenderRecord, SenderCount
  <1>2. Mild(toPpd[s], toPpd'[s])
    <2>1. CASE SenderSend(t)
      <3>1. pending[t] # <<>> /\ pending[t] \in Seq(Job)
        BY <2>1 DEF SenderSend, ThreadsHoldJobs, StorageTypeOK
      <3>2. PICK m \in Message : m = Head(pending[t]) /\ m.op # "syncPut"
        <4>1. Head(pending[t]) \in Job
          BY <3>1, HeadAndTail
        <4>2. QED
          BY <4>1 DEF Message, Job
      <3>3. QED
        BY <2>1, <3>2, SendMild DEF SenderSend
    <2>2. CASE ~ SenderSend(t)
      BY <2>2, MildItself DEF Sender, SenderCheck, SenderExit, SenderRecord, SenderCount
    <2>3. QED
      BY <2>1, <2>2
  <1>3. QED
    BY <1>1, <1>2, StillNodes, QuietGiven, MildItself DEF Replicating

\* A sector moves on from the messages of the source to those for the destiny.
LEMMA ForwardGiven ==
  ASSUME IInv, FlagRaised, OneSource, Stages, NEW t \in Storage, ListenerSyncPut(t),
         UNCHANGED nodeVars, NEW s \in Storage
  PROVE  GivenStays(s)
  <1> USE DEF IInv, TypeOK
  <1>1. Receives(t, "syncPut") /\ UNCHANGED <<acceptor, syncVars, ppdStatus>>
    BY DEF ListenerSyncPut
  <1>2. PICK d \in Storage : /\ d = syncState.destiny /\ Replicating(d) /\ ppdStatus[d] = "running"
                             /\ syncState.source = t
    BY <1>1, PairOf
  <1>3. /\ fromPpd[t] \in Seq(Message) /\ fromPpd[t] # <<>> /\ fromPpd'[t] = Tail(fromPpd[t])
        /\ Head(fromPpd[t]) \in Message /\ Head(fromPpd[t]).op = "syncPut"
    BY <1>1, ReceivesTail
  <1>4. PICK m \in Message : m = Head(fromPpd[t]) /\ m.op = "syncPut"
    BY <1>3
  <1>5. SendPpd(d, m)
    BY <1>2, <1>4 DEF ListenerSyncPut
  <1>6. toPpd'[d] = Append(toPpd[d], m) /\ \A u \in Storage \ {d} : toPpd'[u] = toPpd[u]
    BY <1>2, <1>5 DEF SendPpd, NetworkTypeOK
  <1>7. Still(s) /\ Got(s)' = Got(s) /\ disk'[s] = disk[s]
    BY StillNodes DEF Got
  <1>8. CASE s # d
    <2>1. ~ Replicating(s)' /\ Mild(toPpd[s], toPpd'[s])
      BY <1>1, <1>2, <1>6, <1>8, MildItself DEF Replicating
    <2>2. QED
      BY <1>7, <2>1, GivenMild
  <1>9. CASE s = d
    <2> SUFFICES ASSUME NEW x \in Sector, NEW b \in Value, Given(s, x, b)
                 PROVE  Given(s, x, b)'
      BY DEF GivenStays
    <2>1. /\ toPpd[s] \in Seq(Message) /\ Got(s) \in Int /\ x \in Int
          /\ SyncPuts(toPpd[s]) \in Int
      BY NodeTypes, PutsNat, SectorInt
    <2>2. PICK n \in Int : n = Got(s) + SyncPuts(toPpd[s])
      BY <2>1
    <2>3. ComesAt(toPpd[s], Got(s), x, b) /\ ComesAt(fromPpd[t], n, x, b)
      BY <1>2, <1>9, <2>2 DEF Given
    <2>4. (n + 1 = x => m.value = b) /\ ComesAt(fromPpd'[t], n + 1, x, b)
      <3>1. Part(Head(fromPpd[t])) = 1
        BY <1>3 DEF Part
      <3>2. QED
        BY <1>3, <1>4, <2>1, <2>2, <2>3, <3>1, ComesTail
    <2>5. ComesAt(toPpd'[s], Got(s), x, b)
      <3>1. Got(s) + SyncPuts(toPpd[s]) + 1 = x => m.value = b
        BY <2>2, <2>4
      <3>2. ComesAt(Append(toPpd[s], m), Got(s), x, b)
        BY <2>1, <2>3, <3>1, ComesAppend
      <3>3. QED
        BY <1>6, <1>9, <3>2
    <2>6. Got(s) + SyncPuts(toPpd'[s]) = n + 1
      <3>1. SyncPuts(toPpd'[s]) = SyncPuts(toPpd[s]) + 1
        BY <1>4, <1>6, <1>9, <2>1, PutsAppend DEF Part
      <3>2. QED
        BY <2>1, <2>2, <3>1
    <2>7. \A u \in Storage : Replicating(s)' /\ syncState'.source = u => u = t
      BY <1>1, <1>2
    <2>8. QED
      BY <1>7, <2>4, <2>5, <2>6, <2>7 DEF Given
  <1>10. QED
    BY <1>8, <1>9

LEMMA ListenerGiven ==
  ASSUME IInv, NobodyEnded, FlagRaised, OneSource, Stages, NEW t \in Storage, Listener(t),
         UNCHANGED nodeVars, NEW s \in Storage
  PROVE  GivenStays(s)
  <1> USE DEF IInv, TypeOK
  <1>1. CASE ListenerSyncPut(t)
    BY <1>1, ForwardGiven
  <1>2. CASE ListenerSyncEnd(t)
    <2>1. PICK m \in Message : m = Sync("syncEnd", 0) /\ m.op # "syncPut"
      BY InitialValues, SyncOp
    <2>2. Mild(toPpd[s], toPpd'[s])
      BY <1>2, <2>1, SendMild DEF ListenerSyncEnd
    <2>3. ~ Replicating(s)'
      BY <1>2 DEF ListenerSyncEnd, Replicating
    <2>4. Got(s)' = Got(s) /\ disk'[s] = disk[s]
      BY DEF Got
    <2>5. QED
      BY <2>2, <2>3, <2>4, GivenMild
  <1>3. CASE ListenerResponse(t)
    <2>1. UNCHANGED <<acceptor, syncVars, toPpd>> /\ Receives(t, "get")
      BY <1>3 DEF ListenerResponse
    <2>2. \A m \in Storage : Mild(fromPpd[m], fromPpd'[m])
      BY <2>1, ReceivesTail DEF Mild
    <2>3. QED
      BY <2>1, <2>2, StillNodes, MildItself, QuietGiven DEF Replicating
  <1>4. CASE ListenerReply(t) \/ ListenerForget(t)
    <2>1. UNCHANGED <<acceptor, syncVars, toPpd, fromPpd>>
      BY <1>4 DEF ListenerReply, ListenerForget
    <2>2. QED
      BY <2>1, StillNodes, MildItself, QuietGiven DEF Replicating
  <1>5. QED
    BY <1>1, <1>2, <1>3, <1>4, ListenerStays

LEMMA ElseGiven ==
  ASSUME TypeOK, UNCHANGED <<acceptor, syncVars, toPpd, fromPpd, nodeVars>>, NEW s \in Storage
  PROVE  GivenStays(s)
  BY StillNodes, MildItself, QuietGiven DEF Replicating

\* A PPD that runs has its volume whole, or does nothing but receive it.
LEMMA RunningStage ==
  ASSUME Stages, NEW s \in Storage, ppdStatus[s] = "running"
  PROVE  \/ Whole(s) /\ ~ Idle(s) /\ ~ Replicating(s)
         \/ Idle(s) /\ (Settling(s) \/ OnlyPuts(toPpd[s]))
  <1>1. Whole(s) => ~ Idle(s)
    BY DEF Whole, Idle
  <1>2. CASE Replicating(s)
    <2>1. PICK m \in Storage : m = syncState.source
      BY <1>2 DEF Stages, PairRebuilds, Replicating
    <2>2. Idle(s) /\ OnlyPuts(toPpd[s])
      BY <1>2, <2>1 DEF Stages, PairRebuilds, Rebuilds
    <2>3. QED
      BY <2>2
  <1>3. CASE Admitted(s)
    BY <1>3 DEF Stages, StagesFollow, Fresh, OnlyPuts
  <1>4. CASE Sources(s) /\ ~ Replicating(s)
    BY <1>1, <1>4 DEF Sources, Settling
  <1>5. QED
    BY <1>2, <1>3, <1>4 DEF Stages, StagesFollow

LEMMA NodeLeaves ==
  ASSUME IInv, NEW t \in Storage, NodeWorks(t), deaths' = 0, NEW s \in Storage, s # t
  PROVE  /\ disk'[s] = disk[s] /\ Got(s)' = Got(s) /\ Mild(toPpd[s], toPpd'[s])
         /\ \A m \in Storage : ~ (m = t /\ NodeStream(t)) => Mild(fromPpd[m], fromPpd'[m])
         /\ UNCHANGED <<acceptor, syncVars>>
  <1> USE DEF IInv, TypeOK
  <1>1. /\ UNCHANGED <<acceptor, syncVars>>
        /\ \A u \in Storage \ {t} : Still(u) /\ toPpd'[u] = toPpd[u] /\ fromPpd'[u] = fromPpd[u]
    BY NodeOthers
  <1>2. disk'[s] = disk[s] /\ Got(s)' = Got(s) /\ Mild(toPpd[s], toPpd'[s])
    BY <1>1, MildItself DEF Still, Got
  <1>3. ~ NodeStream(t) => Mild(fromPpd[t], fromPpd'[t])
    <2>1. CASE NodeExecute(t)
      <3>1. \/ fromPpd'[t] = fromPpd[t]
            \/ \E n \in Message : /\ n.op \notin {"syncPut", "syncEnd"}
                                  /\ fromPpd'[t] = Append(fromPpd[t], n)
        BY <2>1, ExecuteOutcome
      <3>2. QED
        BY <3>1 DEF Mild
    <2>2. CASE NodeStreamEnd(t)
      <3>1. PICK n \in Message : n = Sync("syncEnd", 0) /\ n.op # "syncPut"
        BY InitialValues, SyncOp
      <3>2. fromPpd'[t] = Append(fromPpd[t], n)
        BY <2>2, <3>1 DEF NodeStreamEnd, NetworkTypeOK
      <3>3. QED
        BY <3>1, <3>2 DEF Mild
    <2>3. CASE NodeQueueJob(t) \/ NodeSyncGet(t) \/ NodeUnmap(t) \/ NodeSyncPut(t) \/ NodeSyncEnd(t)
      BY <2>3, MildItself DEF NodeQueueJob, NodeSyncGet, NodeUnmap, NodeSyncPut, NodeSyncEnd
    <2>4. CASE NodeLosesJob(t)
      BY <2>4, MildItself DEF NodeLosesJob
    <2>5. QED
      BY <2>1, <2>2, <2>3, <2>4 DEF NodeWorks, Node
  <1>4. QED
    BY <1>1, <1>2, <1>3, MildItself

\* The PPD that is rebuilt writes the next sector of its volume.
LEMMA RebuildGiven ==
  ASSUME IInv, Stages, NEW s \in Storage, NodeSyncPut(s), deaths' = 0, NodeWorks(s)
  PROVE  GivenStays(s)
  <1> USE DEF IInv, TypeOK
  <1>1. /\ toPpd[s] # <<>> /\ toPpd[s][1].op = "syncPut" /\ Head(toPpd[s]) = toPpd[s][1]
        /\ toPpd'[s] = Tail(toPpd[s]) /\ Head(toPpd[s]) \in Message
        /\ 1 \in DOMAIN toPpd[s]
    BY TakesOutcome DEF NodeSyncPut
  <1>2. ppdStatus[s] = "running" /\ UNCHANGED <<acceptor, syncVars, fromPpd>>
    BY DEF NodeSyncPut, Takes
  <1>3. Idle(s)
    <2>1. Has(toPpd[s], {"syncPut", "syncEnd"})
      BY <1>1 DEF Has
    <2>2. QED
      BY <1>2, <2>1, RunningStage DEF Whole
  <1>4. /\ Got(s)' = Got(s) + 1 /\ disk'[s][Got(s) + 1] = toPpd[s][1].value
        /\ \A x \in 1 .. Got(s) : disk'[s][x] = disk[s][x]
    BY <1>3, SyncPutOutcome
  <1> SUFFICES ASSUME NEW x \in Sector, NEW b \in Value, Given(s, x, b)
               PROVE  Given(s, x, b)'
    BY DEF GivenStays
  <1>5. /\ toPpd[s] \in Seq(Message) /\ Got(s) \in Nat /\ x \in Int /\ x >= 1
        /\ SyncPuts(toPpd[s]) \in Int
    BY NodeTypes, PutsNat, SectorInt
  <1>6. Part(Head(toPpd[s])) = 1
    BY <1>1 DEF Part
  <1>7. (Got(s) + 1 = x => toPpd[s][1].value = b) /\ ComesAt(toPpd'[s], Got(s) + 1, x, b)
    BY <1>1, <1>5, <1>6, ComesTail DEF Given
  <1>8. x <= Got(s) + 1 => disk'[s][x] = b
    <2>1. x <= Got(s) + 1 => x \in 1 .. Got(s) \/ x = Got(s) + 1
      BY <1>5
    <2>2. x \in 1 .. Got(s) => disk[s][x] = b
      BY <1>5 DEF Given
    <2>3. QED
      BY <1>4, <1>7, <2>1, <2>2
  <1>9. (Got(s) + 1) + SyncPuts(toPpd'[s]) = Got(s) + SyncPuts(toPpd[s])
    <2>1. Tail(toPpd[s]) \in Seq(Message)
      BY <1>1, <1>5, HeadTailProperties
    <2>2. SyncPuts(toPpd[s]) = SyncPuts(Tail(toPpd[s])) + 1
      BY <1>1, <1>5, <1>6, PutsTail
    <2>3. SyncPuts(Tail(toPpd[s])) \in Nat
      <3>1. PICK q \in Seq(Message) : q = Tail(toPpd[s])
        BY <2>1
      <3>2. QED
        BY <3>1, PutsNat
    <2>4. QED
      BY <1>1, <1>5, <2>2, <2>3
  <1>10. QED
    BY <1>2, <1>4, <1>7, <1>8, <1>9 DEF Given, Replicating

\* What a PPD does but execute a job takes nothing from its volume.
LEMMA OwnGiven ==
  ASSUME IInv, Stages, NEW s \in Storage, NodeWorks(s), ~ NodeExecute(s), deaths' = 0
  PROVE  GivenStays(s)
  <1> USE DEF IInv, TypeOK
  <1>1. /\ UNCHANGED <<acceptor, syncVars, ppdStatus>> /\ ppdStatus[s] = "running"
        /\ \A u \in Storage \ {s} : fromPpd'[u] = fromPpd[u]
    BY NodeOthers
  <1>2. ASSUME NEW m \in Storage, Replicating(s)', syncState'.source = m
        PROVE  Replicating(s) /\ syncState.source = m /\ Mild(fromPpd[m], fromPpd'[m])
    <2>1. Replicating(s) /\ syncState.source = m
      BY <1>1, <1>2 DEF Replicating
    <2>2. m # s
      BY <2>1 DEF Stages, PairRebuilds
    <2>3. QED
      BY <1>1, <2>1, <2>2, MildItself
  <1>3. ASSUME disk'[s] = disk[s], Got(s)' = Got(s), Mild(toPpd[s], toPpd'[s])
        PROVE  GivenStays(s)
    BY <1>2, <1>3, GivenMild
  <1>4. CASE NodeSyncPut(s)
    BY <1>4, RebuildGiven
  <1>5. CASE NodeQueueJob(s)
    <2>1. disk'[s] = disk[s] /\ Got(s)' = Got(s)
      BY <1>5 DEF NodeQueueJob, Got
    <2>2. toPpd[s] # <<>> /\ Head(toPpd[s]).op # "syncPut" /\ toPpd'[s] = Tail(toPpd[s])
      BY <1>5, TakesTail DEF NodeQueueJob
    <2>3. QED
      BY <1>3, <2>1, <2>2 DEF Mild
  <1>6. CASE NodeSyncGet(s)
    <2>1. ~ Ends(s)
      BY EndsStay DEF Ends, NodeTypeOK
    <2>2. disk'[s] = disk[s] /\ Got(s)' = Got(s) /\ Takes(s, {"syncGet"})
      BY <1>6, <2>1 DEF NodeSyncGet, Got
    <2>3. toPpd[s] # <<>> /\ Head(toPpd[s]).op # "syncPut" /\ toPpd'[s] = Tail(toPpd[s])
      BY <2>2, TakesTail
    <2>4. QED
      BY <1>3, <2>2, <2>3 DEF Mild
  <1>7. CASE NodeStream(s) \/ NodeUnmap(s)
    <2>1. disk'[s] = disk[s] /\ Got(s)' = Got(s) /\ toPpd' = toPpd
      BY <1>7 DEF NodeStream, NodeUnmap, Got
    <2>2. QED
      BY <1>3, <2>1, MildItself
  <1>8. CASE NodeStreamEnd(s)
    <2>1. stream[s] # 0 /\ stream[s] \in Nat
      BY <1>8, NodeTypes DEF NodeStreamEnd, Streamed
    <2>2. ready[s]
      BY <1>1, <2>1, RunningStage DEF Idle, Whole
    <2>3. disk'[s] = disk[s] /\ Got(s)' = Got(s) /\ toPpd' = toPpd
      BY <1>8, <2>2 DEF NodeStreamEnd, Got
    <2>4. QED
      BY <1>3, <2>3, MildItself
  <1>9. CASE NodeSyncEnd(s)
    <2>1. /\ toPpd[s] # <<>> /\ toPpd[s][1].op = "syncEnd" /\ Head(toPpd[s]) = toPpd[s][1]
          /\ toPpd'[s] = Tail(toPpd[s]) /\ 1 \in DOMAIN toPpd[s] /\ DOMAIN toPpd[s] = 1 .. Len(toPpd[s])
      BY <1>9, TakesOutcome DEF NodeSyncEnd
    <2>2. Settling(s) /\ Idle(s)
      <3>1. Has(toPpd[s], {"syncPut", "syncEnd"}) /\ ~ OnlyPuts(toPpd[s])
        BY <2>1 DEF Has, OnlyPuts
      <3>2. QED
        BY <1>1, <3>1, RunningStage DEF Whole
    <2>3. PICK e \in Nat : SettlesAt(s, e)
      BY <2>2 DEF Settling
    <2>4. e = 1 /\ Got(s) = VolumeSectors /\ VolumeSectors >= 1
      <3>1. e >= 1 /\ ~ (1 < e) /\ Got(s) + e = VolumeSectors + 1
        BY <2>1, <2>3 DEF SettlesAt
      <3>2. Got(s) \in Nat /\ VolumeSectors \in Nat /\ VolumeSectors >= 1
        BY NodeTypes
      <3>3. QED
        BY <3>1, <3>2
    <2>5. Got(s) = Len(disk[s])
      BY <2>4 DEF Got
    <2>6. disk'[s] = disk[s] /\ ready'[s]
      BY <1>9 DEF NodeSyncEnd, NodeTypeOK
    <2>7. Got(s)' = Got(s)
      BY <2>5, <2>6 DEF Got
    <2>8. QED
      BY <1>3, <2>1, <2>6, <2>7 DEF Mild
  <1>10. CASE NodeLosesJob(s)
    <2>1. disk'[s] = disk[s] /\ Got(s)' = Got(s) /\ toPpd' = toPpd
      BY <1>10 DEF NodeLosesJob, Got
    <2>2. QED
      BY <1>3, <2>1, MildItself
  <1>11. QED
    BY <1>4, <1>5, <1>6, <1>7, <1>8, <1>9, <1>10 DEF NodeWorks, Node

LEMMA NodeGiven ==
  ASSUME IInv, Stages, NEW t \in Storage, NodeWorks(t), deaths' = 0, NEW s \in Storage,
         ~ (t = s /\ NodeExecute(s)),
         ~ (NodeStream(t) /\ Replicating(s) /\ syncState.source = t)
  PROVE  GivenStays(s)
  <1>1. CASE t = s
    BY <1>1, OwnGiven
  <1>2. CASE t # s
    <2>1. /\ disk'[s] = disk[s] /\ Got(s)' = Got(s) /\ Mild(toPpd[s], toPpd'[s])
          /\ UNCHANGED <<acceptor, syncVars>>
      BY <1>2, NodeLeaves
    <2>2. ASSUME NEW m \in Storage, Replicating(s)', syncState'.source = m
          PROVE  Replicating(s) /\ syncState.source = m /\ Mild(fromPpd[m], fromPpd'[m])
      <3>1. Replicating(s) /\ syncState.source = m
        BY <2>1, <2>2 DEF Replicating
      <3>2. QED
        BY <1>2, <3>1, NodeLeaves
    <2>3. QED
      BY <2>1, <2>2, GivenMild DEF IInv
  <1>3. QED
    BY <1>1, <1>2

\* A PPD that serves has on its disk what it was given; one that was told
\* nothing was given anything.
LEMMA WholeGiven ==
  ASSUME NEW s \in Storage, Whole(s), ~ Replicating(s)
  PROVE  \A x \in Sector : \A b : Given(s, x, b) <=> disk[s][x] = b
  <1>1. Got(s) = VolumeSectors /\ ~ Has(toPpd[s], {"syncPut"})
    BY DEF Whole, Got, Has
  <1>2. \A n, x, b : ComesAt(toPpd[s], n, x, b)
    BY <1>1, ComesNone
  <1>3. \A x \in Sector : x <= Got(s)
    BY <1>1, SectorInt
  <1>4. QED
    BY <1>2, <1>3 DEF Given

LEMMA FreshGiven ==
  ASSUME TypeOK, NEW s \in Storage, Fresh(s), ~ Replicating(s)
  PROVE  \A x \in Sector : \A b : Given(s, x, b)
  <1>1. Got(s) = 0 /\ ~ Has(toPpd[s], {"syncPut"})
    BY HasNothing DEF Fresh, Idle, Got
  <1>2. \A n, x, b : ComesAt(toPpd[s], n, x, b)
    BY <1>1, ComesNone
  <1>3. \A x \in Sector : ~ (x <= Got(s))
    BY <1>1, SectorInt
  <1>4. QED
    BY <1>2, <1>3 DEF Given

\* The source sends the next sector of its volume.
LEMMA StreamGiven ==
  ASSUME IInv, OneSource, Stages, NEW m \in Storage, NodeStream(m), deaths' = 0, NodeWorks(m),
         NEW s \in Storage, Replicating(s), syncState.source = m
  PROVE  /\ Whole(m) /\ ~ Replicating(m)
         /\ \E y \in Sector, v \in Value :
               /\ v = disk[m][y] /\ Given(s, y, v)'
               /\ \A x \in Sector, b \in Value : x # y /\ Given(s, x, b) => Given(s, x, b)'
  <1> USE DEF IInv, TypeOK
  <1>1. /\ stream[m] \in DOMAIN disk[m] /\ disk[m] \in Seq(Value) /\ DOMAIN disk[m] = 1 .. Len(disk[m])
        /\ stream[m] \in Nat /\ ppdStatus[m] = "running"
    BY LenProperties, NodeTypes DEF NodeStream
  <1>2. Whole(m) /\ ~ Replicating(m)
    <2>1. ~ Idle(m)
      BY <1>1 DEF Idle
    <2>2. QED
      BY <1>1, <2>1, RunningStage
  <1>3. stream[m] \in Sector /\ disk[m][stream[m]] \in Value
    BY <1>1, <1>2, ElementOfSeq DEF Whole, Sector
  <1>4. PICK v \in Value : v = disk[m][stream[m]]
    BY <1>3
  <1>5. PICK n \in Message : n = Sync("syncPut", v) /\ n.op = "syncPut" /\ n.value = v
    BY SyncOp DEF Sync
  <1>6. fromPpd'[m] = Append(fromPpd[m], n)
    BY <1>4, <1>5 DEF NodeStream, NetworkTypeOK
  <1>7. m # s /\ Rebuilds(s, m)
    BY DEF Stages, PairRebuilds
  <1>8. /\ disk'[s] = disk[s] /\ Got(s)' = Got(s) /\ toPpd'[s] = toPpd[s]
        /\ UNCHANGED <<acceptor, syncVars>>
    BY DEF NodeStream, Got
  <1>9. PICK k \in Int : k = Got(s) + SyncPuts(toPpd[s])
    BY NodeTypes, PutsNat
  <1>10. k + SyncPuts(fromPpd[m]) + 1 = stream[m] /\ Got(s) <= k /\ SyncPuts(fromPpd[m]) \in Nat
    <2>1. SyncPuts(toPpd[s]) = Len(toPpd[s]) /\ Got(s) + Len(toPpd[s]) + Sent(m) = stream[m] - 1
      BY <1>1, <1>7, NodeTypes, OnlyPutsCount DEF Rebuilds, Read
    <2>2. Got(s) \in Nat /\ Len(toPpd[s]) \in Nat /\ Sent(m) \in Nat
      BY NodeTypes
    <2>3. QED
      BY <1>1, <1>9, <2>1, <2>2 DEF Sent
  <1>11. /\ fromPpd[m] \in Seq(Message) /\ toPpd[s] \in Seq(Message) /\ Got(s) \in Int
         /\ SyncPuts(toPpd[s]) \in Int
    BY NodeTypes, PutsNat
  <1>12. \A x \in Sector : \A b : ComesAt(fromPpd'[m], k, x, b) <=>
            ComesAt(fromPpd[m], k, x, b) /\ (x = stream[m] => b = v)
    <2> SUFFICES ASSUME NEW x \in Sector, NEW b
                 PROVE  ComesAt(Append(fromPpd[m], n), k, x, b) <=>
                           ComesAt(fromPpd[m], k, x, b) /\ (x = stream[m] => b = v)
      BY <1>6
    <2>1. x \in Int
      BY SectorInt
    <2>2. QED
      BY <1>5, <1>10, <1>11, <2>1, ComesAppend
  <1>13. ASSUME NEW x \in Sector, NEW b \in Value, x # stream[m], Given(s, x, b)
         PROVE  Given(s, x, b)'
    <2>1. ComesAt(fromPpd[m], k, x, b)
      BY <1>9, <1>13 DEF Given
    <2>2. ComesAt(fromPpd'[m], k, x, b)
      BY <1>12, <1>13, <2>1
    <2>3. \A u \in Storage : Replicating(s)' /\ syncState'.source = u => u = m
      BY <1>8
    <2>4. QED
      BY <1>8, <1>9, <1>13, <2>2, <2>3 DEF Given
  <1>14. PICK y \in Sector : y = stream[m] /\ y \in Int
    BY <1>3, SectorInt
  <1>15. Given(s, y, v)'
    <2>1. ~ (y <= Got(s)) /\ Got(s) + SyncPuts(toPpd[s]) < y /\ k + SyncPuts(fromPpd[m]) < y
      BY <1>9, <1>10, <1>11, <1>14
    <2>2. ComesAt(toPpd[s], Got(s), y, v) /\ ComesAt(fromPpd[m], k, y, v)
      BY <1>11, <1>14, <2>1, ComesBeyond
    <2>3. ComesAt(fromPpd'[m], k, y, v)
      BY <1>12, <1>14, <2>2
    <2>4. \A u \in Storage : Replicating(s)' /\ syncState'.source = u => u = m
      BY <1>8
    <2>5. QED
      BY <1>8, <1>9, <2>1, <2>2, <2>3, <2>4 DEF Given
  <1>16. QED
    BY <1>2, <1>4, <1>13, <1>14, <1>15

LEMMA WholeGivenNext ==
  ASSUME NEW s \in Storage, Whole(s)', ~ Replicating(s)'
  PROVE  \A x \in Sector : \A b : Given(s, x, b)' <=> disk'[s][x] = b
  <1>1. Got(s)' = VolumeSectors /\ ~ Has(toPpd'[s], {"syncPut"})
    BY DEF Whole, Got, Has
  <1>2. \A n, x, b : ComesAt(toPpd'[s], n, x, b)
    BY <1>1, ComesNone
  <1>3. \A x \in Sector : x <= VolumeSectors
    BY SectorInt
  <1>4. QED
    BY <1>1, <1>2, <1>3 DEF Given

LEMMA ExecuteGiven ==
  ASSUME IInv, Stages, NEW s \in Storage, NodeWorks(s), NodeExecute(s), deaths' = 0
  PROVE  /\ Len(disk[s]) = VolumeSectors
         /\ \A x \in Sector : \A b : Given(s, x, b) <=> disk[s][x] = b
         /\ \A x \in Sector : \A b : Given(s, x, b)' <=> disk'[s][x] = b
  <1>1. jobs[s] # <<>> /\ ppdStatus[s] = "running" /\ UNCHANGED <<acceptor, syncVars>>
    BY ExecuteOutcome, NodeOthers
  <1>2. Whole(s) /\ ~ Replicating(s)
    BY <1>1, RunningStage DEF Idle
  <1>3. Whole(s)' /\ ~ Replicating(s)'
    BY <1>1, <1>2, WholeStays DEF Replicating
  <1>4. QED
    BY <1>2, <1>3, WholeGiven, WholeGivenNext DEF Whole

-----------------------------------------------------------------------------
(* The sectors as PRAID leaves them to a PPD that has them all and is told  *)
(* nothing: what c has asked for and what its thread has in hand.           *)

Writing(c) == worker[c].pc \in {"walk", "put"}
BasisOf(c, x, b) == Upon(requests[c], x, Upon(Hand(c, Writing(c)), x, b))
Basis(c) == \A x \in Sector : \E b \in Value : BasisOf(c, x, b) = lastPut[x]

LEMMA BasisSame ==
  ASSUME NEW c, Basis(c), UNCHANGED lastPut, SameWrites(requests[c], requests'[c]),
         SameWrites(Hand(c, Writing(c)), Hand(c, Writing(c))')
  PROVE  Basis(c)'
  BY DEF Basis, BasisOf, SameWrites

LEMMA HandBasis ==
  ASSUME NEW c
  PROVE  /\ ~ Writing(c) => Hand(c, Writing(c)) = <<>>
         /\ ~ Writing(c)' => Hand(c, Writing(c))' = <<>>
         /\ Writing(c) => Hand(c, Writing(c)) = <<worker[c].job>>
         /\ Writing(c)' => Hand(c, Writing(c))' = <<worker'[c].job>>
         /\ UNCHANGED worker => Hand(c, Writing(c))' = Hand(c, Writing(c))
  BY DEF Hand, Writing

LEMMA ReceiveBasis ==
  ASSUME IInv, NEW c \in Socket, storages # <<>>, Basis(c), PfsReceive(c), UNCHANGED clientVars
  PROVE  Basis(c)'
  <1> USE DEF IInv, TypeOK
  <1>1. /\ requests[c] \in Seq(Job) /\ requests[c] # <<>> /\ worker[c].pc = "receive"
        /\ requests'[c] = Tail(requests[c])
    BY DEF NetworkTypeOK, PfsReceive
  <1>2. PICK job \in Job : job = Head(requests[c])
    BY <1>1, HeadAndTail
  <1>3. Hand(c, Writing(c)) = <<>>
    BY <1>1, HandBasis DEF Writing
  <1>4. CASE job.op = "get"
    <2>1. worker'[c].pc = "select"
      BY <1>2, <1>4 DEF PfsReceive, WorkerMoves, WorkerAt, ThreadTypeOK
    <2>2. Hand(c, Writing(c))' = <<>>
      BY <2>1, HandBasis DEF Writing
    <2>3. SameWrites(requests[c], requests'[c])
      BY <1>1, <1>2, <1>4, SameTail
    <2>4. QED
      BY <1>3, <2>2, <2>3, BasisSame, SameItself
  <1>5. CASE job.op = "put"
    <2>1. worker'[c].pc = "walk" /\ worker'[c].job = job
      BY <1>2, <1>5 DEF PfsReceive, WorkerMoves, WorkerAt, ThreadTypeOK
    <2>2. Hand(c, Writing(c))' = <<job>>
      BY <2>1, HandBasis DEF Writing
    <2>3. \A x, b : BasisOf(c, x, b)' = BasisOf(c, x, b)
      <3> SUFFICES ASSUME NEW x, NEW b
                   PROVE  Upon(Tail(requests[c]), x, Upon(<<job>>, x, b)) =
                          Upon(requests[c], x, Upon(<<>>, x, b))
        BY <1>1, <1>3, <2>2 DEF BasisOf
      <3>1. Upon(requests[c], x, b) =
               Upon(Tail(requests[c]), x, IF IsWrite(job, x) THEN job.value ELSE b)
        BY <1>1, <1>2, UponTail
      <3>2. QED
        BY <3>1, UponOne, UponEmpty
    <2>4. QED
      BY <2>3 DEF Basis
  <1>6. QED
    BY <1>4, <1>5 DEF Job

LEMMA PutBasis ==
  ASSUME IInv, JobsInHand, NEW c \in Socket, Basis(c), ExecutePut(c), UNCHANGED clientVars
  PROVE  Basis(c)'
  <1> USE DEF IInv, TypeOK
  <1>1. PICK job \in Job : job = worker[c].job
    BY DEF ExecutePut, ThreadsHoldJobs
  <1>2. requests' = requests /\ lastPut' = lastPut /\ Hand(c, Writing(c)) = <<job>>
    BY <1>1, HandBasis DEF ExecutePut, Writing
  <1>3. CASE worker[c].next = Nil
    <2>1. ~ Writing(c)'
      BY <1>3 DEF ExecutePut, WorkerLoops, WorkerMoves, WorkerAt, ThreadTypeOK, Writing
    <2>2. Hand(c, Writing(c))' = <<>>
      BY <2>1, HandBasis
    <2>3. ASSUME NEW x \in Sector
          PROVE  \E b \in Value : BasisOf(c, x, b)' = lastPut[x]
      <3>1. PICK b \in Value : BasisOf(c, x, b) = lastPut[x]
        BY DEF Basis
      <3>2. PICK a \in Value : a = IF IsWrite(job, x) THEN job.value ELSE b
        BY DEF Job
      <3>3. Upon(<<>>, x, a) = Upon(<<job>>, x, b)
        BY <3>2, UponOne, UponEmpty
      <3>4. BasisOf(c, x, a)' = BasisOf(c, x, b)
        BY <1>2, <2>2, <3>3 DEF BasisOf
      <3>5. QED
        BY <3>1, <3>4
    <2>4. QED
      BY <1>2, <2>3 DEF Basis
  <1>4. CASE worker[c].next # Nil
    <2>1. Writing(c)' /\ worker'[c].job = job
      BY <1>1, <1>4 DEF ExecutePut, WorkerMoves, WorkerAt, ThreadTypeOK, Writing
    <2>2. Hand(c, Writing(c))' = <<job>>
      BY <2>1, HandBasis
    <2>3. QED
      BY <1>2, <2>2, BasisSame, SameItself
  <1>5. QED
    BY <1>3, <1>4

LEMMA ClientBasis ==
  ASSUME IInv, NEW c \in Socket, Socket = {c}, Basis(c), ClientStep, InitialStorages # <<>>
  PROVE  Basis(c)'
  <1> USE DEF IInv, TypeOK
  <1>1. worker' = worker /\ requests[c] \in Seq(Job)
        /\ Hand(c, Writing(c))' = Hand(c, Writing(c))
    <2>1. worker' = worker /\ requests[c] \in Seq(Job)
      BY DEF ClientStep, ClientGet, ClientPut, ClientReceive, NetworkTypeOK
    <2>2. QED
      BY <2>1, HandBasis
  <1>2. PICK s \in Storage : TRUE
    <2>1. InitialStorages[1] \in Storage
      <3>1. InitialStorages \in Seq(Storage) /\ InitialStorages # <<>>
        BY PraidAssumption
      <3>2. 1 \in DOMAIN InitialStorages
        BY <3>1, LenProperties
      <3>3. QED
        BY <3>1, <3>2, ElementOfSeq
    <2>2. QED
      BY <2>1
  <1>3. CASE ClientReceive(c)
    <2>1. UNCHANGED <<requests, lastPut>>
      BY <1>3 DEF ClientReceive
    <2>2. QED
      BY <1>1, <2>1, BasisSame, SameItself
  <1>4. ASSUME NEW x \in Sector, ClientGet(c, x)
        PROVE  Basis(c)'
    <2>1. PICK job \in Job : /\ job = [op |-> "get", socket |-> c, sector |-> x, value |-> 0]
                             /\ requests'[c] = Append(requests[c], job)
      BY <1>4, InitialValues DEF ClientGet, NetworkTypeOK, Job
    <2>2. SameWrites(requests[c], requests'[c])
      BY <1>1, <2>1, SameAppend
    <2>3. lastPut' = lastPut
      BY <1>4 DEF ClientGet
    <2>4. QED
      BY <1>1, <2>2, <2>3, BasisSame, SameItself
  <1>5. ASSUME NEW x \in Sector, ClientPut(c, x)
        PROVE  Basis(c)'
    <2>1. PICK job \in Job : /\ job.op = "put" /\ requests'[c] = Append(requests[c], job)
                             /\ lastPut' = [lastPut EXCEPT ![job.sector] = job.value]
      <3>1. puts + 1 \in Value
        BY <1>5, PraidAssumption DEF ClientPut, Value, Stale, ClientTypeOK
      <3>2. PICK job \in Job : job = [op |-> "put", socket |-> c, sector |-> x, value |-> puts + 1]
        BY <3>1 DEF Job
      <3>3. QED
        BY <1>5, <3>2 DEF ClientPut, NetworkTypeOK
    <2>2. ASSUME NEW y \in Sector
          PROVE  \E b \in Value : BasisOf(c, y, b)' = lastPut'[y]
      <3>1. PICK b \in Value : BasisOf(c, y, b) = lastPut[y]
        BY DEF Basis
      <3>2. BasisOf(c, y, b)' = IF IsWrite(job, y) THEN job.value ELSE BasisOf(c, y, b)
        <4>1. \A d : Upon(Append(requests[c], job), y, d) =
                     IF IsWrite(job, y) THEN job.value ELSE Upon(requests[c], y, d)
          BY <1>1, UponAppend
        <4>2. QED
          BY <1>1, <2>1, <4>1 DEF BasisOf
      <3>3. lastPut'[y] = IF IsWrite(job, y) THEN job.value ELSE lastPut[y]
        BY <2>1 DEF IsWrite, ClientTypeOK
      <3>4. QED
        BY <3>1, <3>2, <3>3
    <2>3. QED
      BY <2>2 DEF Basis
  <1>6. QED
    BY <1>3, <1>4, <1>5 DEF ClientStep

LEMMA BasisStep ==
  ASSUME IInv, JobsInHand, NobodyEnded, Stages, NEW c \in Socket, Socket = {c}, Basis(c), [Next]_vars,
         InitialStorages # <<>>
  PROVE  Basis(c)'
  <1> USE DEF IInv, TypeOK
  <1>1. CASE UNCHANGED <<requests, worker, lastPut>>
    BY <1>1, HandBasis, BasisSame, SameItself DEF Writing
  <1>2. CASE AcceptPfs(c) /\ UNCHANGED clientVars
    <2>1. worker[c].pc = "off" /\ worker'[c].pc = "receive" /\ UNCHANGED <<requests, lastPut>>
      BY <1>2 DEF AcceptPfs, WorkerLoops, WorkerMoves, WorkerAt, ThreadTypeOK
    <2>2. QED
      BY <2>1, HandBasis, BasisSame, SameItself DEF Writing
  <1>3. CASE Worker(c) /\ UNCHANGED clientVars
    <2>1. CASE PfsReceive(c)
      BY <1>3, <2>1, ReceiveBasis DEF Stages, ListedRun
    <2>2. CASE ExecutePut(c)
      BY <1>3, <2>2, PutBasis
    <2>3. CASE SelectForGet(c) \/ EnqueueGet(c)
      <3>1. /\ ~ Writing(c) /\ ~ Writing(c)' /\ UNCHANGED <<requests, lastPut>>
        BY <1>3, <2>3 DEF SelectForGet, EnqueueGet, WorkerLoops, WorkerMoves, WorkerAt, ThreadTypeOK,
           Writing
      <3>2. QED
        BY <3>1, HandBasis, BasisSame, SameItself DEF Writing
    <2>4. CASE IterateStorages(c)
      <3>1. /\ Writing(c) /\ Writing(c)' /\ UNCHANGED <<requests, lastPut>>
            /\ worker'[c].job = worker[c].job
        BY <1>3, <2>4 DEF IterateStorages, WorkerMoves, WorkerPuts, ThreadTypeOK, Writing
      <3>2. Hand(c, Writing(c))' = Hand(c, Writing(c))
        BY <3>1, HandBasis
      <3>3. QED
        BY <3>1, <3>2, BasisSame, SameItself
    <2>5. QED
      BY <1>3, <2>1, <2>2, <2>3, <2>4 DEF Worker
  <1>4. CASE ClientStep
    BY <1>4, ClientBasis
  <1>5. CASE PraidStep
    <2>1. CASE Acceptor(Drained)
      BY <1>1, <1>2, <1>5, <2>1 DEF PraidStep, Acceptor, DenyPpd, AcceptPpd, AddPpd,
         ValidateReplication, StartReplication, FireSynchronization
    <2>2. CASE \E s \in Storage : Sender(s)
      BY <1>1, <1>5, <2>2 DEF PraidStep, Sender, SenderCheck, SenderSend, SenderExit,
         SenderRecord, SenderCount
    <2>3. CASE \E s \in Storage : Listener(s)
      BY <1>1, <1>5, <2>3, ListenerStays DEF PraidStep, ListenerResponse, ListenerReply,
         ListenerForget, ListenerSyncPut, ListenerSyncEnd
    <2>4. QED
      BY <1>3, <1>5, <2>1, <2>2, <2>3 DEF PraidStep
  <1>6. CASE NodeStep
    <2>1. UNCHANGED <<requests, worker, lastPut>>
      BY <1>6 DEF NodeStep, Node, NodeQueueJob, NodeSyncGet, NodeStream,
         NodeUnmap, NodeStreamEnd, NodeSyncPut, NodeSyncEnd, NodeExecute, NodeLosesJob, NodeDies
    <2>2. QED
      BY <1>1, <2>1
  <1>7. CASE UNCHANGED vars
    BY <1>1, <1>7 DEF vars
  <1>8. QED
    BY <1>4, <1>5, <1>6, <1>7 DEF Next

-----------------------------------------------------------------------------
(* While a volume is copied from m to d a sector that is not written on d   *)
(* any more is not written on m either: what is read of it on m is final.   *)

Pair(m, d) ==
    \/ acceptor.pc = "fire" /\ m = acceptor.master /\ d = acceptor.destiny
    \/ Replicating(d) /\ m = syncState.source

Clear(d, c, x) == NoWrite(pending[d], x) /\ NoWrite(Hand(c, Visits(c, d)), x)
Putting(c, m) == worker[c].pc = "put" /\ worker[c].cursor = m
Free(c, m, x) == NoWrite(Hand(c, Putting(c, m)), x)
Drains(m, c, x) ==
    /\ NoWrite(jobs[m], x) /\ NoWrite(toPpd[m], x) /\ NoWrite(pending[m], x)
    /\ Free(c, m, x)
Mirrors(m, d, c) == \A x \in Sector : Clear(d, c, x) => Drains(m, c, x)
PairsMirror(c) == \A m, d \in Storage : Pair(m, d) => Mirrors(m, d, c)

LEMMA PairOrder ==
  ASSUME IInv, Stages, DestinyWaits, ListOrder, MasterAhead,
         NEW m \in Storage, NEW d \in Storage, Pair(m, d)
  PROVE  Ahead(m, d) /\ m # d /\ Member(m) /\ Member(d) /\ sender[d].pc # "cleared"
  <1>1. CASE acceptor.pc = "fire" /\ m = acceptor.master /\ d = acceptor.destiny
    <2>1. m # d /\ sender[d].pc = "off"
      BY <1>1 DEF Stages, MasterServes, IInv, StaysDisconnected
    <2>2. Ahead(m, d)
      BY <1>1 DEF MasterAhead
    <2>3. QED
      BY <2>1, <2>2, AheadOrder DEF IInv
  <1>2. CASE Replicating(d) /\ m = syncState.source
    <2>1. m # d /\ sender[d].pc # "cleared"
      BY <1>2 DEF Stages, PairRebuilds, DestinyWaits
    <2>2. Ahead(m, d)
      BY <1>2 DEF MasterAhead, Replicating
    <2>3. QED
      BY <2>1, <2>2, AheadOrder DEF IInv
  <1>3. QED
    BY <1>1, <1>2 DEF Pair

LEMMA PairSame ==
  ASSUME UNCHANGED <<acceptor, syncState>>, replicationActive' => replicationActive
  PROVE  \A m, d : Pair(m, d)' => Pair(m, d)
  BY DEF Pair, Replicating

\* Steps that take writes from m only, and none from what d is to be sent.
LEMMA MirrorKeeps ==
  ASSUME NEW m, NEW d, NEW c, Mirrors(m, d, c),
         \A x \in Sector : Clear(d, c, x)' => Clear(d, c, x),
         \A x \in Sector : Clear(d, c, x)' /\ Drains(m, c, x) => Drains(m, c, x)'
  PROVE  Mirrors(m, d, c)'
  BY DEF Mirrors

LEMMA ClearSame ==
  ASSUME NEW d, NEW c, UNCHANGED <<worker, storages, pending>>
  PROVE  \A x : Clear(d, c, x)' => Clear(d, c, x)
  BY HandVisits DEF Clear

LEMMA FreeSame ==
  ASSUME NEW c, worker'[c] = worker[c]
  PROVE  \A m, x : Free(c, m, x)' <=> Free(c, m, x)
  BY DEF Free, Putting, Hand

LEMMA FreeElse ==
  ASSUME NEW c, worker'[c].pc # "put"
  PROVE  \A m, x : Free(c, m, x)'
  BY DEF Free, Putting, Hand, NoWrite

LEMMA DrainsSame ==
  ASSUME NEW m, NEW c, worker'[c] = worker[c], jobs'[m] = jobs[m],
         toPpd'[m] = toPpd[m], pending'[m] = pending[m]
  PROVE  \A x : Drains(m, c, x) => Drains(m, c, x)'
  BY FreeSame DEF Drains

LEMMA NoWriteOne ==
  ASSUME NEW m, NEW x
  PROVE  NoWrite(<<m>>, x) <=> ~ IsWrite(m, x)
  <1>1. DOMAIN <<m>> = {1} /\ <<m>>[1] = m
    OBVIOUS
  <1>2. QED
    BY <1>1 DEF NoWrite

LEMMA NoWriteWithout ==
  ASSUME NEW T, NEW q \in Seq(T), NEW r \in Seq(T), NEW i, Without(q, r, i), NEW x
  PROVE  NoWrite(q, x) <=> NoWrite(r, x) /\ ~ IsWrite(q[i], x)
  <1>1. /\ DOMAIN q = 1 .. Len(q) /\ Len(q) \in Nat /\ DOMAIN r = 1 .. Len(r)
        /\ Len(r) = Len(q) - 1 /\ i \in 1 .. Len(q)
    BY LenProperties DEF Without
  <1>2. \A j \in DOMAIN r : j \in DOMAIN q /\ j + 1 \in DOMAIN q
    BY <1>1
  <1>3. NoWrite(q, x) => NoWrite(r, x) /\ ~ IsWrite(q[i], x)
    BY <1>1, <1>2 DEF NoWrite, Without
  <1>4. ASSUME NoWrite(r, x), ~ IsWrite(q[i], x), NEW j \in DOMAIN q
        PROVE  ~ IsWrite(q[j], x)
    <2>1. CASE j < i
      <3>1. j \in DOMAIN r /\ r[j] = q[j]
        BY <1>1, <2>1 DEF Without
      <3>2. QED
        BY <1>4, <3>1 DEF NoWrite
    <2>2. CASE j > i
      <3>1. /\ j - 1 \in DOMAIN r /\ ~ (j - 1 < i) /\ (j - 1) + 1 = j
        BY <1>1, <2>2
      <3>2. r[j - 1] = q[j]
        BY <3>1 DEF Without
      <3>3. QED
        BY <1>4, <3>1, <3>2 DEF NoWrite
    <2>3. QED
      BY <1>1, <1>4, <2>1, <2>2
  <1>5. QED
    BY <1>3, <1>4 DEF NoWrite

LEMMA NoWriteEmpty == \A x : NoWrite(<<>>, x)
  BY DEF NoWrite

LEMMA PutMirrors ==
  ASSUME IInv, JobsInHand, NEW c \in Socket, ListOrder, ExecutePut(c), UNCHANGED nodeVars,
         NEW m \in Storage, NEW d \in Storage, Ahead(m, d), m # d, Mirrors(m, d, c)
  PROVE  Mirrors(m, d, c)'
  <1> USE DEF IInv, TypeOK
  <1>1. PICK t \in Storage, job \in Job :
            /\ t = worker[c].cursor /\ job = worker[c].job
            /\ pending' = [pending EXCEPT ![t] = Append(@, job)]
            /\ \A s \in Storage :
                  /\ Visits(c, s)' <=> Visits(c, s) /\ s # t
                  /\ Visits(c, s) => Hand(c, Visits(c, s)) = <<job>>
                  /\ Visits(c, s)' => Hand(c, Visits(c, s))' = <<job>>
            /\ Member(t)
    BY PutVisits
  <1>2. /\ pending[m] \in Seq(Job) /\ pending[d] \in Seq(Job) /\ toPpd' = toPpd
        /\ pending'[t] = Append(pending[t], job)
        /\ \A s \in Storage \ {t} : pending'[s] = pending[s]
    BY <1>1 DEF StorageTypeOK, ExecutePut
  <1>6. worker[c].pc = "put" /\ worker'[c].pc # "put" /\ jobs' = jobs
    BY DEF ExecutePut, WorkerLoops, WorkerMoves, WorkerAt, ThreadTypeOK, nodeVars
  <1>7. ASSUME NEW x, Drains(m, c, x), toPpd'[m] = toPpd[m], NoWrite(pending'[m], x)
        PROVE  Drains(m, c, x)'
    BY <1>6, <1>7, FreeElse DEF Drains
  <1>3. ~ Visits(c, d) => Hand(c, Visits(c, d)) = <<>>
    BY DEF Hand
  <1>4. ASSUME NEW x \in Sector, Clear(d, c, x)'
        PROVE  Clear(d, c, x) /\ (Drains(m, c, x) => Drains(m, c, x)')
    <2>1. NoWrite(pending'[d], x) /\ NoWrite(Hand(c, Visits(c, d))', x)
      BY <1>4 DEF Clear
    <2>2. CASE t = d
      <3>1. NoWrite(pending[d], x) /\ ~ IsWrite(job, x)
        BY <1>2, <2>1, <2>2, NoWriteKeeps
      <3>2. NoWrite(Hand(c, Visits(c, d)), x)
        BY <1>1, <1>3, <3>1, NoWriteOne, NoWriteEmpty
      <3>3. Drains(m, c, x) => Drains(m, c, x)'
        BY <1>2, <1>7, <2>2 DEF Drains
      <3>4. QED
        BY <3>1, <3>2, <3>3 DEF Clear
    <2>3. CASE t # d
      <3>1. pending'[d] = pending[d]
        BY <1>2, <2>3
      <3>2. Visits(c, d) => ~ IsWrite(job, x)
        BY <1>1, <2>1, <2>3, NoWriteOne
      <3>3. NoWrite(Hand(c, Visits(c, d)), x)
        BY <1>1, <1>3, <3>2, NoWriteOne, NoWriteEmpty
      <3>4. CASE t = m
        <4>1. Drains(m, c, x) => ~ IsWrite(job, x)
          <5>1. Drains(m, c, x) => NoWrite(<<job>>, x)
            BY <1>1, <1>6, <3>4 DEF Drains, Free, Putting, Hand
          <5>2. QED
            BY <5>1, NoWriteOne
        <4>2. Drains(m, c, x) /\ NoWrite(pending[m], x) => NoWrite(pending'[m], x)
          BY <1>2, <3>4, <4>1, NoWriteKeeps, ZenonT(60)
        <4>3. QED
          BY <1>2, <2>1, <3>1, <3>3, <1>7, <4>2 DEF Clear, Drains
      <3>5. CASE t # m
        BY <1>2, <2>1, <3>1, <3>3, <3>5, <1>7 DEF Clear, Drains
      <3>6. QED
        BY <3>4, <3>5
    <2>4. QED
      BY <2>2, <2>3
  <1>5. QED
    BY <1>4, MirrorKeeps

\* The end of sleep(3): what is still on its way to the master is queued for the
\* new PPD too.
LEMMA StartMirrors ==
  ASSUME NEW c \in Socket, acceptor'.master = acceptor.master, acceptor'.destiny = acceptor.destiny,
         Drained, acceptor'.pc = "fire", UNCHANGED <<worker, storages, pending, jobs, toPpd>>
  PROVE  PairsMirror(c)'
  <1> SUFFICES ASSUME NEW m \in Storage, NEW d \in Storage, Pair(m, d)', NEW x \in Sector,
                      NoWrite(pending[d], x)
               PROVE  Drains(m, c, x)
    <2>1. \A m : \A x \in Sector : Drains(m, c, x) => Drains(m, c, x)'
      BY FreeSame DEF Drains
    <2>2. \A d : \A x \in Sector : Clear(d, c, x)' => NoWrite(pending[d], x)
      BY DEF Clear
    <2>3. QED
      BY <2>1, <2>2 DEF PairsMirror, Mirrors
  <1>1. m = acceptor.master /\ d = acceptor.destiny
    BY DEF Pair, Replicating
  <1>2. /\ Puts(jobs[m]) \subseteq Puts(pending[d]) /\ Puts(toPpd[m]) \subseteq Puts(pending[d])
        /\ Puts(pending[m]) \subseteq Puts(pending[d])
        /\ PutsInHand(m) \subseteq Puts(pending[d])
    BY <1>1 DEF Drained
  <1>3. \A q : Puts(q) \subseteq Puts(pending[d]) => NoWrite(q, x)
    <2> SUFFICES ASSUME NEW q, Puts(q) \subseteq Puts(pending[d]), NEW i \in DOMAIN q, IsWrite(q[i], x)
                 PROVE  FALSE
      BY DEF NoWrite
    <2>1. q[i] \in Puts(q)
      BY DEF Puts, ToSet, IsWrite
    <2>2. PICK j \in DOMAIN pending[d] : pending[d][j] = q[i]
      BY <2>1 DEF Puts, ToSet
    <2>3. QED
      BY <2>2 DEF NoWrite
  <1>4. Free(c, m, x)
    <2> SUFFICES ASSUME Putting(c, m), IsWrite(worker[c].job, x)
                 PROVE  FALSE
      BY NoWriteOne, NoWriteEmpty DEF Free, Hand
    <2>1. worker[c].job \in PutsInHand(m)
      BY DEF Putting, PutsInHand
    <2>2. PICK j \in DOMAIN pending[d] : pending[d][j] = worker[c].job
      BY <1>2, <2>1 DEF Puts, ToSet
    <2>3. QED
      BY <2>2 DEF NoWrite
  <1>5. QED
    BY <1>2, <1>3, <1>4 DEF Drains

LEMMA AcceptorMirrors ==
  ASSUME IInv, NEW c \in Socket, Socket = {c}, FlagRaised, SleepDrainsMaster, PairsMirror(c),
         Acceptor(Drained), UNCHANGED nodeVars
  PROVE  PairsMirror(c)'
  <1> USE DEF IInv, TypeOK
  <1>1. CASE StartReplication(Drained)
    BY <1>1, StartMirrors DEF StartReplication, AcceptorAt
  <1>2. CASE AddPpd \/ ValidateReplication \/ \E t \in Storage : AcceptPpd(t)
    <2>1. ~ replicationActive' /\ acceptor'.pc # "fire"
      BY <1>2 DEF AddPpd, ValidateReplication, AcceptPpd, FlagRaised, AcceptorAt, AcceptAgain
    <2>2. QED
      BY <2>1 DEF PairsMirror, Pair, Replicating
  <1>3. CASE FireSynchronization
    <2>1. /\ UNCHANGED <<worker, storages, pending, jobs>>
          /\ \A m, d : Pair(m, d)' => Pair(m, d)
      BY <1>3 DEF FireSynchronization, Pair, Replicating, AcceptAgain, AcceptorAt
    <2>2. ASSUME NEW m \in Storage, NEW d \in Storage, Pair(m, d)'
          PROVE  Mirrors(m, d, c)'
      <3>1. PICK n \in Message : n = Sync("syncGet", 0) /\ n.op = "syncGet"
        BY SyncOp, InitialValues
      <3>2. toPpd[m] \in Seq(Message) /\ (toPpd'[m] = toPpd[m] \/ toPpd'[m] = Append(toPpd[m], n))
        BY <1>3, <3>1, SendPpdReaches DEF FireSynchronization, NetworkTypeOK
      <3>3. ASSUME NEW x, NoWrite(toPpd[m], x)
            PROVE  NoWrite(toPpd'[m], x)
        <4>1. ~ IsWrite(n, x)
          BY <3>1 DEF IsWrite
        <4>2. NoWrite(Append(toPpd[m], n), x)
          BY <3>1, <3>2, <3>3, <4>1, NoWriteKeeps
        <4>3. QED
          BY <3>2, <3>3, <4>2
      <3>4. \A x : Drains(m, c, x) => Drains(m, c, x)'
        BY <2>1, <3>3, FreeSame DEF Drains
      <3>5. QED
        BY <2>1, <2>2, <3>4, ClearSame, MirrorKeeps DEF PairsMirror
    <2>3. QED
      BY <2>2 DEF PairsMirror
  <1>4. CASE (\E t \in Storage : DenyPpd(t)) \/ \E e \in Socket : AcceptPfs(e)
    <2>1. /\ UNCHANGED <<storages, pending, jobs, toPpd, acceptor, syncVars>>
          /\ worker' = worker \/ (worker[c].pc = "off" /\ worker'[c].pc = "receive")
      BY <1>4 DEF DenyPpd, AcceptPfs, WorkerLoops, WorkerMoves, WorkerAt, ThreadTypeOK
    <2>2. ASSUME NEW m \in Storage, NEW d \in Storage, Pair(m, d)'
          PROVE  Mirrors(m, d, c)'
      <3>1. Mirrors(m, d, c)
        BY <2>1, <2>2, PairSame DEF PairsMirror
      <3>2. \A x : Clear(d, c, x)' => Clear(d, c, x)
        BY <2>1, HandVisits, NoWriteEmpty DEF Clear
      <3>3. \A x : Drains(m, c, x) => Drains(m, c, x)'
        BY <2>1, FreeSame, FreeElse DEF Drains
      <3>4. QED
        BY <3>1, <3>2, <3>3, MirrorKeeps
    <2>3. QED
      BY <2>2 DEF PairsMirror
  <1>5. QED
    BY <1>1, <1>2, <1>3, <1>4 DEF Acceptor

LEMMA WorkerMirrors ==
  ASSUME IInv, JobsInHand, NEW c \in Socket, ListOrder, MasterAhead, Stages, DestinyWaits,
         PairsMirror(c), Worker(c), UNCHANGED nodeVars
  PROVE  PairsMirror(c)'
  <1> USE DEF IInv, TypeOK
  <1>1. UNCHANGED <<acceptor, syncVars, toPpd, storages>>
    BY DEF Worker, PfsReceive, IterateStorages, ExecutePut, SelectForGet, EnqueueGet
  <1> SUFFICES ASSUME NEW m \in Storage, NEW d \in Storage, Pair(m, d)'
               PROVE  Mirrors(m, d, c)'
    BY DEF PairsMirror
  <1>2. Pair(m, d) /\ Mirrors(m, d, c)
    BY <1>1, PairSame DEF PairsMirror
  <1>3. CASE ExecutePut(c)
    BY <1>2, <1>3, PairOrder, PutMirrors
  <1>4. CASE PfsReceive(c) \/ SelectForGet(c) \/ EnqueueGet(c)
    <2>1. Hand(c, Visits(c, d)) = <<>>
      BY <1>4, HandVisits DEF PfsReceive, SelectForGet, EnqueueGet
    <2>2. pending' = pending \/ EnqueueGet(c)
      BY <1>4 DEF PfsReceive, SelectForGet
    <2>3. ASSUME NEW s \in Storage
          PROVE  \A x : NoWrite(pending'[s], x) <=> NoWrite(pending[s], x)
      <3>1. CASE EnqueueGet(c)
        <4>1. PICK job \in Job : job = worker[c].job /\ job.op = "get"
          BY <3>1 DEF EnqueueGet, ThreadsHoldJobs, JobsInHand, WorkerHolds
        <4>2. pending'[s] = pending[s] \/ pending'[s] = Append(pending[s], job)
          BY <3>1, <4>1 DEF EnqueueGet, QueueRead, StorageTypeOK
        <4>3. \A x : NoWrite(Append(pending[s], job), x) <=> NoWrite(pending[s], x)
          BY <4>1, NoWriteKeeps, SMTT(60) DEF IsWrite, StorageTypeOK
        <4>4. QED
          BY <4>2, <4>3
      <3>2. QED
        BY <2>2, <3>1
    <2>4. \A x : Clear(d, c, x)' => Clear(d, c, x)
      BY <2>1, <2>3, NoWriteEmpty DEF Clear
    <2>7. worker'[c].pc # "put" /\ jobs' = jobs
      BY <1>4 DEF PfsReceive, SelectForGet, EnqueueGet, WorkerLoops, WorkerMoves, WorkerAt,
         ThreadTypeOK, nodeVars
    <2>5. \A x : Drains(m, c, x) => Drains(m, c, x)'
      BY <1>1, <2>3, <2>7, FreeElse DEF Drains
    <2>6. QED
      BY <1>2, <2>4, <2>5, MirrorKeeps
  <1>5. CASE IterateStorages(c)
    <2>1. /\ worker[c].pc = "walk" /\ worker'[c].pc = "put" /\ worker'[c].job = worker[c].job
          /\ worker'[c].cursor = worker[c].cursor /\ pending' = pending /\ jobs' = jobs
      BY <1>5 DEF IterateStorages, WorkerMoves, WorkerPuts, ThreadTypeOK, nodeVars
    <2>2. \A x : Clear(d, c, x)' => Clear(d, c, x)
      BY <1>5, <2>1, WalkVisits DEF Clear
    <2>3. ASSUME NEW x, Clear(d, c, x)', Drains(m, c, x)
          PROVE  Drains(m, c, x)'
      <3>1. Putting(c, m)' => ~ IsWrite(worker[c].job, x)
        <4>1. Putting(c, m)' => Visits(c, d)
          BY <1>2, <2>1, PairOrder DEF Putting, Visits
        <4>2. NoWrite(Hand(c, Visits(c, d)), x)
          BY <2>2, <2>3 DEF Clear
        <4>3. QED
          BY <4>1, <4>2, NoWriteOne DEF Hand
      <3>2. Free(c, m, x)'
        BY <2>1, <3>1, NoWriteOne, NoWriteEmpty DEF Free, Hand
      <3>3. QED
        BY <1>1, <2>1, <2>3, <3>2 DEF Drains
    <2>4. QED
      BY <1>2, <2>2, <2>3, MirrorKeeps
  <1>6. QED
    BY <1>3, <1>4, <1>5 DEF Worker

LEMMA SenderMirrors ==
  ASSUME IInv, NEW c \in Socket, ListOrder, MasterAhead, Stages, DestinyWaits,
         PairsMirror(c), NEW t \in Storage, Sender(t), UNCHANGED nodeVars
  PROVE  PairsMirror(c)'
  <1> USE DEF IInv, TypeOK
  <1>1. UNCHANGED <<acceptor, syncVars, worker, storages>>
    BY DEF Sender, SenderCheck, SenderSend, SenderExit, SenderRecord, SenderCount
  <1> SUFFICES ASSUME NEW m \in Storage, NEW d \in Storage, Pair(m, d)'
               PROVE  Mirrors(m, d, c)'
    BY DEF PairsMirror
  <1>2. Pair(m, d) /\ Mirrors(m, d, c)
    BY <1>1, PairSame DEF PairsMirror
  <1>3. CASE ~ SenderSend(t)
    <2>1. UNCHANGED <<pending, toPpd>>
      BY <1>3 DEF Sender, SenderCheck, SenderExit, SenderRecord, SenderCount
    <2>2. QED
      BY <1>1, <1>2, <2>1, ClearSame, DrainsSame, MirrorKeeps
  <1>4. CASE SenderSend(t)
    <2>1. t # d
      BY <1>2, <1>4, PairOrder DEF SenderSend
    <2>2. pending'[d] = pending[d] /\ Hand(c, Visits(c, d))' = Hand(c, Visits(c, d))
      BY <1>1, <1>4, <2>1, HandVisits DEF SenderSend, StorageTypeOK
    <2>3. \A x : Clear(d, c, x)' => Clear(d, c, x)
      BY <2>2 DEF Clear
    <2>4. CASE t # m
      <3>1. toPpd'[m] = toPpd[m] /\ pending'[m] = pending[m]
        BY <1>4, <2>4 DEF SenderSend, SendPpd, NetworkTypeOK, StorageTypeOK
      <3>2. QED
        BY <1>1, <1>2, <2>3, <3>1, DrainsSame, MirrorKeeps DEF nodeVars
    <2>5. CASE t = m
      <3>1. pending[m] # <<>> /\ pending[m] \in Seq(Job) /\ toPpd[m] \in Seq(Message)
        BY <1>4, <2>5 DEF SenderSend, ThreadsHoldJobs, StorageTypeOK, NetworkTypeOK
      <3>2. PICK n \in Message : n = Head(pending[m])
        BY <3>1, HeadAndTail DEF Message
      <3>3. /\ pending'[m] = Tail(pending[m])
            /\ toPpd'[m] = toPpd[m] \/ toPpd'[m] = Append(toPpd[m], n)
        BY <1>4, <2>5, <3>2 DEF SenderSend, SendPpd, NetworkTypeOK, StorageTypeOK
      <3>4. ASSUME NEW x, Drains(m, c, x)
            PROVE  Drains(m, c, x)'
        <4>1. NoWrite(Tail(pending[m]), x) /\ ~ IsWrite(n, x)
          BY <3>1, <3>2, <3>4, NoWriteKeeps DEF Drains
        <4>2. NoWrite(Append(toPpd[m], n), x)
          BY <3>1, <3>4, <4>1, NoWriteKeeps DEF Drains
        <4>3. jobs' = jobs /\ (Free(c, m, x) => Free(c, m, x)')
          BY <1>1, FreeSame DEF nodeVars
        <4>4. QED
          BY <3>3, <3>4, <4>1, <4>2, <4>3 DEF Drains
      <3>5. QED
        BY <1>2, <2>3, <3>4, MirrorKeeps
    <2>6. QED
      BY <2>4, <2>5
  <1>5. QED
    BY <1>3, <1>4

LEMMA ListenerMirrors ==
  ASSUME IInv, NobodyEnded, NEW c, PairsMirror(c), NEW t \in Storage, Listener(t),
         UNCHANGED nodeVars
  PROVE  PairsMirror(c)'
  <1> USE DEF IInv, TypeOK
  <1>1. /\ UNCHANGED <<worker, storages, pending, acceptor, syncState>>
        /\ replicationActive' => replicationActive
    BY ListenerStays DEF ListenerResponse, ListenerReply, ListenerForget, ListenerSyncPut,
       ListenerSyncEnd
  <1>2. ASSUME NEW m \in Storage, NEW x, NoWrite(toPpd[m], x)
        PROVE  NoWrite(toPpd'[m], x)
    <2>1. toPpd' = toPpd \/ ListenerSyncPut(t) \/ ListenerSyncEnd(t)
      BY ListenerStays DEF ListenerResponse, ListenerReply, ListenerForget
    <2>2. CASE ListenerSyncPut(t) \/ ListenerSyncEnd(t)
      <3>1. PICK n \in Message : SendPpd(syncState.destiny, n) /\ n.op # "put"
        <4>1. CASE ListenerSyncPut(t)
          <5>1. fromPpd[t] \in Seq(Message) /\ fromPpd[t] # <<>> /\ Head(fromPpd[t]).op = "syncPut"
            BY <4>1 DEF ListenerSyncPut, Receives, NetworkTypeOK
          <5>2. Head(fromPpd[t]) \in Message
            BY <5>1, HeadAndTail
          <5>3. QED
            BY <4>1, <5>1, <5>2 DEF ListenerSyncPut
        <4>2. CASE ListenerSyncEnd(t)
          <5>1. Sync("syncEnd", 0) \in Message /\ Sync("syncEnd", 0).op = "syncEnd"
            BY InitialValues, SyncOp
          <5>2. QED
            BY <4>2, <5>1 DEF ListenerSyncEnd
        <4>3. QED
          BY <2>2, <4>1, <4>2
      <3>2. toPpd[m] \in Seq(Message) /\ (toPpd'[m] = toPpd[m] \/ toPpd'[m] = Append(toPpd[m], n))
        BY <3>1, SendPpdReaches DEF NetworkTypeOK
      <3>3. ~ IsWrite(n, x)
        BY <3>1 DEF IsWrite
      <3>4. NoWrite(Append(toPpd[m], n), x)
        BY <1>2, <3>1, <3>2, <3>3, NoWriteKeeps
      <3>5. QED
        BY <1>2, <3>2, <3>4
    <2>3. QED
      BY <1>2, <2>1, <2>2
  <1>3. \A m \in Storage : \A x : Drains(m, c, x) => Drains(m, c, x)'
    BY <1>1, <1>2, FreeSame DEF Drains, nodeVars
  <1>4. ASSUME NEW m \in Storage, NEW d \in Storage, Pair(m, d)'
        PROVE  Mirrors(m, d, c)'
    BY <1>1, <1>3, <1>4, PairSame, ClearSame, MirrorKeeps DEF PairsMirror
  <1>5. QED
    BY <1>4 DEF PairsMirror

LEMMA NodeDrains ==
  ASSUME IInv, NEW c, NEW t \in Storage, NodeWorks(t), deaths' = 0, NEW x, Drains(t, c, x)
  PROVE  Drains(t, c, x)'
  <1> USE DEF IInv, TypeOK
  <1>1. /\ pending' = pending /\ worker' = worker /\ jobs[t] \in Seq(Job) /\ toPpd[t] \in Seq(Message)
        /\ NoWrite(jobs[t], x) /\ NoWrite(toPpd[t], x)
    BY NodeOthers, NodeTypes DEF Drains
  <1>2. CASE NodeQueueJob(t)
    <2>1. /\ toPpd[t] # <<>> /\ Head(toPpd[t]) \in Message /\ Head(toPpd[t]).op \in {"get", "put"}
          /\ toPpd'[t] = Tail(toPpd[t])
      BY <1>2, TakesTail DEF NodeQueueJob
    <2>2. PICK job \in Job : job = Head(toPpd[t])
      BY <2>1 DEF Message, SyncMessage
    <2>3. PICK r \in Seq(Job), i \in Nat : /\ r = jobs'[t] /\ Without(r, jobs[t], i) /\ r[i] = job
      BY <1>2, <2>2, QueuedJob
    <2>4. NoWrite(Tail(toPpd[t]), x) /\ ~ IsWrite(job, x)
      BY <1>1, <2>1, <2>2, NoWriteKeeps
    <2>5. NoWrite(r, x)
      BY <1>1, <2>3, <2>4, NoWriteWithout
    <2>6. QED
      BY <1>1, <2>1, <2>3, <2>4, <2>5, FreeSame DEF Drains
  <1>3. CASE NodeSyncGet(t) \/ NodeSyncPut(t) \/ NodeSyncEnd(t)
    <2>1. jobs' = jobs /\ \E ops : Takes(t, ops)
      <3>1. NodeSyncGet(t) => ~ Ends(t)
        BY EndsStay DEF Ends, NodeTypeOK
      <3>2. QED
        BY <1>3, <3>1 DEF NodeSyncGet, NodeSyncPut, NodeSyncEnd
    <2>2. toPpd[t] # <<>> /\ toPpd'[t] = Tail(toPpd[t])
      BY <2>1, TakesTail
    <2>3. NoWrite(Tail(toPpd[t]), x)
      BY <1>1, <2>2, NoWriteKeeps
    <2>4. QED
      BY <1>1, <2>1, <2>2, <2>3, FreeSame DEF Drains
  <1>4. CASE NodeStream(t) \/ NodeUnmap(t) \/ NodeStreamEnd(t)
    <2>1. UNCHANGED <<jobs, toPpd>>
      BY <1>4 DEF NodeStream, NodeUnmap, NodeStreamEnd
    <2>2. QED
      BY <1>1, <2>1, FreeSame DEF Drains
  <1>5. CASE NodeExecute(t)
    <2>1. PICK i \in DOMAIN jobs[t] : Executes(t, i)
      BY <1>5 DEF NodeExecute
    <2>2. ~ Ends(t)
      BY DEF Ends, NodeTypeOK
    <2>3. jobs'[t] = RemoveAt(jobs[t], i) /\ toPpd' = toPpd
      BY <2>1, <2>2 DEF Executes, NodeTypeOK
    <2>4. PICK r \in Seq(Job) : r = jobs'[t] /\ Without(jobs[t], r, i)
      BY <1>1, <2>3, RemoveAtWithout
    <2>5. /\ DOMAIN jobs[t] = 1 .. Len(jobs[t]) /\ Len(jobs[t]) \in Nat
          /\ DOMAIN r = 1 .. Len(r) /\ Len(r) = Len(jobs[t]) - 1
      BY <1>1, <2>4, LenProperties DEF Without
    <2>6. \A j \in DOMAIN r : j \in DOMAIN jobs[t] /\ j + 1 \in DOMAIN jobs[t]
      BY <2>5
    <2>7. NoWrite(r, x)
      BY <1>1, <2>4, <2>6 DEF NoWrite, Without
    <2>8. QED
      BY <1>1, <2>3, <2>4, <2>7, FreeSame DEF Drains
  <1>6. CASE NodeLosesJob(t)
    <2>1. PICK i \in DOMAIN jobs[t], r \in Seq(Job) : /\ r = jobs'[t] /\ Without(jobs[t], r, i)
      BY <1>6, LostJob
    <2>2. NoWrite(r, x)
      BY <1>1, <2>1, NoWriteWithout
    <2>3. toPpd' = toPpd
      BY <1>6 DEF NodeLosesJob
    <2>4. QED
      BY <1>1, <2>1, <2>2, <2>3, FreeSame DEF Drains
  <1>7. QED
    BY <1>2, <1>3, <1>4, <1>5, <1>6 DEF NodeWorks, Node

LEMMA NodeMirrors ==
  ASSUME IInv, NEW c, PairsMirror(c), NEW t \in Storage, NodeWorks(t), deaths' = 0
  PROVE  PairsMirror(c)'
  <1>1. /\ UNCHANGED <<worker, storages, pending, acceptor, syncState, replicationActive>>
        /\ \A u \in Storage \ {t} : Still(u) /\ toPpd'[u] = toPpd[u]
    BY NodeOthers
  <1>2. \A m \in Storage : \A x : Drains(m, c, x) => Drains(m, c, x)'
    <2> SUFFICES ASSUME NEW m \in Storage, NEW x, Drains(m, c, x) PROVE Drains(m, c, x)'
      OBVIOUS
    <2>1. CASE m = t
      BY <2>1, NodeDrains
    <2>2. CASE m # t
      BY <1>1, <2>2, FreeSame DEF Still, Drains
    <2>3. QED
      BY <2>1, <2>2
  <1>3. ASSUME NEW m \in Storage, NEW d \in Storage, Pair(m, d)'
        PROVE  Mirrors(m, d, c)'
    BY <1>1, <1>2, <1>3, PairSame, ClearSame, MirrorKeeps DEF PairsMirror
  <1>4. QED
    BY <1>3 DEF PairsMirror

LEMMA ElseMirrors ==
  ASSUME NEW c, PairsMirror(c),
         UNCHANGED <<worker, storages, pending, acceptor, syncState, replicationActive, jobs, toPpd>>
  PROVE  PairsMirror(c)'
  <1>1. ASSUME NEW m \in Storage, NEW d \in Storage, Pair(m, d)'
        PROVE  Mirrors(m, d, c)'
    BY <1>1, PairSame, ClearSame, DrainsSame, MirrorKeeps DEF PairsMirror
  <1>2. QED
    BY <1>1 DEF PairsMirror

LEMMA MirrorsStep ==
  ASSUME IInv, JobsInHand, NobodyEnded, FlagRaised, Stages, DestinyWaits, ListOrder, MasterAhead,
         SleepDrainsMaster, NEW c \in Socket, Socket = {c}, PairsMirror(c), [Next]_vars,
         deaths' = 0
  PROVE  PairsMirror(c)'
  <1>1. CASE PraidStep
    BY <1>1, AcceptorMirrors, WorkerMirrors, SenderMirrors, ListenerMirrors DEF PraidStep
  <1>2. CASE NodeStep
    <2>1. \E t \in Storage : NodeWorks(t)
      BY <1>2, EndsStay DEF NodeStep, NodeWorks, IInv, TypeOK
    <2>2. QED
      BY <2>1, NodeMirrors
  <1>3. CASE ClientStep
    BY <1>3, ElseMirrors DEF ClientStep, ClientGet, ClientPut, ClientReceive
  <1>4. CASE UNCHANGED vars
    BY <1>4, ElseMirrors DEF vars
  <1>5. QED
    BY <1>1, <1>2, <1>3, <1>4 DEF Next

-----------------------------------------------------------------------------
(* What s is given, with the writes on their way to it made on it, is what  *)
(* the client wrote last.                                                   *)

Served(s, c) == \A x \in Clean : \E b \in Value : Given(s, x, b) /\ Flow(s, c, x, b) = lastPut[x]
AllServed(c) == \A s \in Storage : Member(s) => Served(s, c)

LEMMA ServedKeeps ==
  ASSUME NEW s, NEW c, Served(s, c), GivenStays(s), Flows(s, c), Clean' \subseteq Clean, UNCHANGED lastPut
  PROVE  Served(s, c)'
  <1> SUFFICES ASSUME NEW x \in Clean'
               PROVE  \E b \in Value : Given(s, x, b)' /\ Flow(s, c, x, b)' = lastPut[x]
    BY DEF Served
  <1>2. x \in Clean /\ x \in Sector
    BY DEF Clean
  <1>1. PICK b \in Value : Given(s, x, b) /\ Flow(s, c, x, b) = lastPut[x]
    BY <1>2 DEF Served
  <1>3. QED
    BY <1>1, <1>2 DEF GivenStays, Flows

\* A PPD that joins has been given nothing, and gets what PRAID has in hand.
LEMMA JoinServes ==
  ASSUME IInv, FlagRaised, Stages, ListOrder, MasterAhead, StrangersIdle,
         NEW c \in Socket, Basis(c), AddPpd, UNCHANGED <<nodeVars, clientVars>>,
         NEW Quiet, Acceptor(Quiet)
  PROVE  \A d \in Storage : d = acceptor.destiny => Served(d, c)'
  <1> USE DEF IInv, TypeOK
  <1> SUFFICES ASSUME NEW d \in Storage, d = acceptor.destiny PROVE Served(d, c)'
    OBVIOUS
  <1>1. /\ ~ Member(d) /\ storages' = Append(storages, d) /\ ~ replicationActive
        /\ UNCHANGED <<requests, worker, pending, toPpd>>
    BY DEF AddPpd, AddStorage, MasterAhead, FlagRaised
  <1>2. Fresh(d)
    BY DEF AddPpd, Stages, StagesFollow, Admitted
  <1>3. \A x \in Sector, b \in Value : Given(d, x, b)'
    BY <1>1, <1>2, FreshGiven, AcceptorGiven DEF GivenStays, Replicating
  <1>4. \/ Hand(c, Visits(c, d))' = Hand(c, Writing(c))
        \/ Hand(c, Visits(c, d))' = <<>>
    BY <1>1 DEF Hand, Visits, Writing
  <1>5. PICK h : h = Hand(c, Visits(c, d))'
    OBVIOUS
  <1>6. ASSUME NEW x \in Sector, NEW b
        PROVE  Flow(d, c, x, b)' = Upon(requests[c], x, Upon(h, x, b))
    <2>1. Upon(jobs[d], x, b) = b /\ Upon(toPpd[d], x, b) = b /\ Upon(pending[d], x, b) = b
      BY <1>1, <1>2, UponEmpty, UponNothing DEF Fresh, Idle, StrangersIdle
    <2>2. QED
      BY <1>1, <1>5, <2>1 DEF Flow, Arriving
  <1>7. ASSUME NEW x \in Sector
        PROVE  \E b \in Value : Given(d, x, b)' /\ Flow(d, c, x, b)' = lastPut[x]
    <2>1. PICK e \in Value : BasisOf(c, x, e) = lastPut[x]
      BY DEF Basis
    <2>2. CASE h = Hand(c, Writing(c))
      BY <1>3, <1>6, <2>1, <2>2 DEF BasisOf
    <2>3. CASE h = <<>> /\ Writing(c)
      <3>1. PICK job \in Job : job = worker[c].job
        BY <2>3 DEF Writing, ThreadsHoldJobs
      <3>2. Hand(c, Writing(c)) = <<job>>
        BY <2>3, <3>1 DEF Hand
      <3>3. PICK b \in Value : b = IF IsWrite(job, x) THEN job.value ELSE e
        BY DEF Job
      <3>4. Upon(h, x, b) = Upon(<<job>>, x, e)
        BY <2>3, <3>3, UponOne, UponEmpty
      <3>5. Flow(d, c, x, b)' = lastPut[x]
        BY <1>6, <2>1, <3>2, <3>4 DEF BasisOf
      <3>6. QED
        BY <1>3, <3>5
    <2>4. QED
      BY <1>4, <1>5, <2>2, <2>3 DEF Hand
  <1>8. QED
    BY <1>7 DEF Served, Clean

\* Once a sector is written in a queue what it held before is forgotten.
LEMMA UponForgets ==
  ASSUME NEW T, NEW q \in Seq(T), NEW x, ~ NoWrite(q, x)
  PROVE  \A d, e : Upon(q, x, d) = Upon(q, x, e)
  <1>1. PICK k \in DOMAIN q : IsWrite(q[k], x) /\ \A j \in DOMAIN q : j > k => ~ IsWrite(q[j], x)
    BY LastExists
  <1>2. \A d : Upon(q, x, d) = q[k].value
    BY <1>1, UponLast
  <1>3. QED
    BY <1>2

\* The sector that the source sends next: its last write is behind it on the
\* source, or before the destiny.
LEMMA StreamServes ==
  ASSUME IInv, OneSource, Stages, NEW c \in Socket, JobsInHand,
         NEW m \in Storage, NodeStream(m), deaths' = 0, NodeWorks(m), UNCHANGED clientVars,
         NEW s \in Storage, Replicating(s), syncState.source = m, m # s,
         Served(s, c), Served(m, c), Mirrors(m, s, c),
         Visits(c, m) => Visits(c, s) \/ Putting(c, m)
  PROVE  Served(s, c)'
  <1> USE DEF IInv, TypeOK
  <1>1. Whole(m) /\ ~ Replicating(m)
    BY StreamGiven
  <1>2. PICK y \in Sector, v \in Value :
               /\ v = disk[m][y] /\ Given(s, y, v)'
               /\ \A x \in Sector, b \in Value : x # y /\ Given(s, x, b) => Given(s, x, b)'
    BY StreamGiven
  <1>3. Flows(s, c) /\ lastPut' = lastPut /\ Clean' \subseteq Clean /\ Clean \subseteq Sector
    <2>1. Flows(s, c) /\ lastPut' = lastPut
      BY NodeFlows
    <2>2. UNCHANGED <<misplaced, dropped>>
      BY DEF NodeStream
    <2>3. QED
      BY <2>1, <2>2 DEF Clean, Astray
  <1>4. y \in Clean => Flow(s, c, y, v) = lastPut[y]
    <2> SUFFICES ASSUME y \in Clean PROVE Flow(s, c, y, v) = lastPut[y]
      OBVIOUS
    <2>1. PICK b \in Value : Flow(s, c, y, b) = lastPut[y]
      BY DEF Served
    <2>2. CASE ~ NoWrite(pending[s], y)
      <3>1. \A d, e : Upon(pending[s], y, d) = Upon(pending[s], y, e)
        BY <2>2, UponForgets DEF StorageTypeOK
      <3>2. Flow(s, c, y, v) = Flow(s, c, y, b)
        BY <3>1 DEF Flow, Arriving
      <3>3. QED
        BY <2>1, <3>2
    <2>3. CASE ~ NoWrite(Hand(c, Visits(c, s)), y)
      <3>1. Hand(c, Visits(c, s)) = <<>> \/ Hand(c, Visits(c, s)) = <<worker[c].job>>
        BY DEF Hand
      <3>2. PICK h : h = worker[c].job /\ Hand(c, Visits(c, s)) = <<h>>
        BY <2>3, <3>1, NoWriteEmpty
      <3>3. IsWrite(h, y)
        BY <2>3, <3>2, NoWriteOne
      <3>4. \A d, e : Upon(<<h>>, y, d) = Upon(<<h>>, y, e)
        <4>1. <<h>> \in Seq({h}) /\ ~ NoWrite(<<h>>, y)
          BY <3>3, NoWriteOne
        <4>2. QED
          BY <4>1, UponForgets
      <3>5. Flow(s, c, y, v) = Flow(s, c, y, b)
        BY <3>2, <3>4 DEF Flow, Arriving
      <3>6. QED
        BY <2>1, <3>5
    <2>4. CASE Clear(s, c, y)
      <3>1. Drains(m, c, y) /\ NoWrite(pending[s], y) /\ NoWrite(Hand(c, Visits(c, s)), y)
        BY <2>4 DEF Mirrors, Clear
      <3>2. NoWrite(Hand(c, Visits(c, m)), y)
        BY <3>1, NoWriteEmpty DEF Hand, Drains, Free
      <3>3. jobs[s] = <<>> /\ NoWrite(toPpd[s], y)
        BY DEF Stages, PairRebuilds, Rebuilds, Idle, OnlyPuts, NoWrite, IsWrite
      <3>4. Flow(s, c, y, v) = Upon(requests[c], y, v)
        BY <3>1, <3>3, UponNothing, UponEmpty DEF Flow, Arriving
      <3>5. Flow(m, c, y, v) = Upon(requests[c], y, v)
        BY <3>1, <3>2, UponNothing DEF Flow, Arriving, Drains
      <3>6. PICK a \in Value : Given(m, y, a) /\ Flow(m, c, y, a) = lastPut[y]
        BY DEF Served
      <3>7. a = v
        BY <1>1, <1>2, <3>6, WholeGiven
      <3>8. QED
        BY <3>4, <3>5, <3>6, <3>7
    <2>5. QED
      BY <2>2, <2>3, <2>4 DEF Clear
  <1>5. ASSUME NEW x \in Clean'
        PROVE  \E b \in Value : Given(s, x, b)' /\ Flow(s, c, x, b)' = lastPut[x]
    <2>1. CASE x = y
      <3>1. y \in Clean /\ y \in Clean'
        BY <1>3, <1>5, <2>1
      <3>2. Flow(s, c, y, v)' = lastPut[y]
        BY <1>3, <1>4, <3>1 DEF Flows
      <3>3. QED
        BY <1>2, <2>1, <3>2
    <2>2. CASE x # y
      <3>1. PICK b \in Value : Given(s, x, b) /\ Flow(s, c, x, b) = lastPut[x]
        BY <1>3, <1>5 DEF Served
      <3>2. QED
        BY <1>2, <1>3, <1>5, <2>2, <3>1 DEF Flows
    <2>3. QED
      BY <2>1, <2>2
  <1>6. QED
    BY <1>3, <1>5 DEF Served

LEMMA ExecuteServes ==
  ASSUME IInv, IInv', Stages, NEW c \in Socket, NEW s \in Storage, NodeWorks(s), NodeExecute(s),
         deaths' = 0, UNCHANGED clientVars, Served(s, c)
  PROVE  Served(s, c)'
  <1>1. /\ Len(disk[s]) = VolumeSectors
        /\ \A x \in Sector : \A b : Given(s, x, b) <=> disk[s][x] = b
        /\ \A x \in Sector : \A b : Given(s, x, b)' <=> disk'[s][x] = b
    BY ExecuteGiven
  <1>2. \A x \in Sector : \A a : a = disk'[s][x] => Flow(s, c, x, a)' = Flow(s, c, x, disk[s][x])
    BY <1>1, ExecuteFlows
  <1>3. disk'[s] \in Seq(Value) /\ Len(disk'[s]) = VolumeSectors
    BY <1>1, ExecuteOutcome DEF IInv, TypeOK, NodeTypeOK
  <1>4. \A x \in Sector : disk'[s][x] \in Value
    BY <1>3, ElementOfSeq, LenProperties DEF Sector
  <1>7. Clean' \subseteq Clean /\ Clean \subseteq Sector
    <2>1. UNCHANGED <<misplaced, dropped>>
      BY DEF NodeExecute
    <2>2. QED
      BY <2>1 DEF Clean, Astray
  <1>5. ASSUME NEW x \in Clean'
        PROVE  \E b \in Value : Given(s, x, b)' /\ Flow(s, c, x, b)' = lastPut[x]
    <2>1. Flow(s, c, x, disk[s][x]) = lastPut[x]
      BY <1>1, <1>5, <1>7 DEF Served
    <2>2. PICK a \in Value : a = disk'[s][x]
      BY <1>4, <1>5, <1>7
    <2>3. Flow(s, c, x, a)' = lastPut[x]
      BY <1>2, <1>5, <1>7, <2>1, <2>2
    <2>4. QED
      BY <1>1, <1>5, <1>7, <2>2, <2>3
  <1>6. QED
    <2>1. lastPut' = lastPut
      BY DEF clientVars
    <2>2. QED
      BY <1>5, <2>1 DEF Served

LEMMA AcceptorServes ==
  ASSUME IInv, FlagRaised, Stages, ListOrder, MasterAhead, StrangersIdle,
         NEW c \in Socket, Socket = {c}, Basis(c), AllServed(c),
         NEW Quiet, Acceptor(Quiet), UNCHANGED <<nodeVars, clientVars>>
  PROVE  AllServed(c)'
  <1> USE DEF IInv, TypeOK
  <1>1. ASSUME NEW s \in Storage, Member(s)
        PROVE  Served(s, c)'
    <2>1. Clean' \subseteq Clean /\ lastPut' = lastPut
      BY CleanSame DEF clientVars
    <2>2. QED
      BY <1>1, <2>1, AcceptorFlows, AcceptorGiven, ServedKeeps DEF AllServed
  <1>2. CASE AddPpd
    <2>1. PICK d \in Storage : d = acceptor.destiny /\ storages' = Append(storages, d)
      BY <1>2 DEF StaysDisconnected, AddPpd, AddStorage
    <2>2. \A s : Member(s)' => Member(s) \/ s = d
      BY <2>1, AheadGrows
    <2>3. Served(d, c)'
      BY <1>2, <2>1, JoinServes
    <2>4. QED
      BY <1>1, <2>2, <2>3 DEF AllServed
  <1>3. CASE ~ AddPpd
    <2>1. storages' = storages
      BY <1>3 DEF Acceptor, DenyPpd, AcceptPpd, ValidateReplication, StartReplication,
         FireSynchronization, AcceptPfs
    <2>2. QED
      BY <1>1, <2>1 DEF AllServed, Member
  <1>4. QED
    BY <1>2, <1>3

LEMMA NodeServes ==
  ASSUME IInv, IInv', JobsInHand, OneSource, Stages, DestinyWaits, ListOrder, MasterAhead,
         NEW c \in Socket, AllServed(c), PairsMirror(c),
         NEW t \in Storage, NodeWorks(t), deaths' = 0, UNCHANGED clientVars
  PROVE  AllServed(c)'
  <1>1. storages' = storages
    BY NodeOthers
  <1> SUFFICES ASSUME NEW s \in Storage, Member(s) PROVE Served(s, c)'
    BY <1>1 DEF AllServed, Member
  <1>2. Served(s, c) /\ lastPut' = lastPut
    BY DEF AllServed
  <1>3. CASE t = s /\ NodeExecute(s)
    BY <1>2, <1>3, ExecuteServes
  <1>4. CASE NodeStream(t) /\ Replicating(s) /\ syncState.source = t
    <2>1. Ahead(t, s) /\ t # s /\ Member(t) /\ Mirrors(t, s, c)
      BY <1>4, PairOrder DEF Pair, PairsMirror
    <2>2. Visits(c, t) => Visits(c, s) \/ Putting(c, t)
      BY <2>1, AheadOrder DEF Visits, Putting, IInv
    <2>3. Served(t, c)
      BY <2>1 DEF AllServed
    <2>4. QED
      BY <1>2, <1>4, <2>1, <2>2, <2>3, StreamServes
  <1>5. CASE ~ (t = s /\ NodeExecute(s)) /\ ~ (NodeStream(t) /\ Replicating(s) /\ syncState.source = t)
    <2>1. Flows(s, c)
      BY <1>5, NodeFlows
    <2>2. GivenStays(s)
      BY <1>5, NodeGiven
    <2>3. Clean' \subseteq Clean
      <3>1. NodeStep
        BY DEF NodeStep, NodeWorks
      <3>2. QED
        BY <3>1, NodeStrays, CleanShrinks DEF IInv
    <2>4. QED
      BY <1>2, <2>1, <2>2, <2>3, ServedKeeps
  <1>6. QED
    BY <1>3, <1>4, <1>5

LEMMA ClientServes ==
  ASSUME IInv, NEW c \in Socket, Socket = {c}, AllServed(c), ClientStep
  PROVE  AllServed(c)'
  <1> USE DEF IInv, TypeOK
  <1>1. UNCHANGED <<storages, acceptor, syncVars, toPpd, fromPpd, nodeVars>>
    BY DEF ClientStep, ClientGet, ClientPut, ClientReceive
  <1> SUFFICES ASSUME NEW s \in Storage, Member(s) PROVE Served(s, c)'
    BY <1>1 DEF AllServed, Member
  <1>2. Served(s, c) /\ GivenStays(s) /\ Clean' \subseteq Clean /\ Clean \subseteq Sector
    BY <1>1, ElseGiven, CleanSame DEF AllServed, Clean
  <1>3. CASE Flows(s, c) /\ UNCHANGED lastPut
    BY <1>2, <1>3, ServedKeeps
  <1>4. ASSUME NEW job \in Job, job.op = "put",
               lastPut' = [lastPut EXCEPT ![job.sector] = job.value],
               \A x, d : Flow(s, c, x, d)' = IF IsWrite(job, x) THEN job.value ELSE Flow(s, c, x, d)
        PROVE  Served(s, c)'
    <2>1. ASSUME NEW x \in Clean'
          PROVE  \E b \in Value : Given(s, x, b)' /\ Flow(s, c, x, b)' = lastPut'[x]
      <3>1. PICK b \in Value : Given(s, x, b) /\ Flow(s, c, x, b) = lastPut[x]
        BY <1>2, <2>1 DEF Served
      <3>2. lastPut'[x] = IF IsWrite(job, x) THEN job.value ELSE lastPut[x]
        BY <1>2, <1>4, <2>1 DEF IsWrite, ClientTypeOK
      <3>3. QED
        BY <1>2, <1>4, <2>1, <3>1, <3>2 DEF GivenStays
    <2>2. QED
      BY <2>1 DEF Served
  <1>5. QED
    BY <1>3, <1>4, ClientFlows

LEMMA ServedStep ==
  ASSUME IInv, IInv', JobsInHand, NobodyEnded, FlagRaised, OneSource, Stages, DestinyWaits,
         ListOrder, MasterAhead, StrangersIdle, NEW c \in Socket, Socket = {c}, Basis(c),
         AllServed(c), PairsMirror(c), [Next]_vars, deaths' = 0
  PROVE  AllServed(c)'
  <1> USE DEF IInv, TypeOK
  <1>1. ASSUME NEW s \in Storage, storages' = storages, Member(s)'
        PROVE  Member(s) /\ Served(s, c) /\ ppdStatus[s] = "running"
    BY <1>1 DEF AllServed, Member, Stages, ListedRun
  <1>2. CASE PraidStep
    <2>1. UNCHANGED <<nodeVars, clientVars>> /\ Clean' \subseteq Clean /\ UNCHANGED lastPut
      <3>1. UNCHANGED <<nodeVars, clientVars>>
        BY <1>2 DEF PraidStep
      <3>2. QED
        BY <3>1, CleanSame DEF clientVars
    <2>2. CASE Acceptor(Drained)
      BY <2>1, <2>2, AcceptorServes
    <2>3. CASE Worker(c)
      <3>1. UNCHANGED <<storages, acceptor, syncVars, toPpd, fromPpd>>
        BY <2>3 DEF Worker, PfsReceive, IterateStorages, ExecutePut, SelectForGet, EnqueueGet
      <3>2. ASSUME NEW s \in Storage, Member(s)'
            PROVE  Served(s, c)'
        <4>1. GivenStays(s)
          BY <2>1, <3>1, ElseGiven
        <4>2. Flows(s, c)
          BY <1>1, <2>1, <2>3, <3>1, <3>2, WorkerFlows
        <4>3. QED
          BY <1>1, <2>1, <3>1, <3>2, <4>1, <4>2, ServedKeeps
      <3>3. QED
        BY <3>2 DEF AllServed
    <2>4. ASSUME NEW t \in Storage, Sender(t)
          PROVE  AllServed(c)'
      <3>1. storages' = storages
        BY <2>4 DEF Sender, SenderCheck, SenderSend, SenderExit, SenderRecord, SenderCount
      <3>2. ASSUME NEW s \in Storage, Member(s)'
            PROVE  Served(s, c)'
        <4>1. GivenStays(s)
          BY <2>1, <2>4, SenderGiven
        <4>2. Flows(s, c)
          BY <1>1, <2>1, <2>4, <3>1, <3>2, SenderFlows
        <4>3. QED
          BY <1>1, <2>1, <3>1, <3>2, <4>1, <4>2, ServedKeeps
      <3>3. QED
        BY <3>2 DEF AllServed
    <2>5. ASSUME NEW t \in Storage, Listener(t)
          PROVE  AllServed(c)'
      <3>1. storages' = storages
        BY <2>5, ListenerStays DEF ListenerResponse, ListenerReply, ListenerForget,
           ListenerSyncPut, ListenerSyncEnd
      <3>2. ASSUME NEW s \in Storage, Member(s)'
            PROVE  Served(s, c)'
        <4>1. GivenStays(s)
          BY <2>1, <2>5, ListenerGiven
        <4>2. Flows(s, c)
          BY <2>1, <2>5, ListenerFlows
        <4>3. QED
          BY <1>1, <2>1, <3>1, <3>2, <4>1, <4>2, ServedKeeps
      <3>3. QED
        BY <3>2 DEF AllServed
    <2>6. QED
      BY <1>2, <2>2, <2>3, <2>4, <2>5 DEF PraidStep
  <1>3. CASE NodeStep
    <2>1. \E t \in Storage : NodeWorks(t)
      BY <1>3, EndsStay DEF NodeStep, NodeWorks
    <2>2. QED
      BY <1>3, <2>1, NodeServes DEF NodeStep
  <1>4. CASE ClientStep
    BY <1>4, ClientServes
  <1>5. CASE UNCHANGED vars
    <2>1. ASSUME NEW s \in Storage, Member(s)'
          PROVE  Served(s, c)'
      <3>1. GivenStays(s) /\ Flows(s, c) /\ Clean' \subseteq Clean
        BY <1>5, ElseGiven, FlowsBeyond, SameItself, CleanSame DEF vars
      <3>2. QED
        BY <1>1, <1>5, <2>1, <3>1, ServedKeeps DEF vars
    <2>2. QED
      BY <2>1 DEF AllServed
  <1>6. QED
    BY <1>2, <1>3, <1>4, <1>5 DEF Next

LEMMA ServedInit ==
  ASSUME NEW c \in Socket, Init
  PROVE  Basis(c) /\ AllServed(c) /\ PairsMirror(c)
  <1> USE DEF Init, InitPraid, InitNode, InitClient
  <1>1. /\ ~ replicationActive /\ acceptor.pc = "accept" /\ worker[c].pc \notin {"walk", "put"}
        /\ requests[c] = <<>> /\ \A x \in Sector : lastPut[x] = 0
        /\ 0 \in Value
    BY InitialValues DEF AcceptorAt, WorkerAt
  <1>2. PairsMirror(c)
    BY <1>1 DEF PairsMirror, Pair, Replicating
  <1>3. ASSUME NEW x \in Sector
        PROVE  BasisOf(c, x, 0) = lastPut[x]
    <2>1. Hand(c, Writing(c)) = <<>>
      BY <1>1 DEF Hand, Writing
    <2>2. QED
      BY <1>1, <2>1, UponEmpty DEF BasisOf
  <1>4. ASSUME NEW s \in Storage, Member(s), NEW x \in Sector
        PROVE  Given(s, x, 0) /\ Flow(s, c, x, 0) = lastPut[x]
    <2>1. /\ disk[s] = Volume(0) /\ toPpd[s] = <<>> /\ jobs[s] = <<>> /\ pending[s] = <<>>
      BY <1>4 DEF Member
    <2>2. disk[s][x] = 0
      BY <2>1 DEF Volume
    <2>3. \A n, b : ComesAt(toPpd[s], n, x, b)
      BY <2>1, HasNothing, ComesNone
    <2>4. Given(s, x, 0)
      BY <1>1, <2>2, <2>3 DEF Given, Replicating
    <2>5. Hand(c, Visits(c, s)) = <<>>
      BY <1>1, HandVisits
    <2>6. QED
      BY <1>1, <2>1, <2>4, <2>5, UponEmpty DEF Flow, Arriving
  <1>5. QED
    BY <1>1, <1>2, <1>3, <1>4 DEF Basis, AllServed, Served, Clean

-----------------------------------------------------------------------------
(* PPDs that join.                                                          *)

\* What holds of one connection while no PPD has ended, and where it does: the
\* first PPD of a cluster is given no volume, and a volume is given only where
\* the replication is enabled.
Joined(c) ==
    /\ ListOrder /\ MasterAhead /\ StrangersIdle
    /\ Basis(c) /\ AllServed(c) /\ PairsMirror(c)

Joins == ReplicationEnabled /\ SleepDrainsMaster /\ InitialStorages # <<>>

JoinedInv(c) == deaths = 0 => Joined(c)

LEMMA JoinedStep ==
  ASSUME NEW c, Socket = {c}, Joins, IInv, IInv', JobsInHand, StreamInv, StageInv, DestinyWaits,
         JoinedInv(c), [Next]_vars
  PROVE  JoinedInv(c)'
  <1> SUFFICES ASSUME deaths' = 0 PROVE Joined(c)'
    BY DEF JoinedInv
  <1>1. deaths = 0
    BY EndsStay DEF IInv, TypeOK
  <1>2. /\ NobodyEnded /\ FlagRaised /\ OneSource /\ Stages
        /\ ListOrder /\ MasterAhead /\ StrangersIdle /\ Basis(c) /\ AllServed(c) /\ PairsMirror(c)
        /\ c \in Socket
    BY <1>1 DEF StreamInv, StageInv, JoinedInv, Joined, Joins
  <1>3. ListOrder' /\ MasterAhead' /\ StrangersIdle'
    BY <1>2, OrderStep DEF Joins
  <1>4. Basis(c)'
    BY <1>2, BasisStep DEF Joins
  <1>5. AllServed(c)'
    BY <1>2, ServedStep
  <1>6. PairsMirror(c)'
    BY <1>2, MirrorsStep DEF Joins
  <1>7. QED
    BY <1>3, <1>4, <1>5, <1>6 DEF Joined

\* With one PFS connection, the replication enabled and the wait for the master
\* long enough, while no PPD has crashed what every storage of the list has been
\* given of the volume and the writes on their way to it make up what the client
\* wrote last, of the sectors that are not astray, and whatever a source has yet to read of its volume is final
\* unless the destiny is to be sent it too (praid_entry_processNewPpdConnection,
\* praid_pfs_entrypoint_executePutSector, ppd_sync_replicateGet).
THEOREM RaidJoiners == ASSUME NEW c, Socket = {c}, Joins PROVE Spec => []JoinedInv(c)
  <1>1. Init => DestinyWaits
    BY DEF Init, InitPraid, DestinyWaits, Replicating
  <1>2. IInv /\ DestinyWaits /\ [Next]_vars => DestinyWaits'
    BY DestinyWaitsStep
  <1>3. Init => JoinedInv(c)
    BY OrderInit, ServedInit DEF JoinedInv, Joined
  <1>4. IInv /\ IInv' /\ JobsInHand /\ StreamInv /\ StageInv /\ DestinyWaits /\ JoinedInv(c)
           /\ [Next]_vars => JoinedInv(c)'
    BY JoinedStep
  <1>5. Spec => []JobsInHand
    BY RaidReads, PTL
  <1>6. QED
    BY <1>1, <1>2, <1>3, <1>4, <1>5, RaidInvariant, RaidStreams, RaidStages, PTL DEF Spec

\* A PPD that joined ends like those that were there from the start, with the
\* last write of every sector that is not astray, although the volume it is given is read while the
\* writes go on and the jobs for it wait (praid_ppd_sync_fireSynchronization).
THEOREM RaidReplicasHoldLastWrite ==
  ASSUME NEW c, Socket = {c}, Joins PROVE Spec => []ReplicasHoldLastWrite
  <1>1. IInv /\ StageInv /\ JoinedInv(c) => ReplicasHoldLastWrite
    <2> SUFFICES ASSUME IInv, StageInv, JoinedInv(c), deaths = 0, Distributed,
                        NEW s \in Storage, Serves(s), NEW x \in Sector
                 PROVE  x \in DOMAIN disk[s] /\ (Astray(x) \/ SettledValue(s, x) = lastPut[x])
      BY DEF ReplicasHoldLastWrite, HoldsLastWrites
    <2>1. c \in Socket /\ Stages /\ Served(s, c) /\ ppdStatus[s] = "running" /\ ready[s]
      BY DEF StageInv, JoinedInv, Joined, Joins, Serves, AllServed
    <2>2. Whole(s) /\ ~ Replicating(s)
      BY <2>1, RunningStage DEF Idle
    <2>3. Astray(x) \/ Flow(s, c, x, disk[s][x]) = lastPut[x]
      BY <2>1, <2>2, WholeGiven DEF Served, Clean
    <2>4. requests[c] = <<>> /\ Hand(c, Visits(c, s)) = <<>>
      BY <2>1, HandVisits DEF Distributed
    <2>5. Astray(x) \/ SettledValue(s, x) = lastPut[x]
      <3>1. PICK W : W = Visits(c, s) /\ Hand(c, W) = <<>>
        BY <2>4
      <3>2. Arriving(s, c, x, disk[s][x], W) = SettledValue(s, x)
        BY <2>1, <2>4, <3>1, ArrivingSettles DEF IInv
      <3>3. QED
        BY <2>3, <3>1, <3>2 DEF Flow
    <2>6. disk[s] \in Seq(Value) /\ DOMAIN disk[s] = 1 .. VolumeSectors
      BY <2>2, LenProperties DEF IInv, TypeOK, NodeTypeOK, Whole
    <2>7. QED
      BY <2>5, <2>6 DEF Sector
  <1>2. QED
    BY <1>1, RaidInvariant, RaidStages, RaidJoiners, PTL

-----------------------------------------------------------------------------
(* A read comes behind every write that its connection made before it.       *)

ReadsOf(m, c, x) == IsRead(m, c) /\ m.sector = x
Asked(q, c, x) == \E i \in DOMAIN q : ReadsOf(q[i], c, x)
ReadLast(q, c, x) == \A i, j \in DOMAIN q : ReadsOf(q[i], c, x) /\ i < j => ~ IsWrite(q[j], x)

\* A read of x has left r for q: no write of x is in r.
Before(q, r, c, x) == Asked(q, c, x) => NoWrite(r, x)

Behind(s, c, x) ==
    /\ ReadLast(jobs[s], c, x) /\ ReadLast(toPpd[s], c, x) /\ ReadLast(pending[s], c, x)
    /\ Before(jobs[s], toPpd[s], c, x) /\ Before(jobs[s], pending[s], c, x)
    /\ Before(toPpd[s], pending[s], c, x)

LEMMA HoldsOne == \A q, c : Holds(q, c) <=> \E i \in DOMAIN q : IsRead(q[i], c)
  BY DEF Holds, Reads

LEMMA NotAsked == \A q, c, x : ~ Holds(q, c) => ~ Asked(q, c, x)
  BY HoldsOne DEF Asked, ReadsOf

LEMMA EmptyLast == \A c, x : ReadLast(<<>>, c, x) /\ NoWrite(<<>>, x) /\ ~ Asked(<<>>, c, x)
  BY DEF Asked, ReadLast, NoWrite

LEMMA AppendLast ==
  ASSUME NEW T, NEW q \in Seq(T), NEW m \in T, NEW c, NEW x
  PROVE  /\ NoWrite(q, x) /\ ~ IsWrite(m, x) => NoWrite(Append(q, m), x)
         /\ Asked(Append(q, m), c, x) => Asked(q, c, x) \/ ReadsOf(m, c, x)
         /\ ReadLast(q, c, x) /\ (Asked(q, c, x) => ~ IsWrite(m, x)) => ReadLast(Append(q, m), c, x)
  <1>1. /\ DOMAIN Append(q, m) = DOMAIN q \cup {Len(q) + 1}
        /\ \A i \in DOMAIN q : i # Len(q) + 1 /\ i <= Len(q) /\ i \in Nat
        /\ \A i \in DOMAIN q : Append(q, m)[i] = q[i]
        /\ Append(q, m)[Len(q) + 1] = m
        /\ Len(q) \in Nat
    BY AppendAt
  <1>2. NoWrite(q, x) /\ ~ IsWrite(m, x) => NoWrite(Append(q, m), x)
    BY <1>1 DEF NoWrite
  <1>3. Asked(Append(q, m), c, x) => Asked(q, c, x) \/ ReadsOf(m, c, x)
    BY <1>1 DEF Asked
  <1>4. ASSUME ReadLast(q, c, x), Asked(q, c, x) => ~ IsWrite(m, x),
               NEW i \in DOMAIN Append(q, m), NEW j \in DOMAIN Append(q, m),
               ReadsOf(Append(q, m)[i], c, x), i < j
        PROVE  ~ IsWrite(Append(q, m)[j], x)
    <2>1. i \in DOMAIN q /\ Asked(q, c, x)
      <3>1. i # Len(q) + 1
        BY <1>1, <1>4
      <3>2. QED
        BY <1>1, <1>4, <3>1 DEF Asked
    <2>2. QED
      BY <1>1, <1>4, <2>1 DEF ReadLast
  <1>5. QED
    BY <1>2, <1>3, <1>4 DEF ReadLast

LEMMA WithoutLast ==
  ASSUME NEW T, NEW q \in Seq(T), NEW r \in Seq(T), NEW k, Without(q, r, k), NEW c, NEW x
  PROVE  /\ NoWrite(q, x) => NoWrite(r, x)
         /\ Asked(r, c, x) => Asked(q, c, x)
         /\ ReadLast(q, c, x) => ReadLast(r, c, x)
  <1>1. /\ Len(q) \in Nat /\ k \in 1 .. Len(q) /\ DOMAIN q = 1 .. Len(q)
        /\ DOMAIN r = 1 .. Len(q) - 1
    BY LenProperties DEF Without
  <1>2. ASSUME NEW j \in DOMAIN r
        PROVE  \E i \in DOMAIN q : r[j] = q[i] /\ i = IF j < k THEN j ELSE j + 1
    BY <1>1 DEF Without
  <1>3. NoWrite(q, x) => NoWrite(r, x)
    BY <1>2 DEF NoWrite
  <1>4. Asked(r, c, x) => Asked(q, c, x)
    BY <1>2 DEF Asked
  <1>5. ASSUME ReadLast(q, c, x), NEW i \in DOMAIN r, NEW j \in DOMAIN r, ReadsOf(r[i], c, x), i < j
        PROVE  ~ IsWrite(r[j], x)
    <2>1. PICK a \in DOMAIN q : r[i] = q[a] /\ a = IF i < k THEN i ELSE i + 1
      BY <1>2
    <2>2. PICK b \in DOMAIN q : r[j] = q[b] /\ b = IF j < k THEN j ELSE j + 1
      BY <1>2
    <2>3. a < b
      BY <1>1, <1>5, <2>1, <2>2
    <2>4. QED
      BY <1>5, <2>1, <2>2, <2>3 DEF ReadLast
  <1>6. QED
    BY <1>3, <1>4, <1>5 DEF ReadLast

\* A job that concerns neither the sector nor, if a read, the connection.
LEMMA OtherLast ==
  ASSUME NEW T, NEW q \in Seq(T), NEW r \in Seq(T), NEW k, Without(q, r, k), NEW c, NEW x,
         q[k].sector # x
  PROVE  /\ NoWrite(r, x) => NoWrite(q, x)
         /\ Asked(q, c, x) => Asked(r, c, x)
         /\ ReadLast(r, c, x) => ReadLast(q, c, x)
  <1>1. /\ Len(q) \in Nat /\ k \in 1 .. Len(q) /\ DOMAIN q = 1 .. Len(q)
        /\ DOMAIN r = 1 .. Len(q) - 1
    BY LenProperties DEF Without
  <1>2. ASSUME NEW j \in DOMAIN q, j # k
        PROVE  \E i \in DOMAIN r : q[j] = r[i] /\ i = IF j < k THEN j ELSE j - 1
    <2>1. CASE j < k
      <3>1. j \in DOMAIN r /\ r[j] = q[j]
        BY <1>1, <2>1 DEF Without
      <3>2. QED
        BY <2>1, <3>1
    <2>2. CASE j > k
      <3>1. j - 1 \in DOMAIN r /\ ~ (j - 1 < k) /\ (j - 1) + 1 = j /\ ~ (j < k)
        BY <1>1, <2>2
      <3>2. r[j - 1] = q[j]
        BY <3>1 DEF Without
      <3>3. QED
        BY <3>1, <3>2
    <2>3. QED
      BY <1>1, <1>2, <2>1, <2>2
  <1>3. /\ \A j \in DOMAIN q : ReadsOf(q[j], c, x) => j # k
        /\ \A j \in DOMAIN q : IsWrite(q[j], x) => j # k
    BY DEF ReadsOf, IsWrite
  <1>4. NoWrite(r, x) => NoWrite(q, x)
    BY <1>2, <1>3 DEF NoWrite
  <1>5. Asked(q, c, x) => Asked(r, c, x)
    BY <1>2, <1>3 DEF Asked
  <1>6. ASSUME ReadLast(r, c, x), NEW i \in DOMAIN q, NEW j \in DOMAIN q, ReadsOf(q[i], c, x), i < j
        PROVE  ~ IsWrite(q[j], x)
    <2> SUFFICES ASSUME j # k PROVE ~ IsWrite(q[j], x)
      BY <1>3
    <2>1. PICK a \in DOMAIN r : q[i] = r[a] /\ a = IF i < k THEN i ELSE i - 1
      BY <1>2, <1>3, <1>6
    <2>2. PICK b \in DOMAIN r : q[j] = r[b] /\ b = IF j < k THEN j ELSE j - 1
      BY <1>2
    <2>3. a < b
      <3>1. i # k
        BY <1>3, <1>6
      <3>2. QED
        BY <1>1, <1>6, <2>1, <2>2, <3>1
    <2>4. QED
      BY <1>6, <2>1, <2>2, <2>3 DEF ReadLast
  <1>7. QED
    BY <1>4, <1>5, <1>6 DEF ReadLast

LEMMA TailLast ==
  ASSUME NEW T, NEW q \in Seq(T), q # <<>>, NEW c, NEW x
  PROVE  /\ Tail(q) \in Seq(T) /\ Head(q) \in T
         /\ NoWrite(q, x) => NoWrite(Tail(q), x) /\ ~ IsWrite(Head(q), x)
         /\ Asked(Tail(q), c, x) \/ ReadsOf(Head(q), c, x) => Asked(q, c, x)
         /\ ReadLast(q, c, x) => ReadLast(Tail(q), c, x) /\ (ReadsOf(Head(q), c, x) => NoWrite(Tail(q), x))
  <1>1. Without(q, Tail(q), 1) /\ Tail(q) \in Seq(T) /\ Head(q) = q[1] /\ Head(q) \in T
    BY TailWithout
  <1>2. /\ NoWrite(q, x) => NoWrite(Tail(q), x)
        /\ Asked(Tail(q), c, x) => Asked(q, c, x)
        /\ ReadLast(q, c, x) => ReadLast(Tail(q), c, x)
    BY <1>1, WithoutLast
  <1>3. /\ 1 \in DOMAIN q
        /\ \A i \in DOMAIN Tail(q) : Tail(q)[i] = q[i + 1] /\ i + 1 \in DOMAIN q /\ 1 < i + 1
    BY TailAt
  <1>4. NoWrite(q, x) => ~ IsWrite(Head(q), x)
    BY <1>1, <1>3 DEF NoWrite
  <1>5. ReadsOf(Head(q), c, x) => Asked(q, c, x)
    BY <1>1, <1>3 DEF Asked
  <1>6. ReadLast(q, c, x) /\ ReadsOf(Head(q), c, x) => NoWrite(Tail(q), x)
    BY <1>1, <1>3 DEF NoWrite, ReadLast
  <1>7. QED
    BY <1>1, <1>2, <1>4, <1>5, <1>6

LEMMA BehindSame ==
  ASSUME NEW s, NEW c, NEW x, Behind(s, c, x),
         jobs'[s] = jobs[s], toPpd'[s] = toPpd[s], pending'[s] = pending[s]
  PROVE  Behind(s, c, x)'
  BY DEF Behind, ReadLast, Before, Asked, NoWrite

\* A message of a replication is neither a read nor a write.
LEMMA BehindTold ==
  ASSUME TypeOK, NEW s \in Storage, NEW c, NEW x, Behind(s, c, x), NEW d, NEW m \in Message,
         m.op \notin {"get", "put"}, SendPpd(d, m), jobs'[s] = jobs[s], pending'[s] = pending[s]
  PROVE  Behind(s, c, x)'
  <1>1. toPpd'[s] = toPpd[s] \/ toPpd'[s] = Append(toPpd[s], m)
    BY SendPpdReaches DEF TypeOK
  <1>2. CASE toPpd'[s] = toPpd[s]
    BY <1>2, BehindSame
  <1>3. CASE toPpd'[s] = Append(toPpd[s], m)
    <2>1. PICK q \in Seq(Message) : q = toPpd[s] /\ toPpd'[s] = Append(q, m)
      BY <1>3 DEF TypeOK, NetworkTypeOK
    <2>2. /\ NoWrite(q, x) => NoWrite(Append(q, m), x)
          /\ Asked(Append(q, m), c, x) => Asked(q, c, x)
          /\ ReadLast(q, c, x) => ReadLast(Append(q, m), c, x)
      BY AppendLast DEF ReadsOf, IsRead, IsWrite
    <2>3. /\ NoWrite(toPpd[s], x) => NoWrite(toPpd'[s], x)
          /\ Asked(toPpd'[s], c, x) => Asked(toPpd[s], c, x)
          /\ ReadLast(toPpd[s], c, x) => ReadLast(toPpd'[s], c, x)
      BY <2>1, <2>2
    <2>4. QED
      BY <2>3 DEF Behind, ReadLast, Before, Asked, NoWrite
  <1>4. QED
    BY <1>1, <1>2, <1>3

\* A message goes from the head of one queue to the end of the next.
LEMMA BehindMoves ==
  ASSUME NEW T, NEW U, NEW q \in Seq(T), NEW p \in Seq(U), p # <<>>, Head(p) \in T, NEW c, NEW x,
         ReadLast(q, c, x), ReadLast(p, c, x), Before(q, p, c, x)
  PROVE  /\ ReadLast(Append(q, Head(p)), c, x) /\ ReadLast(Tail(p), c, x)
         /\ Before(Append(q, Head(p)), Tail(p), c, x)
         /\ Asked(Append(q, Head(p)), c, x) => Asked(q, c, x) \/ Asked(p, c, x)
         /\ Asked(Tail(p), c, x) => Asked(p, c, x)
         /\ NoWrite(q, x) /\ NoWrite(p, x) => NoWrite(Append(q, Head(p)), x)
  <1>1. PICK m \in T : m = Head(p)
    OBVIOUS
  <1>2. /\ NoWrite(p, x) => NoWrite(Tail(p), x) /\ ~ IsWrite(m, x)
        /\ Asked(Tail(p), c, x) \/ ReadsOf(m, c, x) => Asked(p, c, x)
        /\ ReadLast(Tail(p), c, x) /\ (ReadsOf(m, c, x) => NoWrite(Tail(p), x))
    BY <1>1, TailLast
  <1>3. Asked(q, c, x) => ~ IsWrite(m, x) /\ NoWrite(Tail(p), x)
    BY <1>2 DEF Before
  <1>4. /\ NoWrite(q, x) /\ ~ IsWrite(m, x) => NoWrite(Append(q, m), x)
        /\ Asked(Append(q, m), c, x) => Asked(q, c, x) \/ ReadsOf(m, c, x)
        /\ ReadLast(Append(q, m), c, x)
    BY <1>3, AppendLast
  <1>5. QED
    BY <1>1, <1>2, <1>3, <1>4 DEF Before

\* The read that a connection waits for is the last request it made.
Asks(c) ==
    waiting[c] # 0 =>
        IF requests[c] = <<>> THEN worker[c].pc \notin {"walk", "put"}
        ELSE requests[c][Len(requests[c])].op = "get"

LEMMA NoneHeld ==
  ASSUME NEW T, NEW q \in Seq(T), NEW c
  PROVE  Count(q, c) = 0 <=> ~ Holds(q, c)
  BY CountType, FS_EmptySet DEF Count, Holds

\* While a write is being distributed no read of the connection is further on.
LEMMA PutsAlone ==
  ASSUME IInv, NEW c \in Socket, WorkerHolds(c), Answered(c), Asks(c),
         worker[c].pc \in {"walk", "put"} \/ requests[c] # <<>> \/ waiting[c] = 0
  PROVE  /\ \A s \in Storage : CopiesOn(s, c) = 0
         /\ replies[c] = <<>>
  <1> USE DEF IInv, TypeOK
  <1>1. /\ Count(requests[c], c) \in Nat /\ Len(replies[c]) \in Nat
        /\ requests[c] \in Seq(Job) /\ replies[c] \in Seq(Message)
    BY CopiesType DEF NetworkTypeOK
  <1>2. (IF worker[c].pc \in {"select", "enqueue"} THEN 1 ELSE 0) \in Nat
    OBVIOUS
  <1>3. CopiesOff(c) \in Nat /\ CopiesOff(c) >= Count(requests[c], c) + Len(replies[c])
    BY <1>1, <1>2 DEF CopiesOff
  <1>4. CASE waiting[c] = 0
    <2>1. CopiesOff(c) = 0 /\ \A s \in Storage : CopiesOn(s, c) = 0
      BY <1>4 DEF Answered, OneAnswer, NoneOn
    <2>2. Len(replies[c]) = 0
      BY <1>1, <1>3, <2>1
    <2>3. QED
      BY <1>1, <2>1, <2>2, EmptySeq
  <1>5. CASE waiting[c] # 0
    <2>1. PICK n : n = Len(requests[c]) /\ n \in DOMAIN requests[c] /\ requests[c][n].op = "get"
      <3>1. requests[c] # <<>> /\ requests[c][Len(requests[c])].op = "get"
        BY <1>5 DEF Asks
      <3>2. Len(requests[c]) \in DOMAIN requests[c]
        BY <1>1, <3>1, LenProperties, EmptySeq
      <3>3. QED
        BY <3>1, <3>2
    <2>2. IsRead(requests[c][n], c)
      BY <2>1 DEF WorkerHolds, IsRead
    <2>3. Count(requests[c], c) # 0
      BY <1>1, <2>1, <2>2, NoneHeld, HoldsOne
    <2>4. CopiesOff(c) = 1 /\ Len(replies[c]) = 0
      BY <1>1, <1>3, <1>5, <2>3 DEF Answered, OneAnswer
    <2>5. \A s \in Storage : CopiesOn(s, c) = 0
      BY <1>5, <2>4 DEF Answered, OneAnswer, NoneOn
    <2>6. QED
      BY <1>1, <2>4, <2>5, EmptySeq
  <1>6. QED
    BY <1>4, <1>5

LEMMA NoneBehind ==
  ASSUME IInv, NEW c \in Socket, NEW s \in Storage, CopiesOn(s, c) = 0
  PROVE  /\ ~ Holds(pending[s], c) /\ ~ Holds(toPpd[s], c) /\ ~ Holds(jobs[s], c)
         /\ ~ Holds(fromPpd[s], c) /\ ~ Replying(s, c)
  <1>1. /\ pending[s] \in Seq(Job) /\ toPpd[s] \in Seq(Message)
        /\ jobs[s] \in Seq(Job) /\ fromPpd[s] \in Seq(Message)
    BY DEF IInv, TypeOK, StorageTypeOK, NetworkTypeOK, NodeTypeOK
  <1>2. /\ Count(pending[s], c) = 0 /\ Count(toPpd[s], c) = 0
        /\ Count(jobs[s], c) = 0 /\ Count(fromPpd[s], c) = 0 /\ ~ Replying(s, c)
    BY NoCopies
  <1>3. ~ Holds(pending[s], c)
    BY <1>1, <1>2, NoneHeld
  <1>4. ~ Holds(toPpd[s], c)
    BY <1>1, <1>2, NoneHeld
  <1>5. ~ Holds(jobs[s], c)
    BY <1>1, <1>2, NoneHeld
  <1>6. ~ Holds(fromPpd[s], c)
    BY <1>1, <1>2, NoneHeld
  <1>7. QED
    BY <1>2, <1>3, <1>4, <1>5, <1>6

LEMMA AcceptorBehind ==
  ASSUME IInv, NEW c, NEW Quiet, Acceptor(Quiet), UNCHANGED nodeVars,
         NEW s \in Storage, NEW x, Behind(s, c, x)
  PROVE  Behind(s, c, x)'
  <1>1. UNCHANGED <<pending, jobs>>
    BY DEF Acceptor, DenyPpd, AcceptPpd, AddPpd, ValidateReplication, StartReplication,
       FireSynchronization, AcceptPfs
  <1>2. CASE toPpd' = toPpd
    BY <1>1, <1>2, BehindSame
  <1>3. CASE \E d, op : op \in {"syncGet", "syncEnd"} /\ SendPpd(d, Sync(op, 0))
    <2>1. PICK d, op : op \in {"syncGet", "syncEnd"} /\ SendPpd(d, Sync(op, 0))
      BY <1>3
    <2>2. Sync(op, 0) \in Message /\ Sync(op, 0).op \notin {"get", "put"}
      BY <2>1, SyncOp, InitialValues
    <2>3. QED
      BY <1>1, <2>1, <2>2, BehindTold DEF IInv
  <1>4. QED
    BY <1>2, <1>3 DEF Acceptor, DenyPpd, AcceptPpd, AddPpd, ValidateReplication,
       StartReplication, FireSynchronization, AcceptPfs

LEMMA ListenerBehind ==
  ASSUME IInv, NobodyEnded, NEW c, NEW t \in Storage, Listener(t), UNCHANGED nodeVars,
         NEW s \in Storage, NEW x, Behind(s, c, x)
  PROVE  Behind(s, c, x)'
  <1>1. UNCHANGED <<pending, jobs>>
    BY ListenerStays DEF ListenerResponse, ListenerReply, ListenerForget, ListenerSyncPut,
       ListenerSyncEnd
  <1>2. CASE toPpd' = toPpd
    BY <1>1, <1>2, BehindSame
  <1>3. CASE ListenerSyncPut(t) \/ ListenerSyncEnd(t)
    <2>1. PICK m \in Message : SendPpd(syncState.destiny, m) /\ m.op \notin {"get", "put"}
      <3>1. CASE ListenerSyncPut(t)
        <4>1. fromPpd[t] \in Seq(Message) /\ fromPpd[t] # <<>> /\ Head(fromPpd[t]).op = "syncPut"
          BY <3>1 DEF ListenerSyncPut, Receives, IInv, TypeOK, NetworkTypeOK
        <4>2. Head(fromPpd[t]) \in Message
          BY <4>1, HeadAndTail
        <4>3. QED
          BY <3>1, <4>1, <4>2 DEF ListenerSyncPut
      <3>2. CASE ListenerSyncEnd(t)
        <4>1. Sync("syncEnd", 0) \in Message /\ Sync("syncEnd", 0).op = "syncEnd"
          BY InitialValues, SyncOp
        <4>2. QED
          BY <3>2, <4>1 DEF ListenerSyncEnd
      <3>3. QED
        BY <1>3, <3>1, <3>2
    <2>2. QED
      BY <1>1, <2>1, BehindTold DEF IInv
  <1>4. QED
    BY <1>2, <1>3, ListenerStays DEF ListenerResponse, ListenerReply, ListenerForget

LEMMA SenderBehind ==
  ASSUME IInv, NEW c, NEW t \in Storage, Sender(t), UNCHANGED nodeVars,
         NEW s \in Storage, NEW x, Behind(s, c, x)
  PROVE  Behind(s, c, x)'
  <1> USE DEF IInv, TypeOK
  <1>1. CASE ~ SenderSend(t) \/ t # s
    <2>1. toPpd'[s] = toPpd[s] /\ pending'[s] = pending[s]
      <3>1. CASE SenderSend(t)
        BY <1>1, <3>1 DEF SenderSend, SendPpd, NetworkTypeOK, StorageTypeOK
      <3>2. CASE ~ SenderSend(t)
        BY <3>2 DEF Sender, SenderCheck, SenderExit, SenderRecord, SenderCount
      <3>3. QED
        BY <3>1, <3>2
    <2>2. QED
      BY <2>1, BehindSame
  <1>2. CASE SenderSend(s)
    <2>1. PICK q \in Seq(Message), p \in Seq(Job) :
                 q = toPpd[s] /\ p = pending[s] /\ p # <<>> /\ Head(p) \in Message
      <3>1. /\ toPpd[s] \in Seq(Message) /\ pending[s] \in Seq(Job) /\ pending[s] # <<>>
        BY <1>2 DEF SenderSend, ThreadsHoldJobs, NetworkTypeOK, StorageTypeOK
      <3>2. Head(pending[s]) \in Message
        BY <3>1, HeadAndTail DEF Message
      <3>3. QED
        BY <3>1, <3>2
    <2>2. /\ pending'[s] = Tail(p) /\ jobs'[s] = jobs[s]
          /\ toPpd'[s] = q \/ toPpd'[s] = Append(q, Head(p))
      BY <1>2, <2>1 DEF SenderSend, SendPpd, NetworkTypeOK, StorageTypeOK
    <2>3. /\ ReadLast(q, c, x) /\ ReadLast(p, c, x) /\ Before(q, p, c, x)
          /\ ReadLast(jobs[s], c, x) /\ Before(jobs[s], q, c, x) /\ Before(jobs[s], p, c, x)
      BY <2>1 DEF Behind
    <2>4. /\ ReadLast(Append(q, Head(p)), c, x) /\ ReadLast(Tail(p), c, x)
          /\ Before(Append(q, Head(p)), Tail(p), c, x)
          /\ NoWrite(q, x) /\ NoWrite(p, x) => NoWrite(Append(q, Head(p)), x)
      BY <2>1, <2>3, BehindMoves
    <2>5. NoWrite(p, x) => NoWrite(Tail(p), x)
      BY <2>1, TailLast
    <2>6. PICK r : r = toPpd'[s]
      OBVIOUS
    <2>7. /\ ReadLast(r, c, x) /\ Before(r, Tail(p), c, x) /\ (NoWrite(q, x) /\ NoWrite(p, x) => NoWrite(r, x))
      BY <2>2, <2>3, <2>4, <2>5, <2>6 DEF Before
    <2>8. /\ ReadLast(jobs[s], c, x) /\ ReadLast(r, c, x) /\ ReadLast(Tail(p), c, x)
          /\ Before(jobs[s], r, c, x) /\ Before(jobs[s], Tail(p), c, x) /\ Before(r, Tail(p), c, x)
      BY <2>3, <2>4, <2>5, <2>7 DEF Before
    <2>9. QED
      BY <2>2, <2>6, <2>8 DEF Behind, ReadLast, Before, Asked, NoWrite
  <1>3. QED
    BY <1>1, <1>2

LEMMA WorkerBehind ==
  ASSUME IInv, JobsInHand, NEW c \in Socket, Answered(c), Asks(c), Worker(c), UNCHANGED nodeVars,
         NEW s \in Storage, NEW x, Behind(s, c, x)
  PROVE  Behind(s, c, x)'
  <1> USE DEF IInv, TypeOK
  <1>1. toPpd' = toPpd /\ jobs' = jobs
    BY DEF Worker, PfsReceive, IterateStorages, ExecutePut, SelectForGet, EnqueueGet
  <1>2. CASE PfsReceive(c) \/ IterateStorages(c) \/ SelectForGet(c)
    BY <1>1, <1>2, BehindSame DEF PfsReceive, IterateStorages, SelectForGet
  <1>3. CASE ExecutePut(c) \/ EnqueueGet(c)
    <2>1. PICK job \in Job : job = worker[c].job
      BY <1>3 DEF ExecutePut, EnqueueGet, ThreadsHoldJobs
    <2>2. PICK p \in Seq(Job) : p = pending[s] /\ (pending'[s] = p \/ pending'[s] = Append(p, job))
      <3>1. pending[s] \in Seq(Job)
        BY DEF StorageTypeOK
      <3>2. pending'[s] = pending[s] \/ pending'[s] = Append(pending[s], job)
        BY <1>3, <2>1 DEF ExecutePut, EnqueueGet, QueueRead, StorageTypeOK
      <3>3. QED
        BY <3>1, <3>2
    <2>3. \/ ~ IsWrite(job, x)
          \/ ~ Asked(p, c, x) /\ ~ Asked(toPpd[s], c, x) /\ ~ Asked(jobs[s], c, x)
      <3>1. CASE ExecutePut(c)
        <4>1. ~ Holds(p, c) /\ ~ Holds(toPpd[s], c) /\ ~ Holds(jobs[s], c)
          BY <2>2, <3>1, PutsAlone, NoneBehind DEF ExecutePut, JobsInHand
        <4>2. QED
          BY <4>1, NotAsked
      <3>2. CASE EnqueueGet(c)
        BY <2>1, <3>2 DEF EnqueueGet, JobsInHand, WorkerHolds, IsWrite
      <3>3. QED
        BY <1>3, <3>1, <3>2
    <2>4. /\ ReadLast(p, c, x) /\ ReadLast(jobs[s], c, x) /\ ReadLast(toPpd[s], c, x)
          /\ Before(jobs[s], toPpd[s], c, x) /\ Before(jobs[s], p, c, x) /\ Before(toPpd[s], p, c, x)
      BY <2>2 DEF Behind
    <2>5. /\ ReadLast(Append(p, job), c, x)
          /\ NoWrite(p, x) /\ ~ IsWrite(job, x) => NoWrite(Append(p, job), x)
      BY <2>3, <2>4, AppendLast
    <2>6. PICK r : r = pending'[s]
      OBVIOUS
    <2>7. ReadLast(r, c, x) /\ Before(jobs[s], r, c, x) /\ Before(toPpd[s], r, c, x)
      BY <2>2, <2>3, <2>4, <2>5, <2>6 DEF Before
    <2>8. QED
      BY <1>1, <2>4, <2>6, <2>7 DEF Behind, ReadLast, Before, Asked, NoWrite
  <1>4. QED
    BY <1>2, <1>3 DEF Worker

LEMMA NodeBehind ==
  ASSUME IInv, NEW c, NEW t \in Storage, NodeWorks(t), deaths' = 0,
         NEW s \in Storage, NEW x \in Clean', Behind(s, c, x)
  PROVE  Behind(s, c, x)'
  <1> USE DEF IInv, TypeOK
  <1>1. /\ UNCHANGED pending
        /\ \A u \in Storage \ {t} : Still(u) /\ toPpd'[u] = toPpd[u]
    BY NodeOthers
  <1>2. CASE t # s
    BY <1>1, <1>2, BehindSame DEF Still
  <1>3. PICK q \in Seq(Job), p \in Seq(Message), r \in Seq(Job) :
               q = jobs[s] /\ p = toPpd[s] /\ r = pending[s]
    BY DEF NodeTypeOK, NetworkTypeOK, StorageTypeOK
  <1>4. /\ ReadLast(q, c, x) /\ ReadLast(p, c, x) /\ ReadLast(r, c, x)
        /\ Before(q, p, c, x) /\ Before(q, r, c, x) /\ Before(p, r, c, x)
    BY <1>3 DEF Behind
  <1>5. CASE NodeQueueJob(s)
    <2>1. p # <<>> /\ Head(p) \in Job /\ toPpd'[s] = Tail(p)
      <3>1. /\ p # <<>> /\ Head(p) \in Message /\ Head(p).op \in {"get", "put"}
            /\ toPpd'[s] = Tail(p)
        BY <1>3, <1>5, TakesTail DEF NodeQueueJob
      <3>2. Head(p) \in Job
        BY <3>1 DEF Message, SyncMessage
      <3>3. QED
        BY <3>1, <3>2
    <2>5. PICK k \in Nat, u \in Seq(Job) :
             /\ u = jobs'[s] /\ Without(u, q, k) /\ u[k] = Head(p)
             /\ u = Append(q, Head(p)) \/ Head(p).sector \in misplaced'
      BY <1>3, <1>5, QueuedJob
    <2>6. u = Append(q, Head(p)) \/ u[k].sector # x
      BY <2>5 DEF Clean, Astray
    <2>2. /\ ReadLast(Append(q, Head(p)), c, x) /\ ReadLast(Tail(p), c, x)
          /\ Before(Append(q, Head(p)), Tail(p), c, x)
          /\ Asked(Append(q, Head(p)), c, x) => Asked(q, c, x) \/ Asked(p, c, x)
          /\ Asked(Tail(p), c, x) => Asked(p, c, x)
      BY <1>4, <2>1, BehindMoves
    <2>7. u[k].sector # x =>
             ReadLast(u, c, x) /\ Before(u, Tail(p), c, x) /\ (Asked(u, c, x) => Asked(q, c, x))
      <3>1. NoWrite(p, x) => NoWrite(Tail(p), x)
        BY <2>1, TailLast
      <3>2. u[k].sector # x => ReadLast(u, c, x) /\ (Asked(u, c, x) => Asked(q, c, x))
        BY <1>4, <2>5, OtherLast
      <3>3. QED
        BY <1>4, <3>1, <3>2 DEF Before
    <2>8. /\ ReadLast(u, c, x) /\ Before(u, Tail(p), c, x)
          /\ Asked(u, c, x) => Asked(q, c, x) \/ Asked(p, c, x)
      BY <2>2, <2>6, <2>7
    <2>3. Before(u, r, c, x) /\ Before(Tail(p), r, c, x)
      BY <1>4, <2>2, <2>8 DEF Before
    <2>4. jobs'[s] = u /\ toPpd'[s] = Tail(p) /\ pending'[s] = r
      BY <1>1, <1>3, <2>1, <2>5
    <2>9. QED
      BY <1>4, <2>2, <2>3, <2>4, <2>8 DEF Behind, ReadLast, Before, Asked, NoWrite
  <1>6. CASE NodeSyncGet(s) \/ NodeSyncPut(s) \/ NodeSyncEnd(s)
    <2>1. jobs' = jobs /\ \E ops : Takes(s, ops)
      <3>1. CASE NodeSyncGet(s)
        BY <3>1, EndsCounted DEF NodeSyncGet
      <3>2. CASE NodeSyncPut(s) \/ NodeSyncEnd(s)
        BY <3>2 DEF NodeSyncPut, NodeSyncEnd
      <3>3. QED
        BY <1>6, <3>1, <3>2
    <2>2. p # <<>> /\ toPpd'[s] = Tail(p)
      BY <1>3, <2>1, TakesTail
    <2>3. /\ NoWrite(p, x) => NoWrite(Tail(p), x)
          /\ Asked(Tail(p), c, x) => Asked(p, c, x)
          /\ ReadLast(Tail(p), c, x)
      BY <1>4, <2>2, TailLast
    <2>4. Before(q, Tail(p), c, x) /\ Before(Tail(p), r, c, x)
      BY <1>4, <2>3 DEF Before
    <2>5. QED
      BY <1>1, <1>3, <1>4, <2>1, <2>2, <2>3, <2>4 DEF Behind, ReadLast, Before, Asked, NoWrite
  <1>7. CASE NodeStream(s) \/ NodeUnmap(s) \/ NodeStreamEnd(s)
    BY <1>1, <1>7, BehindSame DEF NodeStream, NodeUnmap, NodeStreamEnd
  <1>8. CASE NodeExecute(s)
    <2>1. UNCHANGED toPpd /\ \E i \in DOMAIN q : Executes(s, i)
      BY <1>3, <1>8, ExecuteOutcome DEF NodeExecute
    <2>2. PICK i \in DOMAIN q : jobs'[s] = RemoveAt(q, i)
      BY <1>3, <2>1, EndsCounted DEF Executes, NodeTypeOK
    <2>3. /\ Asked(RemoveAt(q, i), c, x) => Asked(q, c, x)
          /\ ReadLast(RemoveAt(q, i), c, x)
      BY <1>4, RemoveAtWithout, WithoutLast
    <2>4. Before(RemoveAt(q, i), p, c, x) /\ Before(RemoveAt(q, i), r, c, x)
      BY <1>4, <2>3 DEF Before
    <2>5. QED
      BY <1>1, <1>3, <1>4, <2>1, <2>2, <2>3, <2>4 DEF Behind, ReadLast, Before, Asked, NoWrite
  <1>9. CASE NodeLosesJob(s)
    <2>1. PICK i \in DOMAIN q, u \in Seq(Job) : u = jobs'[s] /\ Without(q, u, i)
      BY <1>3, <1>9, LostJob
    <2>2. ReadLast(u, c, x) /\ (Asked(u, c, x) => Asked(q, c, x))
      BY <1>4, <2>1, WithoutLast
    <2>3. Before(u, p, c, x) /\ Before(u, r, c, x)
      BY <1>4, <2>2 DEF Before
    <2>4. toPpd' = toPpd
      BY <1>9 DEF NodeLosesJob
    <2>5. QED
      BY <1>1, <1>3, <1>4, <2>1, <2>2, <2>3, <2>4 DEF Behind, ReadLast, Before, Asked, NoWrite
  <1>10. QED
    BY <1>2, <1>5, <1>6, <1>7, <1>8, <1>9 DEF NodeWorks, Node

AllBehind(c) == \A s \in Storage, x \in Clean : Behind(s, c, x)

LEMMA StepStrays == [Next]_vars => StraysStay
  <1>1. NodeStep => StraysStay
    BY NodeStrays
  <1>2. [Next]_vars => NodeStep \/ UNCHANGED nodeVars
    BY DEF Next, PraidStep, ClientStep, ClientGet, ClientPut, ClientReceive, vars
  <1>3. QED
    BY <1>1, <1>2, StraysSame

LEMMA BehindStep ==
  ASSUME IInv, JobsInHand, NobodyEnded, NEW c \in Socket, Socket = {c}, Answered(c), Asks(c),
         AllBehind(c), [Next]_vars, deaths' = 0
  PROVE  AllBehind(c)'
  <1> SUFFICES ASSUME NEW s \in Storage, NEW x \in Clean' PROVE Behind(s, c, x)'
    BY DEF AllBehind
  <1>1. Behind(s, c, x)
    <2>1. StraysStay
      BY StepStrays
    <2>2. QED
      BY <2>1, CleanShrinks DEF AllBehind
  <1>2. CASE PraidStep
    <2>1. UNCHANGED nodeVars
      BY <1>2 DEF PraidStep
    <2>2. QED
      BY <1>1, <1>2, <2>1, AcceptorBehind, WorkerBehind, SenderBehind, ListenerBehind DEF PraidStep
  <1>3. CASE NodeStep
    <2>1. \E t \in Storage : NodeWorks(t)
      BY <1>3, EndsStay DEF NodeStep, NodeWorks, IInv, TypeOK
    <2>2. QED
      BY <1>1, <2>1, NodeBehind
  <1>4. CASE ClientStep \/ UNCHANGED vars
    <2>1. UNCHANGED <<jobs, toPpd, pending>>
      BY <1>4 DEF ClientStep, ClientGet, ClientPut, ClientReceive, vars
    <2>2. QED
      BY <1>1, <2>1, BehindSame
  <1>5. QED
    BY <1>2, <1>3, <1>4 DEF Next

LEMMA AsksStep ==
  ASSUME IInv, JobsInHand, NEW c \in Socket, Socket = {c}, Asks(c), [Next]_vars
  PROVE  Asks(c)'
  <1> USE DEF IInv, TypeOK
  <1>1. requests[c] \in Seq(Job)
    BY DEF NetworkTypeOK
  <1>2. CASE UNCHANGED <<requests, waiting>> /\ (Writing(c)' => Writing(c))
    BY <1>2 DEF Asks, Writing
  <1>3. CASE PfsReceive(c) /\ UNCHANGED clientVars
    <2>1. PICK q \in Seq(Job) : q = requests[c] /\ q # <<>> /\ requests'[c] = Tail(q)
      BY <1>1, <1>3 DEF PfsReceive, NetworkTypeOK
    <2>2. PICK r \in Seq(Job) :
                 /\ r = Tail(q) /\ DOMAIN q = 1 .. Len(q) /\ Len(q) \in Nat /\ Len(q) >= 1
                 /\ DOMAIN r = 1 .. Len(q) - 1 /\ Head(q) = q[1]
                 /\ \A i \in DOMAIN r : r[i] = q[i + 1]
      <3>1. /\ DOMAIN q = 1 .. Len(q) /\ Len(q) \in Nat /\ Len(q) >= 1
            /\ DOMAIN Tail(q) = 1 .. Len(q) - 1 /\ Head(q) = q[1]
            /\ \A i \in DOMAIN Tail(q) : Tail(q)[i] = q[i + 1]
        BY <2>1, TailAt
      <3>2. Tail(q) \in Seq(Job)
        BY <2>1, HeadAndTail
      <3>3. QED
        BY <3>1, <3>2
    <2>3. Len(r) = Len(q) - 1 /\ (r = <<>> => Len(r) = 0) /\ (r # <<>> => Len(r) # 0)
      <3>1. Len(r) = Len(q) - 1
        BY <2>2, LenProperties
      <3>2. (r = <<>> => Len(r) = 0) /\ (r # <<>> => Len(r) # 0)
        BY EmptySeq
      <3>3. QED
        BY <3>1, <3>2
    <2>4. CASE r = <<>>
      <3>1. q[Len(q)] = Head(q)
        BY <2>2, <2>3, <2>4
      <3>2. waiting[c] # 0 => worker'[c].pc \notin {"walk", "put"}
        BY <1>3, <2>1, <3>1 DEF Asks, PfsReceive, WorkerMoves, WorkerAt, ThreadTypeOK
      <3>3. QED
        BY <1>3, <2>1, <2>2, <2>4, <3>2 DEF Asks
    <2>5. CASE r # <<>>
      <3>1. Len(q) - 1 \in DOMAIN r
        BY <2>2, <2>3, <2>5
      <3>2. r[Len(r)] = q[Len(q)]
        BY <2>2, <2>3, <3>1
      <3>3. QED
        BY <1>3, <2>1, <2>2, <2>5, <3>2 DEF Asks
    <2>6. QED
      BY <2>4, <2>5
  <1>4. ASSUME NEW x \in Sector, ClientGet(c, x)
        PROVE  Asks(c)'
    <2>1. PICK m \in Job : m.op = "get" /\ requests'[c] = Append(requests[c], m)
      <3>1. [op |-> "get", socket |-> c, sector |-> x, value |-> 0] \in Job
        BY InitialValues DEF Job
      <3>2. QED
        BY <1>4, <3>1 DEF ClientGet, NetworkTypeOK
    <2>2. /\ Append(requests[c], m) # <<>>
          /\ Append(requests[c], m)[Len(Append(requests[c], m))] = m
      BY <1>1, <2>1, AppendProperties
    <2>3. QED
      BY <2>1, <2>2 DEF Asks
  <1>5. ASSUME NEW x \in Sector, ClientPut(c, x)
        PROVE  Asks(c)'
    BY <1>5 DEF ClientPut, Asks
  <1>6. CASE ClientReceive(c)
    BY <1>6 DEF ClientReceive, Asks, ClientTypeOK
  <1>7. CASE PraidStep
    <2>1. UNCHANGED clientVars
      BY <1>7 DEF PraidStep
    <2>2. ASSUME NEW Quiet, Acceptor(Quiet)
          PROVE  UNCHANGED requests /\ (Writing(c)' => Writing(c))
      BY <2>2 DEF Acceptor, DenyPpd, AcceptPpd, AddPpd, ValidateReplication, StartReplication,
         FireSynchronization, AcceptPfs, WorkerLoops, WorkerMoves, WorkerAt, Writing, ThreadTypeOK
    <2>3. CASE IterateStorages(c) \/ ExecutePut(c) \/ SelectForGet(c) \/ EnqueueGet(c)
      <3>1. UNCHANGED requests /\ (Writing(c)' => Writing(c))
        BY <2>3 DEF IterateStorages, ExecutePut, SelectForGet, EnqueueGet, WorkerLoops, WorkerMoves,
           WorkerAt, WorkerPuts, Writing, ThreadTypeOK
      <3>2. UNCHANGED waiting
        BY <1>7 DEF PraidStep, clientVars
      <3>3. QED
        BY <1>2, <3>1, <3>2
    <2>4. ASSUME NEW s \in Storage, Sender(s) \/ Listener(s)
          PROVE  UNCHANGED <<requests, worker>>
      <3>1. CASE Sender(s)
        BY <3>1 DEF Sender, SenderCheck, SenderSend, SenderExit, SenderRecord, SenderCount
      <3>2. CASE Listener(s)
        BY <3>2 DEF Listener, ListenerResponse, ListenerReply, ListenerForget, ListenerSyncPut,
           ListenerSyncEnd, ListenerDisconnected, ProcessDisconnection, CollectRead,
           RemoveDisconnected, ChooseCandidate, AssignJob
      <3>3. QED
        BY <2>4, <3>1, <3>2
    <2>5. UNCHANGED waiting
      BY <1>7 DEF PraidStep, clientVars
    <2>6. CASE Acceptor(Drained)
      BY <1>2, <2>2, <2>5, <2>6
    <2>7. CASE \E s \in Storage : Sender(s) \/ Listener(s)
      BY <1>2, <2>4, <2>5, <2>7 DEF Writing
    <2>8. QED
      BY <1>3, <1>7, <2>1, <2>3, <2>6, <2>7 DEF PraidStep, Worker
  <1>8. CASE NodeStep \/ UNCHANGED vars
    <2>1. UNCHANGED <<requests, worker, waiting>>
      BY <1>8 DEF NodeStep, Node, NodeQueueJob, NodeSyncGet, NodeStream, NodeUnmap, NodeStreamEnd,
         NodeSyncPut, NodeSyncEnd, NodeExecute, NodeLosesJob, NodeDies, vars
    <2>2. QED
      BY <1>2, <2>1 DEF Writing
  <1>9. QED
    BY <1>4, <1>5, <1>6, <1>7, <1>8 DEF Next, ClientStep

\* While no PPD has ended those that run are in the list, or about to join it.
AllListed ==
    \A s \in Storage : ppdStatus[s] = "running" =>
        Member(s) \/ (acceptor.pc = "add" /\ acceptor.destiny = s)

LEMMA AllListedStep ==
  ASSUME IInv, NobodyEnded, AllListed, [Next]_vars, deaths' = 0
  PROVE  AllListed'
  <1> USE DEF IInv, TypeOK
  <1>1. CASE UNCHANGED <<storages, acceptor, ppdStatus>>
    BY <1>1 DEF AllListed, Member
  <1>2. ASSUME NEW Quiet, Acceptor(Quiet), UNCHANGED nodeVars
        PROVE  AllListed'
    <2>1. ASSUME NEW d \in Storage, DenyPpd(d) \/ AcceptPpd(d)
          PROVE  AllListed'
      BY <2>1 DEF DenyPpd, AcceptPpd, AcceptorAt, AllListed, Member, NodeTypeOK
    <2>2. CASE AddPpd
      <3>1. PICK d \in Storage : d = acceptor.destiny /\ storages' = Append(storages, d)
        BY <2>2 DEF StaysDisconnected, AddPpd, AddStorage
      <3>2. \A s : Member(s) \/ s = d => Member(s)'
        BY <3>1, AheadGrows
      <3>3. QED
        BY <2>2, <3>1, <3>2 DEF AllListed, AddPpd
    <2>3. CASE ValidateReplication \/ StartReplication(Quiet) \/ FireSynchronization
      BY <2>3 DEF ValidateReplication, StartReplication, FireSynchronization, AllListed, Member
    <2>4. ASSUME NEW c \in Socket, AcceptPfs(c)
          PROVE  AllListed'
      BY <1>1, <2>4 DEF AcceptPfs
    <2>5. QED
      BY <1>2, <2>1, <2>2, <2>3, <2>4 DEF Acceptor
  <1>3. ASSUME NEW c \in Socket, Worker(c)
        PROVE  AllListed'
    BY <1>1, <1>3 DEF Worker, PfsReceive, IterateStorages, ExecutePut, SelectForGet, EnqueueGet
  <1>4. ASSUME NEW s \in Storage, Sender(s)
        PROVE  AllListed'
    BY <1>1, <1>4 DEF Sender, SenderCheck, SenderSend, SenderExit, SenderRecord, SenderCount
  <1>5. ASSUME NEW s \in Storage, Listener(s)
        PROVE  AllListed'
    BY <1>1, <1>5, ListenerStays DEF ListenerResponse, ListenerReply, ListenerForget,
       ListenerSyncPut, ListenerSyncEnd
  <1>6. CASE PraidStep
    <2>1. UNCHANGED nodeVars
      BY <1>6 DEF PraidStep
    <2>2. QED
      BY <1>2, <1>3, <1>4, <1>5, <1>6, <2>1 DEF PraidStep
  <1>7. CASE NodeStep
    <2>1. PICK t \in Storage : NodeWorks(t)
      BY <1>7, EndsStay DEF NodeStep, NodeWorks
    <2>2. QED
      BY <1>1, <2>1, NodeOthers
  <1>8. CASE ClientStep \/ UNCHANGED vars
    BY <1>1, <1>8 DEF ClientStep, ClientGet, ClientPut, ClientReceive, vars
  <1>9. QED
    BY <1>6, <1>7, <1>8 DEF Next

\* What a read finds when a PPD executes it: the writes before it were made, and
\* there are none behind it.
LEMMA ReadFinds ==
  ASSUME IInv, JobsInHand, Stages, AllListed, NEW c \in Socket, Answered(c), Asks(c),
         NEW s \in Storage, NodeWorks(s), NodeExecute(s), deaths' = 0, 
         \A x \in Clean : Behind(s, c, x), AllServed(c),
         NEW i \in DOMAIN jobs[s], Executable(s, i), IsRead(jobs[s][i], c),
         ~ Astray(jobs[s][i].sector)
  PROVE  disk[s][jobs[s][i].sector] = lastPut[jobs[s][i].sector]
  <1> USE DEF IInv, TypeOK
  <1>1. PICK q \in Seq(Job), m \in Job, x \in Clean :
               q = jobs[s] /\ m = q[i] /\ x = m.sector /\ i \in DOMAIN q
    <2>1. jobs[s] \in Seq(Job)
      BY DEF NodeTypeOK
    <2>2. jobs[s][i] \in Job
      BY <2>1, ElementOfSeq
    <2>3. QED
      BY <2>1, <2>2 DEF Job, Clean
  <1>11. x \in Sector /\ Behind(s, c, x) /\ ReadsOf(q[i], c, x)
    BY <1>1 DEF Clean, ReadsOf
  <1>2. Member(s)
    <2>1. ppdStatus[s] = "running" /\ jobs[s] # <<>>
      BY ExecuteOutcome DEF NodeExecute
    <2>2. ~ Admitted(s)
      BY <2>1 DEF Stages, StagesFollow, Fresh, Idle
    <2>3. QED
      BY <2>1, <2>2 DEF AllListed, Admitted
  <1>3. Flow(s, c, x, disk[s][x]) = lastPut[x]
    <2>1. PICK b \in Value : Given(s, x, b) /\ Flow(s, c, x, b) = lastPut[x]
      BY <1>2, <1>11 DEF AllServed, Served
    <2>2. disk[s][x] = b
      BY <1>11, <2>1, ExecuteGiven
    <2>3. QED
      BY <2>1, <2>2
  <1>4. Holds(q, c)
    BY <1>1, HoldsOne
  <1>5. NoWrite(q, x)
    <2>1. DOMAIN q = 1 .. Len(q) /\ Len(q) \in Nat
      BY <1>1, LenProperties
    <2>2. ASSUME NEW j \in DOMAIN q
          PROVE  ~ IsWrite(q[j], x)
      <3>1. CASE j < i
        BY <1>1, <2>1, <3>1 DEF Executable, IsWrite
      <3>2. CASE j = i
        BY <1>1, <3>2 DEF IsRead, IsWrite
      <3>3. CASE i < j
        BY <1>1, <1>11, <3>3 DEF Behind, ReadLast
      <3>4. QED
        BY <1>1, <2>1, <3>1, <3>2, <3>3
    <2>3. QED
      BY <2>2 DEF NoWrite
  <1>6. NoWrite(toPpd[s], x) /\ NoWrite(pending[s], x)
    BY <1>1, <1>11 DEF Behind, Before, Asked
  <1>7. requests[c] = <<>> /\ worker[c].pc \notin {"walk", "put"}
    BY <1>1, <1>4, PutsAlone, NoneBehind DEF JobsInHand
  <1>8. Hand(c, Visits(c, s)) = <<>>
    BY <1>7, HandVisits
  <1>9. \A d : Flow(s, c, x, d) = d
    <2>1. PICK W : W = Visits(c, s) /\ Hand(c, W) = <<>>
      BY <1>8
    <2>2. NoWrite(jobs[s], x)
      BY <1>1, <1>5
    <2>3. \A d : Arriving(s, c, x, d, W) = d
      BY <1>6, <1>7, <2>1, <2>2, UponNothing, UponEmpty DEF Arriving
    <2>4. QED
      BY <2>1, <2>3 DEF Flow
  <1>10. QED
    BY <1>1, <1>3, <1>9

\* An answer on its way holds what was written last to the sector, unless the
\* sector is astray.
Seen(m) == Astray(m.sector) \/ m.value = lastPut[m.sector]
Fit(q) == \A i \in DOMAIN q : q[i].op = "get" => Seen(q[i])
AllSeen(c) ==
    /\ \A s \in Storage : Fit(fromPpd[s]) /\ (listener[s].pc = "reply" => Seen(listener[s].message))
    /\ \A i \in DOMAIN replies[c] : Seen(replies[c][i])

LEMMA FitAppend ==
  ASSUME NEW T, NEW q \in Seq(T), NEW m \in T, Fit(q), m.op = "get" => Seen(m)
  PROVE  Fit(Append(q, m))
  BY AppendAt DEF Fit

LEMMA FitTail ==
  ASSUME NEW T, NEW q \in Seq(T), q # <<>>, Fit(q)
  PROVE  Fit(Tail(q)) /\ (Head(q).op = "get" => Seen(Head(q)))
  <1>1. /\ \A i \in DOMAIN Tail(q) : Tail(q)[i] = q[i + 1] /\ i + 1 \in DOMAIN q
        /\ Head(q) = q[1] /\ 1 \in DOMAIN q
    BY TailAt
  <1>2. QED
    BY <1>1 DEF Fit

LEMMA SeenSame ==
  ASSUME UNCHANGED lastPut, StraysStay
  PROVE  /\ \A m : Seen(m) => Seen(m)'
         /\ \A q : Fit(q) => Fit(q)'
  BY AstrayStays DEF Seen, Fit

LEMMA ListenerSeen ==
  ASSUME IInv, JobsInHand, NobodyEnded, NEW c \in Socket, Socket = {c}, AllSeen(c),
         NEW t \in Storage, Listener(t), UNCHANGED <<nodeVars, clientVars>>
  PROVE  AllSeen(c)'
  <1> USE DEF IInv, TypeOK
  <1>1. PICK q \in Seq(Message), r \in Seq(Message) : q = fromPpd[t] /\ r = replies[c]
    BY DEF NetworkTypeOK
  <1>2. /\ Fit(q) /\ (listener[t].pc = "reply" => Seen(listener[t].message))
        /\ \A i \in DOMAIN r : Seen(r[i])
    BY <1>1 DEF AllSeen
  <1>3. \A s \in Storage \ {t} : fromPpd'[s] = fromPpd[s] /\ listener'[s] = listener[s]
    BY ListenerStays DEF ListenerResponse, ListenerReply, ListenerForget, ListenerSyncPut,
       ListenerSyncEnd, Receives, ListenerMoves, ListenerLoops, NetworkTypeOK, ThreadTypeOK
  <1>4. CASE ListenerResponse(t) \/ ListenerSyncPut(t) \/ ListenerSyncEnd(t)
    <2>1. q # <<>> /\ fromPpd'[t] = Tail(q) /\ replies' = replies
      BY <1>1, <1>4 DEF ListenerResponse, ListenerSyncPut, ListenerSyncEnd, Receives, NetworkTypeOK
    <2>2. Fit(Tail(q)) /\ (Head(q).op = "get" => Seen(Head(q)))
      BY <1>2, <2>1, FitTail
    <2>3. listener'[t].pc = "reply" => Seen(listener'[t].message)
      <3>1. CASE ListenerResponse(t)
        BY <1>1, <2>2, <3>1 DEF ListenerResponse, Receives, ListenerMoves, ListenerAt, ThreadTypeOK
      <3>2. CASE ListenerSyncPut(t) \/ ListenerSyncEnd(t)
        BY <1>2, <3>2 DEF ListenerSyncPut, ListenerSyncEnd
      <3>3. QED
        BY <1>4, <3>1, <3>2
    <2>4. QED
      BY <1>3, <2>1, <2>2, <2>3, SeenSame, StraysSame DEF AllSeen, clientVars
  <1>5. CASE ListenerReply(t)
    <2>1. PICK m \in Message : m = listener[t].message /\ Seen(m) /\ replies'[c] = Append(r, m)
      <3>1. listener[t].message \in Job /\ listener[t].pc = "reply"
        BY <1>5 DEF ListenerReply, JobsInHand, ListenerHolds
      <3>2. listener[t].message.socket = c
        BY <3>1 DEF Job
      <3>3. replies'[c] = Append(r, listener[t].message)
        BY <1>1, <1>5, <3>2 DEF ListenerReply, NetworkTypeOK
      <3>4. QED
        BY <1>2, <3>1, <3>3 DEF Message
    <2>2. /\ DOMAIN Append(r, m) = DOMAIN r \cup {Len(r) + 1}
          /\ \A i \in DOMAIN r : Append(r, m)[i] = r[i]
          /\ Append(r, m)[Len(r) + 1] = m
      BY AppendAt
    <2>3. \A i \in DOMAIN Append(r, m) : Seen(Append(r, m)[i])
      BY <1>2, <2>1, <2>2
    <2>4. fromPpd' = fromPpd /\ listener'[t].pc # "reply"
      BY <1>5 DEF ListenerReply, ListenerMoves, ListenerAt, ThreadTypeOK
    <2>5. QED
      BY <1>1, <1>2, <1>3, <2>1, <2>3, <2>4, SeenSame, StraysSame DEF AllSeen, clientVars
  <1>6. CASE ListenerForget(t)
    <2>1. UNCHANGED <<fromPpd, replies>> /\ listener'[t].pc # "reply"
      BY <1>6 DEF ListenerForget, ListenerLoops, ListenerMoves, ListenerAt, ThreadTypeOK
    <2>2. QED
      BY <1>3, <2>1, SeenSame, StraysSame DEF AllSeen, clientVars
  <1>7. QED
    BY <1>4, <1>5, <1>6, ListenerStays

LEMMA NodeSeen ==
  ASSUME IInv, JobsInHand, Stages, AllListed, NEW c \in Socket, Socket = {c}, Answered(c), Asks(c),
         AllBehind(c), AllServed(c), AllSeen(c), NEW t \in Storage, NodeWorks(t), deaths' = 0,
         UNCHANGED clientVars
  PROVE  AllSeen(c)'
  <1> USE DEF IInv, TypeOK
  <1>1. /\ UNCHANGED <<listener, replies>>
        /\ \A s \in Storage \ {t} : fromPpd'[s] = fromPpd[s]
    BY NodeOthers
  <1>2. PICK q \in Seq(Message) : q = fromPpd[t] /\ Fit(q)
    BY DEF NetworkTypeOK, AllSeen
  <1>3. fromPpd'[t] = q \/ \E m \in Message : fromPpd'[t] = Append(q, m) /\ (m.op = "get" => Seen(m))
    <2>1. CASE NodeStream(t)
      <3>1. disk[t] \in Seq(Value) /\ stream[t] \in DOMAIN disk[t]
        BY <2>1 DEF NodeStream, NodeTypeOK
      <3>2. PICK v \in Value : v = disk[t][stream[t]]
        BY <3>1, ElementOfSeq
      <3>3. Sync("syncPut", v) \in Message /\ Sync("syncPut", v).op = "syncPut"
        BY SyncOp
      <3>4. fromPpd'[t] = Append(q, Sync("syncPut", v))
        BY <1>2, <2>1, <3>2 DEF NodeStream, NetworkTypeOK
      <3>5. QED
        BY <3>3, <3>4
    <2>2. CASE NodeStreamEnd(t)
      <3>1. Sync("syncEnd", 0) \in Message /\ Sync("syncEnd", 0).op = "syncEnd"
        BY SyncOp, InitialValues
      <3>2. fromPpd'[t] = Append(q, Sync("syncEnd", 0))
        BY <1>2, <2>2 DEF NodeStreamEnd, NetworkTypeOK
      <3>3. QED
        BY <3>1, <3>2
    <2>3. CASE NodeExecute(t)
      <3>1. PICK i \in DOMAIN jobs[t] : Executable(t, i) /\ Executes(t, i)
        BY <2>3 DEF NodeExecute
      <3>2. PICK m \in Job : m = jobs[t][i]
        BY <3>1, ElementOfSeq DEF NodeTypeOK
      <3>3. mapped[t] /\ m.sector \in DOMAIN disk[t]
        BY <3>1, <3>2, EndsCounted DEF Executes
      <3>4. CASE m.op = "put"
        BY <1>2, <3>1, <3>2, <3>3, <3>4 DEF Executes
      <3>5. CASE m.op # "put"
        <4>1. IsRead(m, c)
          BY <3>5 DEF Job, IsRead
        <4>2. Astray(m.sector) \/ disk[t][m.sector] = lastPut[m.sector]
          BY <2>3, <3>1, <3>2, <4>1, ReadFinds DEF AllBehind
        <4>3. PICK v \in Value : v = disk[t][m.sector]
          BY <3>3, ElementOfSeq DEF NodeTypeOK
        <4>4. PICK n \in Message : n = [m EXCEPT !.value = v] /\ n.sector = m.sector /\ n.value = v
          <5>1. [m EXCEPT !.value = v] \in Job
            BY DEF Job
          <5>2. [m EXCEPT !.value = v].sector = m.sector /\ [m EXCEPT !.value = v].value = v
            BY DEF Job
          <5>3. QED
            BY <5>1, <5>2 DEF Message
        <4>5. fromPpd'[t] = Append(q, n)
          BY <1>2, <3>1, <3>2, <3>3, <3>5, <4>3, <4>4 DEF Executes, NetworkTypeOK
        <4>6. QED
          BY <4>2, <4>3, <4>4, <4>5 DEF Seen
      <3>6. QED
        BY <3>4, <3>5
    <2>4. CASE NodeQueueJob(t) \/ NodeSyncGet(t) \/ NodeUnmap(t) \/ NodeSyncPut(t) \/ NodeSyncEnd(t)
               \/ NodeLosesJob(t)
      BY <1>2, <2>4 DEF NodeLosesJob, NodeQueueJob, NodeSyncGet, NodeUnmap, NodeSyncPut, NodeSyncEnd
    <2>5. QED
      BY <2>1, <2>2, <2>3, <2>4 DEF NodeWorks, Node
  <1>4. PICK p : p = fromPpd'[t] /\ Fit(p)
    BY <1>2, <1>3, FitAppend
  <1>5. QED
    <2>1. StraysStay
      <3>1. NodeStep
        BY DEF NodeStep, NodeWorks
      <3>2. QED
        BY <3>1, NodeStrays
    <2>2. lastPut' = lastPut
      BY DEF clientVars
    <2>3. QED
      BY <1>1, <1>4, <2>1, <2>2, SeenSame DEF AllSeen

LEMMA ClientSeen ==
  ASSUME IInv, JobsInHand, NEW c \in Socket, Socket = {c}, Answered(c), Asks(c), AllSeen(c), ClientStep
  PROVE  AllSeen(c)'
  <1> USE DEF IInv, TypeOK
  <1>1. UNCHANGED <<fromPpd, listener>>
    BY DEF ClientStep, ClientGet, ClientPut, ClientReceive
  <1>6. StraysStay
    BY StraysSame DEF ClientStep, ClientGet, ClientPut, ClientReceive
  <1>2. ASSUME NEW x \in Sector, ClientGet(c, x)
        PROVE  AllSeen(c)'
    BY <1>1, <1>2, <1>6, SeenSame DEF ClientGet, AllSeen
  <1>3. ASSUME NEW x \in Sector, ClientPut(c, x)
        PROVE  AllSeen(c)'
    <2>1. waiting[c] = 0 /\ replies' = replies
      BY <1>3 DEF ClientPut
    <2>2. replies[c] = <<>> /\ \A s \in Storage : CopiesOn(s, c) = 0
      BY <2>1, PutsAlone DEF JobsInHand
    <2>3. ASSUME NEW s \in Storage
          PROVE  Fit(fromPpd[s])' /\ listener'[s].pc # "reply"
      <3>1. ~ Holds(fromPpd[s], c) /\ ~ Replying(s, c)
        BY <2>2, NoneBehind
      <3>2. listener[s].pc # "reply"
        BY <3>1 DEF Replying, JobsInHand, ListenerHolds, Job
      <3>3. fromPpd[s] \in Seq(Message)
        BY DEF NetworkTypeOK
      <3>4. ASSUME NEW i \in DOMAIN fromPpd[s]
            PROVE  fromPpd[s][i].op # "get"
        <4>1. fromPpd[s][i] \in Message
          BY <3>3, ElementOfSeq
        <4>2. fromPpd[s][i].op = "get" => IsRead(fromPpd[s][i], c)
          BY <4>1 DEF Message, Job, SyncMessage, IsRead
        <4>3. QED
          BY <3>1, <4>2, HoldsOne
      <3>5. QED
        BY <1>1, <3>2, <3>4 DEF Fit
    <2>4. QED
      BY <2>1, <2>2, <2>3 DEF AllSeen
  <1>4. CASE ClientReceive(c)
    <2>1. PICK r \in Seq(Message) : r = replies[c] /\ r # <<>> /\ replies'[c] = Tail(r)
      BY <1>4 DEF ClientReceive, NetworkTypeOK
    <2>2. \A i \in DOMAIN Tail(r) : Tail(r)[i] = r[i + 1] /\ i + 1 \in DOMAIN r
      BY <2>1, TailAt
    <2>3. \A i \in DOMAIN replies'[c] : Seen(replies'[c][i])
      BY <2>1, <2>2 DEF AllSeen
    <2>4. UNCHANGED lastPut
      BY <1>4 DEF ClientReceive
    <2>5. QED
      BY <1>1, <1>6, <2>3, <2>4, SeenSame DEF AllSeen
  <1>5. QED
    BY <1>2, <1>3, <1>4 DEF ClientStep

LEMMA SeenStep ==
  ASSUME IInv, JobsInHand, NobodyEnded, Stages, AllListed, NEW c \in Socket, Socket = {c},
         Answered(c), Asks(c), AllBehind(c), AllServed(c), AllSeen(c), [Next]_vars, deaths' = 0
  PROVE  AllSeen(c)'
  <1> USE DEF IInv, TypeOK
  <1>1. CASE UNCHANGED <<fromPpd, replies, lastPut>>
             /\ \A s \in Storage : listener'[s] = listener[s] \/ listener'[s].pc # "reply"
    BY <1>1, StepStrays, SeenSame DEF AllSeen
  <1>2. CASE PraidStep
    <2>1. UNCHANGED <<nodeVars, clientVars>>
      BY <1>2 DEF PraidStep
    <2>2. CASE Acceptor(Drained)
      <3>1. UNCHANGED <<fromPpd, replies>>
        BY <2>2 DEF Acceptor, DenyPpd, AcceptPpd, AddPpd, ValidateReplication,
           StartReplication, FireSynchronization, AcceptPfs
      <3>2. \A s \in Storage : listener'[s] = listener[s] \/ listener'[s].pc # "reply"
        BY <2>2 DEF Acceptor, DenyPpd, AcceptPpd, AddPpd, ValidateReplication,
           StartReplication, FireSynchronization, AcceptPfs, LaunchSlaveThreads, ListenerMoves,
           ListenerAt, ThreadTypeOK
      <3>3. QED
        BY <1>1, <2>1, <3>1, <3>2
    <2>3. CASE Worker(c)
      BY <1>1, <2>1, <2>3 DEF Worker, PfsReceive, IterateStorages, ExecutePut, SelectForGet, EnqueueGet
    <2>4. ASSUME NEW s \in Storage, Sender(s)
          PROVE  AllSeen(c)'
      BY <1>1, <2>1, <2>4 DEF Sender, SenderCheck, SenderSend, SenderExit, SenderRecord, SenderCount
    <2>5. ASSUME NEW s \in Storage, Listener(s)
          PROVE  AllSeen(c)'
      BY <2>1, <2>5, ListenerSeen
    <2>6. QED
      BY <1>2, <2>2, <2>3, <2>4, <2>5 DEF PraidStep
  <1>3. CASE NodeStep
    <2>1. \E t \in Storage : NodeWorks(t)
      BY <1>3, EndsStay DEF NodeStep, NodeWorks
    <2>2. QED
      BY <1>3, <2>1, NodeSeen DEF NodeStep
  <1>4. CASE ClientStep
    BY <1>4, ClientSeen
  <1>5. CASE UNCHANGED vars
    BY <1>1, <1>5 DEF vars
  <1>6. QED
    BY <1>2, <1>3, <1>4, <1>5 DEF Next

\* Where the read of the connection may be, and what it will find.
ReadsFollow(c) == AllListed /\ Asks(c) /\ AllBehind(c) /\ AllSeen(c)
SeesInv(c) == deaths = 0 => ReadsFollow(c)

LEMMA SeesStep ==
  ASSUME NEW c, Socket = {c}, Joins, IInv, JobsInHand, ReadInv, StreamInv, StageInv,
         JoinedInv(c), SeesInv(c), [Next]_vars
  PROVE  SeesInv(c)'
  <1> SUFFICES ASSUME deaths' = 0 PROVE ReadsFollow(c)'
    BY DEF SeesInv
  <1>1. deaths = 0
    BY EndsStay DEF IInv, TypeOK
  <1>2. /\ NobodyEnded /\ Stages /\ AllServed(c) /\ Answered(c) /\ c \in Socket
        /\ AllListed /\ Asks(c) /\ AllBehind(c) /\ AllSeen(c)
    BY <1>1 DEF StreamInv, StageInv, JoinedInv, Joined, Joins, ReadInv, SeesInv, ReadsFollow
  <1>3. AllListed'
    BY <1>2, AllListedStep
  <1>4. Asks(c)'
    BY <1>2, AsksStep
  <1>5. AllBehind(c)'
    BY <1>2, BehindStep
  <1>6. AllSeen(c)'
    BY <1>2, SeenStep
  <1>7. QED
    BY <1>3, <1>4, <1>5, <1>6 DEF ReadsFollow

LEMMA SeesInit == ASSUME NEW c \in Socket, Init PROVE SeesInv(c)
  <1> USE DEF Init, InitPraid, InitNode, InitClient
  <1>1. AllListed
    BY DEF AllListed, Member
  <1>2. Asks(c)
    BY DEF Asks
  <1>3. AllBehind(c)
    BY EmptyLast DEF AllBehind, Behind, Before
  <1>4. AllSeen(c)
    <2>1. \A s \in Storage : fromPpd[s] = <<>> /\ listener[s].pc # "reply"
      BY DEF ListenerAt
    <2>2. replies[c] = <<>>
      OBVIOUS
    <2>3. DOMAIN <<>> = {}
      OBVIOUS
    <2>4. QED
      BY <2>1, <2>2, <2>3 DEF AllSeen, Fit
  <1>5. QED
    BY <1>1, <1>2, <1>3, <1>4 DEF SeesInv, ReadsFollow

\* With one PFS connection, the replication enabled and the wait for the master
\* long enough, while no PPD has crashed no write is behind a read, on its way or
\* in a PPD, and every answer on its way holds what was written last, of the
\* sectors that are not astray (praid_pfs_entrypoint_executeGetSector, ppd_planifier_worker_doJob).
THEOREM RaidReadsFollow == ASSUME NEW c, Socket = {c}, Joins PROVE Spec => []SeesInv(c)
  <1>1. Init => SeesInv(c)
    BY SeesInit
  <1>2. IInv /\ JobsInHand /\ ReadInv /\ StreamInv /\ StageInv /\ JoinedInv(c) /\ SeesInv(c)
           /\ [Next]_vars => SeesInv(c)'
    BY SeesStep
  <1>3. QED
    BY <1>1, <1>2, RaidInvariant, RaidReads, RaidStreams, RaidStages, RaidJoiners, PTL DEF Spec

\* A read of a sector that no PPD has put jobs of out of order, or lost a job of,
\* gives the last value written, on whatever PPD it is executed, one that
\* has just joined included, and although no write is ever acknowledged
\* (pfs_endpoint_buildAndSendGet, praid_balancer_selectStorage).
THEOREM RaidReadsSeeLastWrite ==
  ASSUME NEW c, Socket = {c}, Joins PROVE Spec => []ReadsSeeLastWrite
  <1>1. SeesInv(c) => ReadsSeeLastWrite
    BY DEF SeesInv, ReadsFollow, AllSeen, Seen, ReadsSeeLastWrite
  <1>2. QED
    BY <1>1, RaidReadsFollow, PTL

=============================================================================
