--------------------------- MODULE PfsFile_proofs ---------------------------
(***************************************************************************)
(* The contents of a file, for blocks of any size, volumes of any number of *)
(* clusters, and any handles, sizes and changes.                            *)
(***************************************************************************)
EXTENDS PfsFile, WellFoundedInduction, TLAPS

-----------------------------------------------------------------------------
\* The smallest of some numbers.
LEMMA NatMin ==
  ASSUME NEW T \in SUBSET Nat, T # {}
  PROVE  Min(T) \in T /\ \A y \in T : Min(T) <= y
  <1>1. \E x \in T : \A y \in T : ~ (<<y, x>> \in OpToRel(<, Nat))
    <2>1. IsWellFoundedOn(OpToRel(<, Nat), Nat)
      BY NatLessThanWellFounded
    <2>2. QED
      BY <2>1, WFMin
  <1>2. PICK x \in T : \A y \in T : ~ (<<y, x>> \in OpToRel(<, Nat))
    BY <1>1
  <1>3. \A y \in T : y \in Nat /\ x \in Nat /\ ~ (y < x)
    BY <1>2 DEF OpToRel
  <1>4. \E z \in T : \A y \in T : z =< y
    BY <1>3
  <1>5. QED
    BY <1>4 DEF Min

\* A set of numbers with 0 and with the successor of each has them all.
LEMMA AllNumbers ==
  ASSUME NEW S, 0 \in S, \A n \in Nat : n \in S => n + 1 \in S
  PROVE  \A n \in Nat : n \in S
  <1> DEFINE T == {n \in Nat : n \notin S}
  <1> SUFFICES ASSUME T # {} PROVE FALSE
    OBVIOUS
  <1>1. PICK m \in T : \A y \in T : m <= y
    BY NatMin
  <1>2. m \in Nat /\ m \notin S
    OBVIOUS
  <1>3. m # 0
    BY <1>2
  <1>4. m - 1 \in Nat /\ m - 1 \notin T /\ (m - 1) + 1 = m
    BY <1>1, <1>2, <1>3
  <1>5. m - 1 \in S
    BY <1>4
  <1>6. QED
    BY <1>2, <1>4, <1>5

-----------------------------------------------------------------------------
\* What Nth computes with: the clusters of a chain, up to one of them.
IsWalk(table, c, n, at) ==
    at = [i \in 0 .. n |-> IF i = 0 THEN c ELSE IF at[i - 1] = Eoc THEN Eoc ELSE table[at[i - 1]]]

LEMMA WalkExists ==
  ASSUME NEW table, NEW c
  PROVE  \A n \in Nat : \E at : IsWalk(table, c, n, at)
  <1> DEFINE S == {n \in Nat : \E at : IsWalk(table, c, n, at)}
  <1>1. 0 \in S
    <2> DEFINE at == [i \in 0 .. 0 |-> c]
    <2>1. \A i \in 0 .. 0 : i = 0
      OBVIOUS
    <2>2. IsWalk(table, c, 0, at)
      BY <2>1 DEF IsWalk
    <2>3. QED
      BY <2>2
  <1>2. ASSUME NEW n \in Nat, n \in S PROVE n + 1 \in S
    <2>1. PICK at : IsWalk(table, c, n, at)
      BY <1>2
    <2> DEFINE last == IF at[n] = Eoc THEN Eoc ELSE table[at[n]]
               to == [i \in 0 .. n + 1 |-> IF i = n + 1 THEN last ELSE at[i]]
    <2>2. \A i \in 0 .. n : at[i] = IF i = 0 THEN c ELSE IF at[i - 1] = Eoc THEN Eoc
                                    ELSE table[at[i - 1]]
      BY <2>1 DEF IsWalk
    <2>3. \A i \in 0 .. n + 1 : to[i] = IF i = 0 THEN c ELSE IF to[i - 1] = Eoc THEN Eoc
                                        ELSE table[to[i - 1]]
      <3> SUFFICES ASSUME NEW i \in 0 .. n + 1
                   PROVE  to[i] = IF i = 0 THEN c ELSE IF to[i - 1] = Eoc THEN Eoc
                                  ELSE table[to[i - 1]]
        OBVIOUS
      <3>1. CASE i = n + 1
        <4>1. i # 0 /\ i - 1 = n /\ n \in 0 .. n + 1 /\ n # n + 1
          BY <3>1
        <4>2. QED
          BY <3>1, <4>1
      <3>2. CASE i # n + 1 /\ i # 0
        <4>1. i \in 0 .. n /\ i - 1 \in 0 .. n + 1 /\ i - 1 # n + 1
          BY <3>2
        <4>2. QED
          BY <2>2, <3>2, <4>1
      <3>3. CASE i = 0
        <4>1. i \in 0 .. n /\ i # n + 1
          BY <3>3
        <4>2. QED
          BY <2>2, <3>3, <4>1
      <3>4. QED
        BY <3>1, <3>2, <3>3
    <2>4. to = [i \in 0 .. n + 1 |-> to[i]]
      OBVIOUS
    <2> HIDE DEF to
    <2>5. IsWalk(table, c, n + 1, to)
      BY <2>3, <2>4 DEF IsWalk
    <2>6. QED
      BY <2>5
  <1>3. \A n \in Nat : n \in S
    <2> HIDE DEF S
    <2> QED BY <1>1, <1>2, AllNumbers
  <1>4. QED
    BY <1>3

LEMMA WalkUnique ==
  ASSUME NEW table, NEW c, NEW n \in Nat, NEW m \in Nat, NEW at, NEW to,
         IsWalk(table, c, n, at), IsWalk(table, c, m, to)
  PROVE  \A i \in Nat : i <= n /\ i <= m => at[i] = to[i]
  <1> DEFINE S == {i \in Nat : i <= n /\ i <= m => at[i] = to[i]}
  <1>1. /\ \A i \in 0 .. n : at[i] = IF i = 0 THEN c ELSE IF at[i - 1] = Eoc THEN Eoc
                                     ELSE table[at[i - 1]]
        /\ \A i \in 0 .. m : to[i] = IF i = 0 THEN c ELSE IF to[i - 1] = Eoc THEN Eoc
                                     ELSE table[to[i - 1]]
    BY DEF IsWalk
  <1>2. 0 \in S
    BY <1>1
  <1>3. ASSUME NEW i \in Nat, i \in S PROVE i + 1 \in S
    <2> SUFFICES ASSUME i + 1 <= n, i + 1 <= m PROVE at[i + 1] = to[i + 1]
      OBVIOUS
    <2>1. at[i] = to[i] /\ i + 1 \in 0 .. n /\ i + 1 \in 0 .. m /\ i + 1 # 0 /\ (i + 1) - 1 = i
      BY <1>3
    <2>2. QED
      BY <1>1, <2>1
  <1>4. QED
    <2>1. \A i \in Nat : i \in S
      <3> HIDE DEF S
      <3> QED BY <1>2, <1>3, AllNumbers
    <2>2. QED
      BY <2>1

LEMMA NthIsWalk ==
  ASSUME NEW table, NEW c, NEW n \in Nat
  PROVE  \E at : IsWalk(table, c, n, at) /\ Nth(table, c, n) = at[n]
  <1> DEFINE at == CHOOSE at : IsWalk(table, c, n, at)
  <1>1. IsWalk(table, c, n, at)
    BY WalkExists
  <1>2. Nth(table, c, n) = at[n]
    BY Zenon DEF Nth, IsWalk
  <1>3. QED
    BY <1>1, <1>2

\* A chain starts with its first cluster, and goes on as the table says until
\* its end (getNextClusterInChain).
LEMMA NthSteps ==
  ASSUME NEW table, NEW c
  PROVE  /\ Nth(table, c, 0) = c
         /\ \A n \in Nat : Nth(table, c, n + 1) =
              IF Nth(table, c, n) = Eoc THEN Eoc ELSE table[Nth(table, c, n)]
  <1>1. Nth(table, c, 0) = c
    BY NthIsWalk DEF IsWalk
  <1>2. ASSUME NEW n \in Nat
        PROVE  Nth(table, c, n + 1) =
                 IF Nth(table, c, n) = Eoc THEN Eoc ELSE table[Nth(table, c, n)]
    <2>1. PICK at : IsWalk(table, c, n, at) /\ Nth(table, c, n) = at[n]
      BY NthIsWalk
    <2>2. PICK to : IsWalk(table, c, n + 1, to) /\ Nth(table, c, n + 1) = to[n + 1]
      BY NthIsWalk
    <2>3. at[n] = to[n]
      BY <2>1, <2>2, WalkUnique
    <2>4. to[n + 1] = IF to[n] = Eoc THEN Eoc ELSE table[to[n]]
      BY <2>2 DEF IsWalk
    <2>5. QED
      BY <2>1, <2>2, <2>3, <2>4
  <1>3. QED
    BY <1>1, <1>2

LEMMA NthNext ==
  ASSUME NEW table, NEW c, NEW n \in Nat
  PROVE  Nth(table, c, n + 1) = IF Nth(table, c, n) = Eoc THEN Eoc ELSE table[Nth(table, c, n)]
  BY NthSteps

\* Every value of the table is an entry or the end.
TableOK(table) == table \in [Cluster -> 0 .. Eoc]

LEMMA NthType ==
  ASSUME NEW table, TableOK(table), NEW c \in 0 .. Eoc
  PROVE  \A n \in Nat : Nth(table, c, n) \in 0 .. Eoc
  <1> DEFINE S == {n \in Nat : Nth(table, c, n) \in 0 .. Eoc}
  <1>1. 0 \in S
    BY NthSteps
  <1>2. ASSUME NEW n \in Nat, n \in S PROVE n + 1 \in S
    <2>1. Nth(table, c, n) \in 0 .. Eoc /\ n + 1 \in Nat
      BY <1>2
    <2>2. Nth(table, c, n + 1) = IF Nth(table, c, n) = Eoc THEN Eoc ELSE table[Nth(table, c, n)]
      BY NthSteps
    <2>3. CASE Nth(table, c, n) = Eoc
      BY <2>1, <2>2, <2>3
    <2>4. CASE Nth(table, c, n) # Eoc
      <3>1. Nth(table, c, n) \in Cluster
        BY <2>1, <2>4, FileAssumption DEF Cluster
      <3>2. QED
        BY <2>1, <2>2, <2>4, <3>1 DEF TableOK
    <2>5. QED
      BY <2>3, <2>4
  <1>3. \A n \in Nat : n \in S
    <2> HIDE DEF S
    <2> QED BY <1>1, <1>2, AllNumbers
  <1>4. QED
    BY <1>3

\* Nothing follows the end of a chain.
LEMMA NthEnd ==
  ASSUME NEW table, NEW c, NEW i \in Nat, Nth(table, c, i) = Eoc
  PROVE  \A j \in Nat : i <= j => Nth(table, c, j) = Eoc
  <1> DEFINE S == {k \in Nat : Nth(table, c, i + k) = Eoc}
  <1>1. 0 \in S
    OBVIOUS
  <1>2. ASSUME NEW k \in Nat, k \in S PROVE k + 1 \in S
    <2>1. (i + k) + 1 = i + (k + 1) /\ i + k \in Nat /\ k + 1 \in Nat
      OBVIOUS
    <2>2. Nth(table, c, (i + k) + 1) = Eoc
      BY <1>2, <2>1, NthSteps
    <2>3. QED
      BY <2>1, <2>2
  <1>3. \A k \in Nat : k \in S
    <2> HIDE DEF S
    <2> QED BY <1>1, <1>2, AllNumbers
  <1>4. ASSUME NEW j \in Nat, i <= j PROVE Nth(table, c, j) = Eoc
    <2>1. j - i \in Nat /\ i + (j - i) = j
      BY <1>4
    <2>2. j - i \in S
      BY <1>3, <2>1
    <2>3. QED
      BY <2>1, <2>2
  <1>5. QED
    BY <1>4

\* The walk that goes on from a cluster of a chain is that of the chain.
LEMMA NthFrom ==
  ASSUME NEW table, NEW c, NEW i \in Nat
  PROVE  \A j \in Nat : Nth(table, Nth(table, c, i), j) = Nth(table, c, i + j)
  <1> DEFINE S == {k \in Nat : Nth(table, Nth(table, c, i), k) = Nth(table, c, i + k)}
  <1>1. 0 \in S
    <2>1. i + 0 = i
      OBVIOUS
    <2>2. QED
      BY <2>1, NthSteps
  <1>2. ASSUME NEW k \in Nat, k \in S PROVE k + 1 \in S
    <2>1. (i + k) + 1 = i + (k + 1) /\ i + k \in Nat /\ k + 1 \in Nat
      OBVIOUS
    <2>2. Nth(table, Nth(table, c, i), k) = Nth(table, c, i + k)
      BY <1>2
    <2>3. Nth(table, c, (i + k) + 1) =
            IF Nth(table, c, i + k) = Eoc THEN Eoc ELSE table[Nth(table, c, i + k)]
      BY <2>1, NthSteps, ZenonT(60)
    <2>4. Nth(table, Nth(table, c, i), k + 1) =
            IF Nth(table, c, i + k) = Eoc THEN Eoc ELSE table[Nth(table, c, i + k)]
      <3>1. PICK d : d = Nth(table, c, i)
        OBVIOUS
      <3>2. Nth(table, d, k + 1) =
              IF Nth(table, d, k) = Eoc THEN Eoc ELSE table[Nth(table, d, k)]
        BY NthSteps
      <3>3. QED
        BY <2>2, <3>1, <3>2
    <2>5. QED
      BY <2>1, <2>3, <2>4
  <1>3. \A k \in Nat : k \in S
    <2> HIDE DEF S
    <2> QED BY <1>1, <1>2, AllNumbers
  <1>4. QED
    BY <1>3

\* Two tables that agree on the clusters of a chain before one have the same
\* chain up to it.
Agree(t, u, c, j) ==
    \A i \in Nat : i < j /\ Nth(t, c, i) # Eoc => u[Nth(t, c, i)] = t[Nth(t, c, i)]

LEMMA NthSame ==
  ASSUME NEW t, NEW u, NEW c, NEW j \in Nat, Agree(t, u, c, j)
  PROVE  \A i \in 0 .. j : Nth(u, c, i) = Nth(t, c, i)
  <1> DEFINE S == {i \in Nat : i <= j => Nth(u, c, i) = Nth(t, c, i)}
  <1>1. 0 \in S
    BY NthSteps
  <1>2. ASSUME NEW i \in Nat, i \in S PROVE i + 1 \in S
    <2> SUFFICES ASSUME i + 1 <= j PROVE Nth(u, c, i + 1) = Nth(t, c, i + 1)
      OBVIOUS
    <2>1. i < j /\ Nth(u, c, i) = Nth(t, c, i)
      BY <1>2
    <2>2. /\ Nth(t, c, i + 1) = IF Nth(t, c, i) = Eoc THEN Eoc ELSE t[Nth(t, c, i)]
          /\ Nth(u, c, i + 1) = IF Nth(u, c, i) = Eoc THEN Eoc ELSE u[Nth(u, c, i)]
      BY NthSteps, ZenonT(60)
    <2>3. QED
      BY <2>1, <2>2 DEF Agree
  <1>3. \A i \in Nat : i \in S
    <2> HIDE DEF S
    <2> QED BY <1>1, <1>2, AllNumbers
  <1>4. QED
    BY <1>3

-----------------------------------------------------------------------------
\* Quotients and remainders by the size of a block.
LEMMA Divided ==
  ASSUME NEW n \in Nat
  PROVE  /\ n \div BlockSize \in Nat /\ n % BlockSize \in 0 .. BlockSize - 1
         /\ n = BlockSize * (n \div BlockSize) + (n % BlockSize)
         /\ n \div BlockSize <= n
  <1>1. PICK b \in Nat : b = BlockSize /\ b > 0
    BY FileAssumption
  <1>2. /\ n \div b \in Nat /\ n % b \in 0 .. b - 1
        /\ n = b * (n \div b) + (n % b)
    BY <1>1
  <1>3. n \div b <= n
    BY <1>1
  <1>4. QED
    BY <1>1, <1>2, <1>3

LEMMA DividedAt ==
  ASSUME NEW q \in Nat, NEW r \in 0 .. BlockSize - 1
  PROVE  /\ (BlockSize * q + r) \div BlockSize = q
         /\ (BlockSize * q + r) % BlockSize = r
         /\ BlockSize * q + r \in Nat
  <1>1. PICK b \in Nat : b = BlockSize /\ b > 0
    BY FileAssumption
  <1>2. PICK n : n = b * q + r
    OBVIOUS
  <1>3. b * q \in Nat /\ n \in Nat
    BY <1>1, <1>2
  <1>4. PICK p \in Nat, s \in 0 .. b - 1 : p = n \div b /\ s = n % b /\ n = b * p + s
    BY <1>1, <1>2, <1>3
  <1>5. p = q
    <2>1. ASSUME p < q PROVE FALSE
      <3>1. PICK d \in Nat : q = p + 1 + d
        BY <2>1
      <3>2. b * q = b * p + b + b * d /\ b * d \in Nat /\ b * p \in Nat
        BY <1>1, <3>1
      <3>3. QED
        BY <1>1, <1>2, <1>3, <1>4, <3>2
    <2>2. ASSUME q < p PROVE FALSE
      <3>1. PICK d \in Nat : p = q + 1 + d
        BY <2>2
      <3>2. b * p = b * q + b + b * d /\ b * d \in Nat
        BY <1>1, <3>1
      <3>3. QED
        BY <1>1, <1>2, <1>3, <1>4, <3>2
    <2>3. QED
      BY <1>4, <2>1, <2>2
  <1>6. s = r
    BY <1>1, <1>2, <1>3, <1>4, <1>5
  <1>7. QED
    BY <1>1, <1>2, <1>3, <1>4, <1>5, <1>6

LEMMA DivMonotone ==
  ASSUME NEW m \in Nat, NEW n \in Nat, m <= n
  PROVE  m \div BlockSize <= n \div BlockSize
  <1>1. PICK b \in Nat : b = BlockSize /\ b > 0
    BY FileAssumption
  <1>2. PICK p \in Nat, s \in 0 .. b - 1 : p = m \div b /\ m = b * p + s
    BY <1>1, Divided
  <1>3. PICK q \in Nat, r \in 0 .. b - 1 : q = n \div b /\ n = b * q + r
    BY <1>1, Divided
  <1>4. ASSUME q < p PROVE FALSE
    <2>1. PICK d \in Nat : p = q + 1 + d
      BY <1>4
    <2>2. b * p = b * q + b + b * d /\ b * d \in Nat /\ b * q \in Nat
      BY <1>1, <2>1
    <2>3. QED
      BY <1>1, <1>2, <1>3, <2>2
  <1>5. QED
    BY <1>1, <1>2, <1>3, <1>4

\* The blocks of a size: none, or as many as the place of its last byte says.
LEMMA BlocksAre ==
  /\ Blocks(0) = 0
  /\ \A n \in Nat \ {0} : Blocks(n) = ((n - 1) \div BlockSize) + 1
  /\ \A n \in Nat : Blocks(n) \in Nat /\ Blocks(n) <= n /\ (Blocks(n) = 0 <=> n = 0)
  <1>1. PICK b \in Nat : b = BlockSize /\ b > 0
    BY FileAssumption
  <1>2. (b - 1) \div b = 0
    <2>1. b - 1 = b * 0 + (b - 1) /\ b - 1 \in 0 .. b - 1 /\ 0 \in Nat
      BY <1>1
    <2>2. (b * 0 + (b - 1)) \div b = 0
      BY <1>1, <2>1, DividedAt
    <2>3. QED
      BY <2>1, <2>2
  <1>3. Blocks(0) = 0
    BY <1>1, <1>2 DEF Blocks
  <1>4. ASSUME NEW n \in Nat \ {0} PROVE Blocks(n) = ((n - 1) \div BlockSize) + 1
    <2>1. n - 1 \in Nat
      OBVIOUS
    <2>2. PICK q \in Nat, r \in 0 .. b - 1 : q = (n - 1) \div b /\ n - 1 = b * q + r
      BY <1>1, <2>1, Divided
    <2>3. b * q \in Nat /\ b * (q + 1) = b * q + b
      BY <1>1
    <2>4. n + b - 1 = b * (q + 1) + r /\ q + 1 \in Nat
      BY <1>1, <2>2, <2>3
    <2>5. (b * (q + 1) + r) \div b = q + 1
      BY <1>1, <2>4, DividedAt
    <2>6. QED
      BY <1>1, <2>2, <2>4, <2>5 DEF Blocks
  <1>5. ASSUME NEW n \in Nat
        PROVE  Blocks(n) \in Nat /\ Blocks(n) <= n /\ (Blocks(n) = 0 <=> n = 0)
    <2>1. CASE n = 0
      BY <1>3, <2>1
    <2>2. CASE n # 0
      <3>1. n - 1 \in Nat /\ n \in Nat \ {0}
        BY <2>2
      <3>2. PICK q \in Nat : q = (n - 1) \div BlockSize /\ q <= n - 1
        BY <3>1, Divided
      <3>3. Blocks(n) = q + 1
        BY <1>4, <3>1, <3>2
      <3>4. QED
        BY <2>2, <3>2, <3>3
    <2>3. QED
      BY <2>1, <2>2
  <1>6. QED
    BY <1>3, <1>4, <1>5

\* A byte of a size is in one of its blocks.
LEMMA InBlocks ==
  ASSUME NEW n \in Nat, NEW i \in Nat, i < n
  PROVE  i \div BlockSize \in 0 .. Blocks(n) - 1
  <1>1. n \in Nat \ {0} /\ n - 1 \in Nat /\ i <= n - 1
    OBVIOUS
  <1>2. i \div BlockSize <= (n - 1) \div BlockSize
    BY <1>1, DivMonotone
  <1>3. i \div BlockSize \in Nat /\ (n - 1) \div BlockSize \in Nat
    BY <1>1, Divided
  <1>4. Blocks(n) = ((n - 1) \div BlockSize) + 1
    BY <1>1, BlocksAre
  <1>5. QED
    BY <1>2, <1>3, <1>4

LEMMA BlocksMonotone ==
  ASSUME NEW m \in Nat, NEW n \in Nat, m <= n
  PROVE  Blocks(m) <= Blocks(n)
  <1>1. CASE m = 0
    BY <1>1, BlocksAre
  <1>2. CASE m # 0
    <2>1. m - 1 \in Nat /\ m - 1 < n
      BY <1>2
    <2>2. (m - 1) \div BlockSize \in 0 .. Blocks(n) - 1
      BY <2>1, InBlocks
    <2>3. Blocks(m) = ((m - 1) \div BlockSize) + 1 /\ Blocks(n) \in Nat
      BY <1>2, BlocksAre
    <2>4. QED
      BY <2>2, <2>3
  <1>3. QED
    BY <1>1, <1>2

\* A number is told by its quotient and its remainder.
LEMMA PlaceOf ==
  ASSUME NEW i \in Nat, NEW n \in Nat, i \div BlockSize = n \div BlockSize
  PROVE  i % BlockSize = (n % BlockSize) + (i - n)
  <1>1. PICK b \in Nat : b = BlockSize /\ b > 0
    BY FileAssumption
  <1>2. PICK q \in Nat, r \in 0 .. b - 1, s \in 0 .. b - 1 :
             /\ q = n \div b /\ r = n % b /\ n = b * q + r /\ s = i % b /\ i = b * q + s
    BY <1>1, Divided
  <1>3. b * q \in Nat
    BY <1>1
  <1>4. QED
    BY <1>1, <1>2, <1>3

\* A write inside a block: the blocks of what it ends at, the places of its
\* bytes, and the block that SeekBlock counts to.
LEMMA InOneBlock ==
  ASSUME NEW offset \in Nat, NEW n \in 1 .. BlockSize, (offset % BlockSize) + n <= BlockSize
  PROVE  /\ Blocks(offset + n) = (offset \div BlockSize) + 1
         /\ Blocks(n) = 1
         /\ \A i \in offset .. offset + n - 1 : i \div BlockSize = offset \div BlockSize
         /\ offset % BlockSize # 0 => Blocks(offset) = (offset \div BlockSize) + 1
         /\ offset % BlockSize = 0 => Blocks(offset) = offset \div BlockSize
  <1>1. PICK b \in Nat : b = BlockSize /\ b > 0
    BY FileAssumption
  <1>2. PICK q \in Nat, r \in 0 .. b - 1 : q = offset \div b /\ r = offset % b /\ offset = b * q + r
    BY <1>1, Divided
  <1>3. b * q \in Nat
    BY <1>1
  <1>4. ASSUME NEW i \in offset .. offset + n - 1
        PROVE  i \div BlockSize = offset \div BlockSize
    <2>1. PICK s \in 0 .. b - 1 : i = b * q + s
      <3>1. i - b * q \in 0 .. b - 1 /\ i = b * q + (i - b * q)
        BY <1>1, <1>2, <1>3
      <3>2. QED
        BY <3>1
    <2>2. QED
      BY <1>1, <1>2, <2>1, DividedAt
  <1>5. Blocks(offset + n) = q + 1
    <2>1. offset + n \in Nat \ {0} /\ (offset + n) - 1 \in offset .. offset + n - 1
      BY <1>1
    <2>2. Blocks(offset + n) = (((offset + n) - 1) \div BlockSize) + 1
      BY <2>1, BlocksAre
    <2>3. QED
      BY <1>1, <1>2, <1>4, <2>1, <2>2
  <1>6. Blocks(n) = 1
    <2>1. n \in Nat \ {0} /\ n - 1 \in 0 .. b - 1 /\ n - 1 = b * 0 + (n - 1) /\ 0 \in Nat
      BY <1>1
    <2>2. (b * 0 + (n - 1)) \div b = 0
      BY <1>1, <2>1, DividedAt
    <2>3. Blocks(n) = ((n - 1) \div BlockSize) + 1
      BY <2>1, BlocksAre
    <2>4. QED
      BY <1>1, <2>1, <2>2, <2>3
  <1>7. ASSUME r # 0 PROVE Blocks(offset) = q + 1
    <2>1. offset \in Nat \ {0} /\ r - 1 \in 0 .. b - 1 /\ offset - 1 = b * q + (r - 1)
      BY <1>2, <1>3, <1>7
    <2>2. (b * q + (r - 1)) \div b = q
      BY <1>1, <2>1, DividedAt
    <2>3. Blocks(offset) = ((offset - 1) \div BlockSize) + 1
      BY <2>1, BlocksAre
    <2>4. QED
      BY <1>1, <2>1, <2>2, <2>3
  <1>8. ASSUME r = 0 PROVE Blocks(offset) = q
    <2>1. CASE q = 0
      <3>1. offset = 0
        BY <1>1, <1>2, <1>8, <2>1
      <3>2. QED
        BY <2>1, <3>1, BlocksAre
    <2>2. CASE q # 0
      <3>1. PICK p \in Nat : q = p + 1
        BY <2>2
      <3>2. b * q = b * p + b /\ b * p \in Nat
        BY <1>1, <3>1
      <3>3. offset \in Nat \ {0} /\ b - 1 \in 0 .. b - 1 /\ offset - 1 = b * p + (b - 1)
        BY <1>1, <1>2, <1>8, <3>2
      <3>4. (b * p + (b - 1)) \div b = p
        BY <1>1, <3>3, DividedAt
      <3>5. Blocks(offset) = ((offset - 1) \div BlockSize) + 1
        BY <3>3, BlocksAre
      <3>6. QED
        BY <1>1, <3>1, <3>3, <3>4, <3>5
    <2>3. QED
      BY <2>1, <2>2
  <1>9. QED
    BY <1>1, <1>2, <1>4, <1>5, <1>6, <1>7, <1>8

-----------------------------------------------------------------------------
\* The table as extensions and cuts leave it: the entry of the next free
\* cluster is marked, no entry leads to a cluster that was never taken, and
\* that of a cluster leads to a later one (allocateNewCluster takes the next
\* free cluster, and never one that was freed).
Linked(table, free) ==
    /\ table[free] = Eoc
    /\ \A c \in Cluster : table[c] \in {0, Eoc} \/ table[c] \in First .. free - 1
    /\ \A c \in DataCluster : table[c] \in {0, Eoc} \/ c < table[c]

\* A chain stays among the clusters that were taken.
LEMMA WalkRange ==
  ASSUME NEW table, TableOK(table), NEW free \in DataCluster, Linked(table, free),
         NEW c \in First .. free - 1 \cup {0, Eoc}
  PROVE  \A n \in Nat : Nth(table, c, n) \in First .. free - 1 \cup {0, Eoc}
  <1> DEFINE S == {n \in Nat : Nth(table, c, n) \in First .. free - 1 \cup {0, Eoc}}
  <1>1. 0 \in S
    BY NthSteps
  <1>2. ASSUME NEW n \in Nat, n \in S PROVE n + 1 \in S
    <2>1. Nth(table, c, n) \in First .. free - 1 \cup {0, Eoc} /\ n + 1 \in Nat
      BY <1>2
    <2>2. Nth(table, c, n + 1) = IF Nth(table, c, n) = Eoc THEN Eoc ELSE table[Nth(table, c, n)]
      BY NthSteps
    <2>3. CASE Nth(table, c, n) = Eoc
      BY <2>1, <2>2, <2>3
    <2>4. CASE Nth(table, c, n) # Eoc
      <3>1. Nth(table, c, n) \in Cluster
        BY <2>1, <2>4, FileAssumption DEF Cluster, DataCluster, First
      <3>2. QED
        BY <2>1, <2>2, <2>4, <3>1 DEF Linked
    <2>5. QED
      BY <2>3, <2>4
  <1>3. \A n \in Nat : n \in S
    <2> HIDE DEF S
    <2> QED BY <1>1, <1>2, AllNumbers
  <1>4. QED
    BY <1>3

\* The clusters of a chain come in their order.
LEMMA WalkGrows ==
  ASSUME NEW table, NEW free \in DataCluster, Linked(table, free), NEW c, NEW m \in Nat,
         \A i \in 0 .. m : Nth(table, c, i) \in DataCluster
  PROVE  \A i \in 0 .. m, j \in 0 .. m : i < j => Nth(table, c, i) < Nth(table, c, j)
  <1> SUFFICES ASSUME NEW i \in 0 .. m
               PROVE  \A j \in 0 .. m : i < j => Nth(table, c, i) < Nth(table, c, j)
    OBVIOUS
  <1> DEFINE S == {k \in Nat : i + k + 1 <= m => Nth(table, c, i) < Nth(table, c, i + k + 1)}
  <1>1. ASSUME NEW k \in 0 .. m, k + 1 <= m
        PROVE  Nth(table, c, k) < Nth(table, c, k + 1)
    <2>1. /\ Nth(table, c, k) \in DataCluster /\ Nth(table, c, k + 1) \in DataCluster
          /\ k \in Nat
      BY <1>1
    <2>2. Nth(table, c, k + 1) = IF Nth(table, c, k) = Eoc THEN Eoc ELSE table[Nth(table, c, k)]
      BY <2>1, NthSteps
    <2>3. Nth(table, c, k) # Eoc /\ Nth(table, c, k + 1) \notin {0, Eoc}
      BY <2>1, FileAssumption DEF DataCluster
    <2>4. QED
      BY <2>1, <2>2, <2>3 DEF Linked
  <1>2. 0 \in S
    BY <1>1
  <1>3. ASSUME NEW k \in Nat, k \in S PROVE k + 1 \in S
    <2> SUFFICES ASSUME i + (k + 1) + 1 <= m
                 PROVE  Nth(table, c, i) < Nth(table, c, i + (k + 1) + 1)
      OBVIOUS
    <2>1. /\ i + k + 1 \in 0 .. m /\ (i + k + 1) + 1 <= m
          /\ i + (k + 1) + 1 = (i + k + 1) + 1
      OBVIOUS
    <2>2. Nth(table, c, i + k + 1) < Nth(table, c, (i + k + 1) + 1)
      BY <1>1, <2>1
    <2>3. Nth(table, c, i) < Nth(table, c, i + k + 1)
      BY <1>3, <2>1
    <2>4. \A k2 \in 0 .. m : Nth(table, c, k2) \in Int
      BY DEF DataCluster
    <2>5. PICK x \in Int, y \in Int, z \in Int :
               /\ x = Nth(table, c, i) /\ y = Nth(table, c, i + k + 1)
               /\ z = Nth(table, c, (i + k + 1) + 1)
      BY <2>1, <2>4
    <2>6. QED
      BY <2>1, <2>2, <2>3, <2>5
  <1>4. \A k \in Nat : k \in S
    <2> HIDE DEF S
    <2> QED BY <1>2, <1>3, AllNumbers
  <1>5. ASSUME NEW j \in 0 .. m, i < j PROVE Nth(table, c, i) < Nth(table, c, j)
    <2>1. j - i - 1 \in Nat /\ i + (j - i - 1) + 1 = j
      BY <1>5
    <2>2. j - i - 1 \in S
      BY <1>4, <2>1
    <2>3. QED
      BY <2>1, <2>2
  <1>6. QED
    BY <1>5

-----------------------------------------------------------------------------
\* findEOC returns the cluster that a chain which has an end is at then.
LEMMA FindEocEnds ==
  ASSUME NEW table, TableOK(table), NEW c \in 0 .. Eoc, Ends(table, c) # {}
  PROVE  /\ FindEoc(table, c) \in Cluster
         /\ table[FindEoc(table, c)] = Eoc
         /\ \E j \in Nat : Nth(table, c, j) = FindEoc(table, c)
  <1>1. PICK j : j = Min(Ends(table, c))
    OBVIOUS
  <1>2. Ends(table, c) \subseteq Nat
    BY FileAssumption DEF Ends
  <1>3. j \in Ends(table, c)
    BY <1>1, <1>2, NatMin
  <1>4. j \in Nat /\ Nth(table, c, j) # Eoc /\ Nth(table, c, j + 1) = Eoc
    BY <1>2, <1>3 DEF Ends
  <1>5. FindEoc(table, c) = Nth(table, c, j)
    BY <1>1 DEF FindEoc
  <1>6. Nth(table, c, j) \in Cluster
    <2>1. Nth(table, c, j) \in 0 .. Eoc
      BY <1>4, NthType
    <2>2. QED
      BY <1>4, <2>1, FileAssumption DEF Cluster
  <1>7. table[Nth(table, c, j)] = Eoc
    BY <1>4, NthSteps
  <1>8. QED
    BY <1>4, <1>5, <1>6, <1>7

\* A chain that is at its end after some clusters is one findEOC takes.
LEMMA EndsAtOnce ==
  ASSUME NEW table, NEW c, c # Eoc, table[c] = Eoc
  PROVE  Ends(table, c) # {} /\ FindEoc(table, c) = c
  <1>1. Nth(table, c, 0) = c /\ Nth(table, c, 0 + 1) = Eoc
    <2>1. Nth(table, c, 0) = c
      BY NthSteps
    <2>2. Nth(table, c, 0 + 1) = IF Nth(table, c, 0) = Eoc THEN Eoc ELSE table[Nth(table, c, 0)]
      BY NthNext
    <2>3. QED
      BY <2>1, <2>2
  <1>2. 0 \in Ends(table, c) /\ Ends(table, c) \subseteq Nat
    BY <1>1, FileAssumption DEF Ends
  <1>3. Min(Ends(table, c)) = 0
    <2>1. Min(Ends(table, c)) <= 0 /\ Min(Ends(table, c)) \in Nat
      BY <1>2, NatMin
    <2>2. QED
      BY <2>1
  <1>4. QED
    BY <1>1, <1>2, <1>3 DEF FindEoc

\* assignCluster, in the table.
LEMMA AssignStep ==
  ASSUME NEW table, TableOK(table), NEW free \in DataCluster, free + 1 < Eoc,
         Linked(table, free),
         NEW u, TableOK(u),
         \A c \in Cluster : u[c] = IF c = free + 1 THEN Eoc ELSE table[c]
  PROVE  Linked(u, free + 1) /\ u[free] = Eoc /\ free + 1 \in DataCluster
  <1>1. free + 1 \in Cluster /\ free \in Cluster /\ free # free + 1 /\ free + 1 \in DataCluster
    BY FileAssumption DEF Cluster, DataCluster
  <1>2. u[free + 1] = Eoc /\ u[free] = Eoc
    BY <1>1 DEF Linked
  <1>3. \A c \in Cluster : u[c] \in {0, Eoc} \/ u[c] \in First .. free
    <2> SUFFICES ASSUME NEW c \in Cluster PROVE u[c] \in {0, Eoc} \/ u[c] \in First .. free
      OBVIOUS
    <2>1. table[c] \in {0, Eoc} \/ table[c] \in First .. free - 1
      BY DEF Linked
    <2>2. u[c] = IF c = free + 1 THEN Eoc ELSE table[c]
      OBVIOUS
    <2>3. QED
      BY <2>1, <2>2 DEF DataCluster
  <1>4. \A c \in DataCluster : u[c] \in {0, Eoc} \/ c < u[c]
    <2> SUFFICES ASSUME NEW c \in DataCluster PROVE u[c] \in {0, Eoc} \/ c < u[c]
      OBVIOUS
    <2>1. table[c] \in {0, Eoc} \/ c < table[c]
      BY DEF Linked
    <2>2. u[c] = IF c = free + 1 THEN Eoc ELSE table[c]
      BY FileAssumption DEF DataCluster, Cluster
    <2>3. QED
      BY <2>1, <2>2
  <1>5. free = (free + 1) - 1
    BY DEF DataCluster
  <1>6. QED
    BY <1>1, <1>2, <1>3, <1>4, <1>5 DEF Linked

\* allocateNewCluster, in the table: a chain that ends at e goes on to the new
\* cluster, and is as it was up to e.
LEMMA AllocateStep ==
  ASSUME NEW table, TableOK(table), NEW free \in DataCluster, free + 1 < Eoc,
         Linked(table, free),
         NEW e \in Cluster, e < free, table[e] = Eoc,
         NEW first \in First .. free - 1, NEW j \in Nat, Nth(table, first, j) = e,
         NEW u, TableOK(u),
         \A c \in Cluster : u[c] = IF c = e THEN free ELSE IF c = free + 1 THEN Eoc ELSE table[c]
  PROVE  /\ Linked(u, free + 1) /\ u[free] = Eoc
         /\ \A i \in 0 .. j : Nth(u, first, i) = Nth(table, first, i)
         /\ Nth(u, first, j + 1) = free
  <1>1. /\ free + 1 \in Cluster /\ free \in Cluster /\ free # free + 1 /\ e # free /\ e # free + 1
        /\ free \in Nat /\ e \in Nat /\ e # Eoc
    BY FileAssumption DEF Cluster, DataCluster
  <1>2. u[free + 1] = Eoc /\ u[free] = Eoc /\ u[e] = free
    BY <1>1 DEF Linked
  <1>3. Linked(u, free + 1)
    <2>1. \A c \in Cluster : u[c] \in {0, Eoc} \/ u[c] \in First .. (free + 1) - 1
      <3> SUFFICES ASSUME NEW c \in Cluster
                   PROVE  u[c] \in {0, Eoc} \/ u[c] \in First .. (free + 1) - 1
        OBVIOUS
      <3>1. table[c] \in {0, Eoc} \/ table[c] \in First .. free - 1
        BY DEF Linked
      <3>2. QED
        BY <3>1 DEF DataCluster, First
    <2>2. \A c \in DataCluster : u[c] \in {0, Eoc} \/ c < u[c]
      <3> SUFFICES ASSUME NEW c \in DataCluster PROVE u[c] \in {0, Eoc} \/ c < u[c]
        OBVIOUS
      <3>1. table[c] \in {0, Eoc} \/ c < table[c]
        BY DEF Linked
      <3>2. c \in Cluster
        BY FileAssumption DEF DataCluster, Cluster
      <3>3. QED
        BY <3>1, <3>2
    <2>3. QED
      BY <1>2, <2>1, <2>2 DEF Linked
  <1>4. \A i \in 0 .. j : Nth(u, first, i) = Nth(table, first, i)
    <2>1. ASSUME NEW i \in Nat, i < j, Nth(table, first, i) # Eoc
          PROVE  u[Nth(table, first, i)] = table[Nth(table, first, i)]
      <3>1. PICK c : c = Nth(table, first, i)
        OBVIOUS
      <3>2. c \in Cluster
        <4>1. first \in 0 .. Eoc
          BY FileAssumption DEF First, DataCluster
        <4>2. c \in 0 .. Eoc
          BY <3>1, <4>1, NthType
        <4>3. QED
          BY <2>1, <3>1, <4>2, FileAssumption DEF Cluster
      <3>3. c # free + 1
        <4>1. c \in First .. free - 1 \cup {0, Eoc}
          BY <3>1, WalkRange
        <4>2. QED
          BY <1>1, <2>1, <3>1, <4>1 DEF First
      <3>4. c # e
        <4> SUFFICES ASSUME c = e PROVE FALSE
          OBVIOUS
        <4>1. Nth(table, first, i + 1) = Eoc
          BY <2>1, <3>1, NthNext
        <4>2. i + 1 \in Nat /\ i + 1 <= j
          BY <2>1
        <4>3. Nth(table, first, j) = Eoc
          BY <4>1, <4>2, NthEnd
        <4>4. QED
          BY <1>1, <4>3
      <3>5. QED
        BY <3>1, <3>2, <3>3, <3>4
    <2>2. Agree(table, u, first, j)
      BY <2>1 DEF Agree
    <2>3. QED
      BY <2>2, NthSame
  <1>5. Nth(u, first, j + 1) = free
    <2>1. Nth(u, first, j) = e
      BY <1>4
    <2>2. QED
      BY <1>1, <1>2, <2>1, NthNext
  <1>6. QED
    BY <1>2, <1>3, <1>4, <1>5

-----------------------------------------------------------------------------
\* What an extension goes through: the table, the next free cluster, the FatFile.
Extension == [table : [Cluster -> 0 .. Eoc], free : Nat, file : FatFile]

\* A FatFile but for its EOC.
SameFile(f, g) ==
    /\ f.open = g.open /\ f.first = g.first /\ f.size = g.size
    /\ f.absRead = g.absRead /\ f.absWrite = g.absWrite /\ f.stale = g.stale
    /\ f.read = g.read /\ f.written = g.written

LEMMA AllocateType ==
  ASSUME NEW s \in Extension, s.free + 1 < Eoc
  PROVE  /\ Allocate(s) \in Extension
         /\ Allocate(s).free = s.free + 1 /\ Allocate(s).file.eoc = s.free
         /\ SameFile(Allocate(s).file, s.file)
         /\ \A c \in Cluster : Allocate(s).table[c] =
               IF c = s.file.eoc THEN s.free ELSE IF c = s.free + 1 THEN Eoc ELSE s.table[c]
  <1>1. PICK table, free, file : table = s.table /\ free = s.free /\ file = s.file
    OBVIOUS
  <1>2. /\ table \in [Cluster -> 0 .. Eoc] /\ free \in Nat /\ file \in FatFile
        /\ free \in Cluster /\ free + 1 \in Cluster /\ Eoc \in Nat
    BY <1>1, FileAssumption DEF Extension, Cluster
  <1>3. PICK v, u : v = [table EXCEPT ![free + 1] = Eoc] /\ u = [v EXCEPT ![file.eoc] = free]
    OBVIOUS
  <1>4. PICK g : g = [file EXCEPT !.eoc = free]
    OBVIOUS
  <1>5. u \in [Cluster -> 0 .. Eoc]
    <2>1. free \in 0 .. Eoc /\ Eoc \in 0 .. Eoc
      BY <1>2 DEF Cluster
    <2>2. v \in [Cluster -> 0 .. Eoc]
      BY <1>2, <1>3, <2>1
    <2>3. QED
      BY <1>3, <2>1, <2>2
  <1>6. \A c \in Cluster : u[c] = IF c = file.eoc THEN free ELSE IF c = free + 1 THEN Eoc
                                  ELSE table[c]
    BY <1>2, <1>3
  <1>7. g \in FatFile /\ g.eoc = free /\ SameFile(g, file)
    BY <1>2, <1>4 DEF FatFile, SameFile
  <1>8. s = [table |-> table, free |-> free, file |-> file]
    BY <1>1 DEF Extension
  <1>9. Allocate(s) = [table |-> u, free |-> free + 1, file |-> g]
    <2>1. /\ u = [s.table EXCEPT ![s.free + 1] = Eoc, ![s.file.eoc] = s.free]
          /\ g = [s.file EXCEPT !.eoc = s.free]
      BY <1>1, <1>3, <1>4
    <2>2. Allocate(s) = [s EXCEPT !.table = u, !.free = s.free + 1, !.file = g]
      BY <2>1 DEF Allocate
    <2>3. QED
      BY <1>1, <1>8, <2>2
  <1>10. QED
    BY <1>1, <1>2, <1>5, <1>6, <1>7, <1>9 DEF Extension

\* What Extend computes with: the clusters added, one after the other.
IsExtended(found, n, extended) ==
    extended = [i \in 0 .. n |-> IF i = 0 THEN found ELSE Allocate(extended[i - 1])]

LEMMA ExtendedExists ==
  ASSUME NEW found
  PROVE  \A n \in Nat : \E extended : IsExtended(found, n, extended)
  <1> DEFINE S == {n \in Nat : \E extended : IsExtended(found, n, extended)}
  <1>1. 0 \in S
    <2> DEFINE extended == [i \in 0 .. 0 |-> found]
    <2>1. \A i \in 0 .. 0 : i = 0
      OBVIOUS
    <2>2. IsExtended(found, 0, extended)
      BY <2>1 DEF IsExtended
    <2>3. QED
      BY <2>2
  <1>2. ASSUME NEW n \in Nat, n \in S PROVE n + 1 \in S
    <2>1. PICK at : IsExtended(found, n, at)
      BY <1>2
    <2> DEFINE to == [i \in 0 .. n + 1 |-> IF i = n + 1 THEN Allocate(at[n]) ELSE at[i]]
    <2>2. \A i \in 0 .. n : at[i] = IF i = 0 THEN found ELSE Allocate(at[i - 1])
      BY <2>1 DEF IsExtended
    <2>3. \A i \in 0 .. n + 1 : to[i] = IF i = 0 THEN found ELSE Allocate(to[i - 1])
      <3> SUFFICES ASSUME NEW i \in 0 .. n + 1
                   PROVE  to[i] = IF i = 0 THEN found ELSE Allocate(to[i - 1])
        OBVIOUS
      <3>1. CASE i = n + 1
        <4>1. i # 0 /\ i - 1 = n /\ n \in 0 .. n + 1 /\ n # n + 1
          BY <3>1
        <4>2. QED
          BY <3>1, <4>1
      <3>2. CASE i # n + 1 /\ i # 0
        <4>1. i \in 0 .. n /\ i - 1 \in 0 .. n + 1 /\ i - 1 # n + 1
          BY <3>2
        <4>2. QED
          BY <2>2, <3>2, <4>1
      <3>3. CASE i = 0
        <4>1. i \in 0 .. n /\ i # n + 1
          BY <3>3
        <4>2. QED
          BY <2>2, <3>3, <4>1
      <3>4. QED
        BY <3>1, <3>2, <3>3
    <2>4. to = [i \in 0 .. n + 1 |-> to[i]]
      OBVIOUS
    <2> HIDE DEF to
    <2>5. IsExtended(found, n + 1, to)
      BY <2>3, <2>4 DEF IsExtended
    <2>6. QED
      BY <2>5
  <1>3. \A n \in Nat : n \in S
    <2> HIDE DEF S
    <2> QED BY <1>1, <1>2, AllNumbers
  <1>4. QED
    BY <1>3

\* Each cluster added is the next free one, and the last is the EOC then.
LEMMA ExtendedType ==
  ASSUME NEW found \in Extension, NEW n \in Nat, found.free + n < Eoc,
         NEW extended, IsExtended(found, n, extended)
  PROVE  \A k \in 0 .. n :
            /\ extended[k] \in Extension
            /\ extended[k].free = found.free + k
            /\ SameFile(extended[k].file, found.file)
            /\ extended[k].file.eoc = IF k = 0 THEN found.file.eoc ELSE found.free + k - 1
  <1> DEFINE Right(k) ==
               /\ extended[k] \in Extension
               /\ extended[k].free = found.free + k
               /\ SameFile(extended[k].file, found.file)
               /\ extended[k].file.eoc = IF k = 0 THEN found.file.eoc ELSE found.free + k - 1
             S == {k \in Nat : k <= n => Right(k)}
  <1>1. /\ extended[0] = found
        /\ \A k \in Nat : k + 1 <= n => extended[k + 1] = Allocate(extended[k])
    BY DEF IsExtended
  <1>2. found.free \in Nat /\ Eoc \in Nat
    BY FileAssumption DEF Extension
  <1>3. 0 \in S
    BY <1>1, <1>2 DEF SameFile
  <1>4. ASSUME NEW k \in Nat, k \in S PROVE k + 1 \in S
    <2> SUFFICES ASSUME k + 1 <= n PROVE Right(k + 1)
      OBVIOUS
    <2>1. Right(k) /\ k <= n
      BY <1>4
    <2>2. PICK s : s = extended[k]
      OBVIOUS
    <2>3. /\ s \in Extension /\ s.free = found.free + k /\ s.free + 1 < Eoc
          /\ SameFile(s.file, found.file)
      BY <1>2, <2>1, <2>2
    <2>4. extended[k + 1] = Allocate(s)
      BY <1>1, <2>2
    <2>5. /\ Allocate(s) \in Extension /\ Allocate(s).free = s.free + 1
          /\ Allocate(s).file.eoc = s.free /\ SameFile(Allocate(s).file, s.file)
      BY <2>3, AllocateType
    <2>6. SameFile(Allocate(s).file, found.file)
      BY <2>3, <2>5 DEF SameFile
    <2>7. QED
      BY <1>2, <2>3, <2>4, <2>5, <2>6
  <1>5. \A k \in Nat : k \in S
    <2> HIDE DEF S
    <2> QED BY <1>3, <1>4, AllNumbers
  <1>6. QED
    BY <1>5

\* The clusters added go on from the end of the chain: what leads to that end is
\* as it was, and each cluster added is the next of the chain.
LEMMA ExtendedChain ==
  ASSUME NEW found \in Extension, NEW n \in Nat, found.free + n < Eoc,
         NEW extended, IsExtended(found, n, extended),
         found.free \in DataCluster, Linked(found.table, found.free),
         found.file.eoc < found.free, found.table[found.file.eoc] = Eoc,
         NEW first \in First .. found.free - 1, NEW j \in Nat,
         Nth(found.table, first, j) = found.file.eoc
  PROVE  \A k \in 0 .. n :
            LET s == extended[k]
            IN  /\ Linked(s.table, s.free) /\ s.table[s.file.eoc] = Eoc /\ s.file.eoc < s.free
                /\ Nth(s.table, first, j + k) = s.file.eoc
                /\ \A i \in 0 .. j : Nth(s.table, first, i) = Nth(found.table, first, i)
                /\ \A i \in 1 .. k : Nth(s.table, first, j + i) = found.free + i - 1
  <1> DEFINE Right(k) ==
               /\ Linked(extended[k].table, extended[k].free)
               /\ extended[k].table[extended[k].file.eoc] = Eoc
               /\ extended[k].file.eoc < extended[k].free
               /\ Nth(extended[k].table, first, j + k) = extended[k].file.eoc
               /\ \A i \in 0 .. j : Nth(extended[k].table, first, i) = Nth(found.table, first, i)
               /\ \A i \in 1 .. k : Nth(extended[k].table, first, j + i) = found.free + i - 1
             S == {k \in Nat : k <= n => Right(k)}
  <1>1. /\ extended[0] = found
        /\ \A k \in Nat : k + 1 <= n => extended[k + 1] = Allocate(extended[k])
    BY DEF IsExtended
  <1>2. found.free \in Nat /\ Eoc \in Nat /\ found.file.eoc \in Cluster
    BY FileAssumption DEF Extension, FatFile
  <1>3. 0 \in S
    <2>1. j + 0 = j
      OBVIOUS
    <2>2. Right(0)
      BY <1>1, <2>1
    <2>3. QED
      BY <2>2
  <1>4. ASSUME NEW k \in Nat, k \in S PROVE k + 1 \in S
    <2> SUFFICES ASSUME k + 1 <= n PROVE Right(k + 1)
      OBVIOUS
    <2>1. Right(k) /\ k \in 0 .. n /\ k + 1 \in Nat
      BY <1>4
    <2>2. PICK s : s = extended[k]
      OBVIOUS
    <2>3. s \in Extension /\ s.free = found.free + k
      BY <2>1, <2>2, ExtendedType
    <2>4. PICK t, free, e, u : /\ t = s.table /\ free = s.free /\ e = s.file.eoc
                               /\ u = Allocate(s).table
      OBVIOUS
    <2>5. /\ TableOK(t) /\ free \in DataCluster /\ free + 1 < Eoc /\ e \in Cluster
          /\ free = found.free + k /\ first \in First .. free - 1
      <3>1. t \in [Cluster -> 0 .. Eoc] /\ e \in Cluster /\ free = found.free + k
        BY <2>3, <2>4 DEF Extension, FatFile
      <3>2. free + 1 < Eoc /\ free \in DataCluster /\ first \in First .. free - 1
        BY <1>2, <3>1 DEF DataCluster, First
      <3>3. QED
        BY <3>1, <3>2 DEF TableOK
    <2>6. /\ Linked(t, free) /\ t[e] = Eoc /\ e < free /\ Nth(t, first, j + k) = e
          /\ \A i \in 0 .. j : Nth(t, first, i) = Nth(found.table, first, i)
          /\ \A i \in 1 .. k : Nth(t, first, j + i) = found.free + i - 1
      BY <2>1, <2>2, <2>4
    <2>7. /\ Allocate(s).free = free + 1 /\ Allocate(s).file.eoc = free /\ TableOK(u)
          /\ \A c \in Cluster : u[c] = IF c = e THEN free ELSE IF c = free + 1 THEN Eoc ELSE t[c]
      <3>1. s.free + 1 < Eoc
        BY <2>4, <2>5
      <3>2. /\ Allocate(s) \in Extension
            /\ Allocate(s).free = s.free + 1 /\ Allocate(s).file.eoc = s.free
            /\ \A c \in Cluster : Allocate(s).table[c] =
                 IF c = s.file.eoc THEN s.free ELSE IF c = s.free + 1 THEN Eoc ELSE s.table[c]
        BY <2>3, <3>1, AllocateType
      <3>3. u \in [Cluster -> 0 .. Eoc]
        BY <2>4, <3>2 DEF Extension
      <3>4. QED
        BY <2>4, <3>2, <3>3 DEF TableOK
    <2>8. PICK p \in Nat : p = j + k
      OBVIOUS
    <2>9. /\ Linked(u, free + 1) /\ u[free] = Eoc
          /\ \A i \in 0 .. p : Nth(u, first, i) = Nth(t, first, i)
          /\ Nth(u, first, p + 1) = free
      BY <2>5, <2>6, <2>7, <2>8, AllocateStep
    <2>10. \A i \in 0 .. j : Nth(u, first, i) = Nth(found.table, first, i)
      BY <2>6, <2>8, <2>9
    <2>11. ASSUME NEW i \in 1 .. k + 1 PROVE Nth(u, first, j + i) = found.free + i - 1
      <3>1. CASE i = k + 1
        <4>1. j + i = p + 1 /\ found.free + i - 1 = free
          BY <1>2, <2>5, <2>8, <3>1
        <4>2. QED
          BY <2>9, <4>1
      <3>2. CASE i # k + 1
        <4>1. i \in 1 .. k /\ j + i \in 0 .. p
          BY <2>8, <3>2
        <4>2. QED
          BY <2>6, <2>9, <4>1
      <3>3. QED
        BY <3>1, <3>2
    <2>12. j + (k + 1) = p + 1 /\ free < free + 1
      BY <2>5, <2>8 DEF DataCluster
    <2>13. extended[k + 1] = Allocate(s)
      BY <1>1, <2>2
    <2>14. QED
      BY <2>4, <2>7, <2>9, <2>10, <2>11, <2>12, <2>13
  <1>5. \A k \in Nat : k \in S
    <2> HIDE DEF S
    <2> QED BY <1>3, <1>4, AllNumbers
  <1>6. QED
    BY <1>5

-----------------------------------------------------------------------------
\* The parts of an extension: what it starts from, with the cluster that a file
\* which has none is assigned, and with its EOC; how many clusters are added.
Start(f) == IF f.first = 0 THEN Assign(Unextended(f)) ELSE Unextended(f)
Found(f) == IF f.eoc # 0 THEN Start(f)
            ELSE [Start(f) EXCEPT !.file.eoc = FindEoc(Start(f).table, Start(f).file.first)]
Extra(f, n) == Blocks(n) - (IF f.first = 0 THEN 1 ELSE 0)

LEMMA ExtendIs ==
  ASSUME NEW f, NEW n \in Nat \ {0}, NEW size
  PROVE  /\ Extra(f, n) \in Nat
         /\ \E extended : /\ IsExtended(Found(f), Extra(f, n), extended)
                          /\ Extend(f, n, size) = [extended[Extra(f, n)] EXCEPT !.file.size = size]
  <1>1. Extra(f, n) \in Nat
    <2>1. Blocks(n) \in Nat /\ Blocks(n) # 0
      BY BlocksAre
    <2>2. QED
      BY <2>1 DEF Extra
  <1> DEFINE at == CHOOSE at : IsExtended(Found(f), Extra(f, n), at)
  <1>2. IsExtended(Found(f), Extra(f, n), at)
    BY <1>1, ExtendedExists
  <1>3. Extend(f, n, size) = [at[Extra(f, n)] EXCEPT !.file.size = size]
    BY Zenon DEF Extend, IsExtended, Found, Start, Extra
  <1>4. QED
    BY <1>1, <1>2, <1>3

LEMMA StartType ==
  ASSUME TypeOK, NEW f \in FatFile, nextFree + 1 < Eoc
  PROVE  /\ Start(f) \in Extension
         /\ Start(f).free = IF f.first = 0 THEN nextFree + 1 ELSE nextFree
         /\ Start(f).file = IF f.first = 0 THEN [f EXCEPT !.first = nextFree] ELSE f
         /\ f.first # 0 => Start(f).table = next
         /\ f.first = 0 => \A c \in Cluster : Start(f).table[c] =
                              IF c = nextFree + 1 THEN Eoc ELSE next[c]
  <1>1. /\ next \in [Cluster -> 0 .. Eoc] /\ nextFree \in Nat /\ nextFree \in Cluster
        /\ nextFree + 1 \in Cluster /\ Eoc \in 0 .. Eoc
    BY FileAssumption DEF TypeOK, DataCluster, Cluster
  <1>2. Unextended(f) \in Extension
    BY <1>1 DEF Unextended, Extension
  <1>3. CASE f.first # 0
    BY <1>2, <1>3 DEF Start, Unextended
  <1>4. CASE f.first = 0
    <2>1. PICK u, g : u = [next EXCEPT ![nextFree + 1] = Eoc] /\ g = [f EXCEPT !.first = nextFree]
      OBVIOUS
    <2>2. Start(f) = [table |-> u, free |-> nextFree + 1, file |-> g]
      <3>1. Start(f) = [Unextended(f) EXCEPT !.table = u, !.free = nextFree + 1, !.file = g]
        BY <1>4, <2>1 DEF Start, Assign, Unextended
      <3>2. QED
        BY <3>1 DEF Unextended
    <2>3. u \in [Cluster -> 0 .. Eoc] /\ g \in FatFile
      BY <1>1, <2>1 DEF FatFile
    <2>4. \A c \in Cluster : u[c] = IF c = nextFree + 1 THEN Eoc ELSE next[c]
      BY <1>1, <2>1
    <2>5. QED
      BY <1>1, <1>4, <2>1, <2>2, <2>3, <2>4 DEF Extension
  <1>5. QED
    BY <1>3, <1>4

\* A file that is assigned its first cluster ends there.
LEMMA FoundType ==
  ASSUME TypeOK, next[nextFree] = Eoc, NEW f \in FatFile, nextFree + 1 < Eoc,
         f.first # 0 /\ f.eoc = 0 => Ends(next, f.first) # {}
  PROVE  /\ Found(f) \in Extension
         /\ Found(f).free = Start(f).free /\ Found(f).table = Start(f).table
         /\ SameFile(Found(f).file, Start(f).file)
         /\ Found(f).file.eoc = IF f.eoc # 0 THEN f.eoc ELSE IF f.first = 0 THEN nextFree
                                ELSE FindEoc(next, f.first)
  <1>1. PICK s : s = Start(f)
    OBVIOUS
  <1>2. /\ s \in Extension
        /\ s.file = IF f.first = 0 THEN [f EXCEPT !.first = nextFree] ELSE f
        /\ f.first # 0 => s.table = next
        /\ f.first = 0 => \A c \in Cluster : s.table[c] = IF c = nextFree + 1 THEN Eoc ELSE next[c]
    BY <1>1, StartType
  <1>3. s.file.eoc = f.eoc /\ s.file.first = IF f.first = 0 THEN nextFree ELSE f.first
    BY <1>2 DEF FatFile
  <1>4. CASE f.eoc # 0
    <2>1. Found(f) = s
      BY <1>1, <1>4 DEF Found
    <2>2. QED
      BY <1>1, <1>2, <1>3, <1>4, <2>1 DEF SameFile
  <1>5. CASE f.eoc = 0
    <2>1. PICK e : e = FindEoc(s.table, s.file.first)
      OBVIOUS
    <2>2. /\ e \in Cluster
          /\ e = IF f.first = 0 THEN nextFree ELSE FindEoc(next, f.first)
      <3>1. CASE f.first = 0
        <4>1. nextFree \in Cluster /\ nextFree # nextFree + 1 /\ nextFree # Eoc
          BY FileAssumption DEF TypeOK, DataCluster, Cluster
        <4>2. s.file.first = nextFree /\ s.table[nextFree] = Eoc
          BY <1>2, <1>3, <3>1, <4>1
        <4>3. FindEoc(s.table, nextFree) = nextFree
          BY <4>1, <4>2, EndsAtOnce
        <4>4. QED
          BY <2>1, <3>1, <4>1, <4>2, <4>3
      <3>2. CASE f.first # 0
        <4>1. TableOK(next) /\ f.first \in 0 .. Eoc /\ Ends(next, f.first) # {}
          BY <1>5, <3>2, FileAssumption DEF TypeOK, TableOK, FatFile, Cluster
        <4>2. FindEoc(next, f.first) \in Cluster
          BY <4>1, FindEocEnds
        <4>3. QED
          BY <1>2, <1>3, <2>1, <3>2, <4>2
      <3>3. QED
        BY <3>1, <3>2
    <2>3. PICK g : g = [s.file EXCEPT !.eoc = e]
      OBVIOUS
    <2>4. s.file \in FatFile
      BY <1>2 DEF Extension
    <2>5. g \in FatFile /\ g.eoc = e /\ SameFile(g, s.file)
      BY <2>2, <2>3, <2>4 DEF FatFile, SameFile
    <2>6. Found(f) = [s EXCEPT !.file = g]
      BY <1>1, <1>5, <2>1, <2>3 DEF Found
    <2>7. Found(f) \in Extension /\ Found(f).free = s.free /\ Found(f).table = s.table
          /\ Found(f).file = g
      BY <1>2, <2>5, <2>6 DEF Extension
    <2>8. QED
      BY <1>1, <1>5, <2>2, <2>5, <2>7
  <1>6. QED
    BY <1>4, <1>5

\* What an extension makes of the table, the next free cluster and the FatFile.
LEMMA ExtendType ==
  ASSUME TypeOK, next[nextFree] = Eoc, NEW f \in FatFile, NEW n \in Nat \ {0},
         CanExtend(f, n), NEW size
  PROVE  LET e == Extend(f, n, size)
         IN  /\ e.table \in [Cluster -> 0 .. Eoc]
             /\ e.free = nextFree + Blocks(n) /\ e.free \in DataCluster
             /\ (size \in 0 .. MaxSize => e.file \in FatFile) /\ e.file.size = size
             /\ e.file.first = IF f.first = 0 THEN nextFree ELSE f.first
             /\ e.file.open = f.open /\ e.file.stale = f.stale
             /\ e.file.absRead = f.absRead /\ e.file.read = f.read
             /\ e.file.absWrite = f.absWrite /\ e.file.written = f.written
  <1>1. PICK m, extended : /\ m = Extra(f, n) /\ IsExtended(Found(f), m, extended)
                           /\ Extend(f, n, size) = [extended[m] EXCEPT !.file.size = size]
    BY ExtendIs
  <1>2. m \in Nat /\ Blocks(n) \in Nat /\ Blocks(n) # 0 /\ m = Blocks(n) - (IF f.first = 0 THEN 1 ELSE 0)
    BY <1>1, ExtendIs, BlocksAre DEF Extra
  <1>3. /\ nextFree + Blocks(n) < Eoc /\ nextFree \in Nat /\ nextFree \in DataCluster
        /\ f.first # 0 /\ f.eoc = 0 => Ends(next, f.first) # {}
    BY FileAssumption DEF CanExtend, TypeOK, DataCluster
  <1>4. nextFree + 1 < Eoc
    BY <1>2, <1>3, FileAssumption
  <1>5. /\ Found(f) \in Extension /\ Found(f).free = Start(f).free
        /\ SameFile(Found(f).file, Start(f).file)
    BY <1>3, <1>4, FoundType
  <1>6. /\ Start(f).free = IF f.first = 0 THEN nextFree + 1 ELSE nextFree
        /\ Start(f).file = IF f.first = 0 THEN [f EXCEPT !.first = nextFree] ELSE f
    BY <1>4, StartType
  <1>7. Found(f).free + m = nextFree + Blocks(n) /\ Found(f).free + m < Eoc
    BY <1>2, <1>3, <1>5, <1>6
  <1>8. PICK s : s = extended[m]
    OBVIOUS
  <1>9. /\ s \in Extension /\ s.free = nextFree + Blocks(n)
        /\ SameFile(s.file, Found(f).file)
    <2>1. m \in 0 .. m
      BY <1>2
    <2>2. s \in Extension /\ s.free = Found(f).free + m /\ SameFile(s.file, Found(f).file)
      BY <1>1, <1>2, <1>5, <1>7, <1>8, <2>1, ExtendedType
    <2>3. QED
      BY <1>7, <2>2
  <1>10. PICK g : g = [s.file EXCEPT !.size = size]
    OBVIOUS
  <1>11. SameFile(s.file, Start(f).file)
    BY <1>5, <1>9 DEF SameFile
  <1>12. /\ Start(f).file.first = IF f.first = 0 THEN nextFree ELSE f.first
         /\ Start(f).file.open = f.open /\ Start(f).file.stale = f.stale
         /\ Start(f).file.absRead = f.absRead /\ Start(f).file.read = f.read
         /\ Start(f).file.absWrite = f.absWrite /\ Start(f).file.written = f.written
    BY <1>6 DEF FatFile
  <1>13. s.file \in FatFile /\ s.table \in [Cluster -> 0 .. Eoc]
    BY <1>9 DEF Extension
  <1>14. /\ (size \in 0 .. MaxSize => g \in FatFile) /\ g.size = size /\ g.first = s.file.first
         /\ g.open = s.file.open /\ g.stale = s.file.stale
         /\ g.absRead = s.file.absRead /\ g.read = s.file.read
         /\ g.absWrite = s.file.absWrite /\ g.written = s.file.written
    BY <1>10, <1>13 DEF FatFile
  <1>15. Extend(f, n, size) = [s EXCEPT !.file = g]
    BY <1>1, <1>8, <1>10
  <1>16. /\ Extend(f, n, size).table = s.table /\ Extend(f, n, size).free = s.free
         /\ Extend(f, n, size).file = g
    BY <1>9, <1>15 DEF Extension
  <1>17. nextFree + Blocks(n) \in DataCluster
    BY <1>2, <1>3, FileAssumption DEF DataCluster
  <1>18. QED
    BY <1>9, <1>11, <1>12, <1>13, <1>14, <1>16, <1>17 DEF SameFile

\* The chain of a file that is extended: it is as it was up to its last cluster,
\* and goes on with the clusters added.
LEMMA ExtendChain ==
  ASSUME TypeOK, Linked(next, nextFree), NEW f \in FatFile, NEW n \in Nat \ {0},
         CanExtend(f, n), NEW size \in 0 .. MaxSize,
         f.first \in First .. nextFree - 1,
         f.eoc # 0 => /\ next[f.eoc] = Eoc /\ f.eoc < nextFree
                      /\ \E j \in Nat : Nth(next, f.first, j) = f.eoc
  PROVE  LET e == Extend(f, n, size)
         IN  /\ Linked(e.table, e.free) /\ e.table[e.file.eoc] = Eoc
             /\ e.file.eoc \in First .. e.free - 1
             /\ \E j \in Nat :
                   /\ Nth(next, f.first, j) # Eoc /\ Nth(next, f.first, j + 1) = Eoc
                   /\ Nth(e.table, f.first, j + Blocks(n)) = e.file.eoc
                   /\ \A i \in 0 .. j : Nth(e.table, f.first, i) = Nth(next, f.first, i)
                   /\ \A i \in 1 .. Blocks(n) : Nth(e.table, f.first, j + i) = nextFree + i - 1
  <1>1. PICK m, extended : /\ m = Extra(f, n) /\ IsExtended(Found(f), m, extended)
                           /\ Extend(f, n, size) = [extended[m] EXCEPT !.file.size = size]
    <2>1. \E at : /\ IsExtended(Found(f), Extra(f, n), at)
                  /\ Extend(f, n, size) = [at[Extra(f, n)] EXCEPT !.file.size = size]
      BY ExtendIs
    <2>2. QED
      BY <2>1, Zenon
  <1>2. /\ f.first # 0 /\ TableOK(next) /\ f.first \in 0 .. Eoc /\ nextFree \in Nat
        /\ nextFree \in DataCluster /\ next[nextFree] = Eoc /\ Eoc \in Nat
    BY FileAssumption DEF TypeOK, TableOK, DataCluster, First, Linked
  <1>3. m = Blocks(n) /\ m \in Nat /\ m # 0
    BY <1>1, <1>2, BlocksAre DEF Extra
  <1>4. nextFree + m < Eoc /\ nextFree + 1 < Eoc /\ (f.eoc = 0 => Ends(next, f.first) # {})
    BY <1>2, <1>3 DEF CanExtend
  <1>5. PICK s : s = Found(f) /\ IsExtended(s, m, extended)
    BY <1>1
  <1>6. /\ s \in Extension /\ s.free = nextFree /\ s.table = next
        /\ s.file.eoc = IF f.eoc # 0 THEN f.eoc ELSE FindEoc(next, f.first)
    BY <1>2, <1>4, <1>5, FoundType, StartType, ZenonT(60)
  <1>7. PICK j \in Nat : Nth(next, f.first, j) = s.file.eoc
    <2>1. CASE f.eoc # 0
      BY <1>6, <2>1
    <2>2. CASE f.eoc = 0
      BY <1>2, <1>4, <1>6, <2>2, FindEocEnds
    <2>3. QED
      BY <2>1, <2>2
  <1>8. next[s.file.eoc] = Eoc /\ s.file.eoc \in Cluster
    <2>1. CASE f.eoc # 0
      BY <1>6, <2>1 DEF FatFile
    <2>2. CASE f.eoc = 0
      BY <1>2, <1>4, <1>6, <2>2, FindEocEnds
    <2>3. QED
      BY <2>1, <2>2
  <1>9. s.file.eoc < nextFree
    <2>1. CASE f.eoc # 0
      BY <1>6, <2>1
    <2>2. CASE f.eoc = 0
      <3>1. s.file.eoc \in First .. nextFree - 1 \cup {0, Eoc}
        BY <1>2, <1>7, WalkRange
      <3>2. QED
        BY <1>2, <1>8, <3>1 DEF Cluster, First, DataCluster
    <2>3. QED
      BY <2>1, <2>2
  <1>10. Nth(next, f.first, j) # Eoc /\ Nth(next, f.first, j + 1) = Eoc
    <2>1. Nth(next, f.first, j) # Eoc
      BY <1>2, <1>7, <1>8 DEF Cluster
    <2>2. QED
      BY <1>7, <1>8, <2>1, NthNext
  <1>11. PICK e : e = extended[m]
    OBVIOUS
  <1>12. m \in 0 .. m /\ m \in 1 .. m
    BY <1>3
  <1>13. /\ Linked(e.table, e.free) /\ e.table[e.file.eoc] = Eoc
         /\ Nth(e.table, f.first, j + m) = e.file.eoc
         /\ \A i \in 0 .. j : Nth(e.table, f.first, i) = Nth(next, f.first, i)
         /\ \A i \in 1 .. m : Nth(e.table, f.first, j + i) = nextFree + i - 1
    BY <1>1, <1>2, <1>3, <1>4, <1>5, <1>6, <1>7, <1>8, <1>9, <1>11, <1>12, ExtendedChain
  <1>14. /\ e \in Extension /\ e.free = nextFree + m
         /\ e.file.eoc = nextFree + m - 1
    BY <1>1, <1>3, <1>4, <1>5, <1>6, <1>11, <1>12, ExtendedType
  <1>15. e.file.eoc \in First .. e.free - 1
    BY <1>2, <1>3, <1>14 DEF DataCluster, First
  <1>16. PICK g : g = [e.file EXCEPT !.size = size]
    OBVIOUS
  <1>17. g.eoc = e.file.eoc
    BY <1>14, <1>16 DEF Extension, FatFile
  <1>18. Extend(f, n, size) = [e EXCEPT !.file = g]
    BY <1>1, <1>11, <1>16
  <1>19. /\ Extend(f, n, size).table = e.table /\ Extend(f, n, size).free = e.free
         /\ Extend(f, n, size).file = g
    BY <1>14, <1>18 DEF Extension
  <1>20. QED
    BY <1>3, <1>10, <1>13, <1>15, <1>17, <1>19

\* The chain of a file that had no cluster.
LEMMA ExtendEmpty ==
  ASSUME TypeOK, Linked(next, nextFree), NEW f \in FatFile, NEW n \in Nat \ {0},
         CanExtend(f, n), NEW size \in 0 .. MaxSize, f.first = 0, f.eoc = 0
  PROVE  LET e == Extend(f, n, size)
         IN  /\ Linked(e.table, e.free) /\ e.table[e.file.eoc] = Eoc
             /\ e.file.eoc \in First .. e.free - 1
             /\ Nth(e.table, nextFree, Blocks(n) - 1) = e.file.eoc
             /\ \A i \in 0 .. Blocks(n) - 1 : Nth(e.table, nextFree, i) = nextFree + i
  <1>1. PICK m, extended : /\ m = Extra(f, n) /\ IsExtended(Found(f), m, extended)
                           /\ Extend(f, n, size) = [extended[m] EXCEPT !.file.size = size]
    <2>1. \E at : /\ IsExtended(Found(f), Extra(f, n), at)
                  /\ Extend(f, n, size) = [at[Extra(f, n)] EXCEPT !.file.size = size]
      BY ExtendIs
    <2>2. QED
      BY <2>1, Zenon
  <1>2. /\ TableOK(next) /\ nextFree \in Nat
        /\ nextFree \in DataCluster /\ next[nextFree] = Eoc /\ Eoc \in Nat
        /\ nextFree \in Cluster
    BY FileAssumption DEF TypeOK, TableOK, DataCluster, Cluster, Linked
  <1>3. m = Blocks(n) - 1 /\ m \in Nat /\ m + 1 = Blocks(n)
    BY <1>1, ExtendIs, BlocksAre DEF Extra
  <1>4. nextFree + m + 1 < Eoc /\ nextFree + 1 < Eoc
    BY <1>2, <1>3 DEF CanExtend
  <1>5. PICK s : s = Found(f) /\ IsExtended(s, m, extended)
    BY <1>1
  <1>6. /\ s \in Extension /\ s.free = nextFree + 1 /\ s.table = Start(f).table
        /\ s.file.eoc = nextFree
    BY <1>2, <1>4, <1>5, FoundType, StartType
  <1>7. TableOK(s.table) /\ \A c \in Cluster : s.table[c] = IF c = nextFree + 1 THEN Eoc ELSE next[c]
    <2>1. s.table \in [Cluster -> 0 .. Eoc]
      BY <1>6 DEF Extension
    <2>2. \A c \in Cluster : Start(f).table[c] = IF c = nextFree + 1 THEN Eoc ELSE next[c]
      BY <1>4, StartType
    <2>3. QED
      BY <1>6, <2>1, <2>2 DEF TableOK
  <1>8. Linked(s.table, nextFree + 1) /\ s.table[nextFree] = Eoc /\ nextFree + 1 \in DataCluster
    BY <1>2, <1>4, <1>7, AssignStep
  <1>9. Nth(s.table, nextFree, 0) = s.file.eoc /\ nextFree \in First .. (nextFree + 1) - 1
        /\ nextFree < nextFree + 1
    BY <1>2, <1>6, NthSteps DEF DataCluster, First
  <1>10. PICK e : e = extended[m]
    OBVIOUS
  <1>11. m \in 0 .. m /\ s.free + m < Eoc /\ 0 + m = m
    BY <1>2, <1>3, <1>4, <1>6
  <1>12. /\ Linked(e.table, e.free) /\ e.table[e.file.eoc] = Eoc
         /\ Nth(e.table, nextFree, 0 + m) = e.file.eoc
         /\ \A i \in 1 .. m : Nth(e.table, nextFree, 0 + i) = (nextFree + 1) + i - 1
    <2>1. /\ s.free \in DataCluster /\ Linked(s.table, s.free) /\ s.file.eoc < s.free
          /\ s.table[s.file.eoc] = Eoc /\ nextFree \in First .. s.free - 1 /\ 0 \in Nat
      BY <1>6, <1>8, <1>9
    <2>2. \A k \in 0 .. m :
            LET x == extended[k]
            IN  /\ Linked(x.table, x.free) /\ x.table[x.file.eoc] = Eoc /\ x.file.eoc < x.free
                /\ Nth(x.table, nextFree, 0 + k) = x.file.eoc
                /\ \A i \in 0 .. 0 : Nth(x.table, nextFree, i) = Nth(s.table, nextFree, i)
                /\ \A i \in 1 .. k : Nth(x.table, nextFree, 0 + i) = s.free + i - 1
      BY <1>3, <1>5, <1>6, <1>9, <1>11, <2>1, ExtendedChain
    <2>3. QED
      BY <1>6, <1>10, <1>11, <2>2
  <1>13. /\ e \in Extension /\ e.free = (nextFree + 1) + m
         /\ e.file.eoc = IF m = 0 THEN nextFree ELSE (nextFree + 1) + m - 1
    BY <1>1, <1>3, <1>5, <1>6, <1>10, <1>11, ExtendedType
  <1>14. e.file.eoc \in First .. e.free - 1
    BY <1>2, <1>3, <1>13 DEF DataCluster, First
  <1>15. ASSUME NEW i \in 0 .. Blocks(n) - 1 PROVE Nth(e.table, nextFree, i) = nextFree + i
    <2>1. CASE i = 0
      BY <1>2, <2>1, NthSteps
    <2>2. CASE i # 0
      <3>1. i \in 1 .. m /\ 0 + i = i /\ (nextFree + 1) + i - 1 = nextFree + i
        BY <1>2, <1>3, <2>2
      <3>2. QED
        BY <1>12, <3>1
    <2>3. QED
      BY <2>1, <2>2
  <1>16. PICK g : g = [e.file EXCEPT !.size = size]
    OBVIOUS
  <1>17. g.eoc = e.file.eoc
    BY <1>13, <1>16 DEF Extension, FatFile
  <1>18. Extend(f, n, size) = [e EXCEPT !.file = g]
    BY <1>1, <1>10, <1>16
  <1>19. /\ Extend(f, n, size).table = e.table /\ Extend(f, n, size).free = e.free
         /\ Extend(f, n, size).file = g
    BY <1>13, <1>18 DEF Extension
  <1>20. QED
    BY <1>3, <1>11, <1>12, <1>14, <1>15, <1>17, <1>19

-----------------------------------------------------------------------------
\* A handle that has the file as the directory has it, and what it knows then:
\* the entry, the end of the chain if it has looked for it, and the clusters of
\* the blocks its positions are for.
Fresh(f) == f.open /\ ~ f.stale

Follows(f, table, free, en) ==
    /\ f.first = en.first /\ f.size = en.size
    /\ f.first = 0 => f.eoc = 0 /\ f.absWrite = 0 /\ f.absRead = 0
    /\ f.eoc # 0 => /\ table[f.eoc] = Eoc /\ f.eoc \in First .. free - 1
                    /\ \E j \in Nat : Nth(table, f.first, j) = f.eoc
    /\ f.absWrite # 0 => /\ f.absWrite = Nth(table, f.first, f.written)
                         /\ f.written < Blocks(f.size)
    /\ f.absRead # 0 /\ f.read # NoBlock => /\ f.absRead = Nth(table, f.first, f.read)
                                            /\ f.read < Blocks(f.size)

\* The chain of the entry starts with a cluster that was taken, or the file is
\* empty and has none.
Rooted(free, en) ==
    /\ en.first \in First .. free - 1 \cup {0}
    /\ en.first = 0 <=> en.size = 0

\* FileHoldsContents of a table, clusters, an entry and contents.
Holds(table, clusters, en, c) ==
    /\ en.size = Len(c)
    /\ \A i \in 1 .. Len(c) :
          LET k == Nth(table, en.first, (i - 1) \div BlockSize)
          IN  k \in DataCluster /\ (c[i] # Blank => clusters[k][(i - 1) % BlockSize] = c[i])

Followed == \A h \in Handle : Fresh(handle[h]) => Follows(handle[h], next, nextFree, entry)

IInv ==
    /\ TypeOK
    /\ ~ astray => /\ Linked(next, nextFree) /\ Rooted(nextFree, entry)
                   /\ Holds(next, data, entry, content) /\ Followed

LEMMA HoldsIs == FileHoldsContents <=> (~ astray => Holds(next, data, entry, content))
  BY DEF FileHoldsContents, Holds, Gives

\* The first byte of a block of a file is a byte of the file.
LEMMA BlockStart ==
  ASSUME NEW n \in Nat, NEW q \in 0 .. Blocks(n) - 1
  PROVE  /\ BlockSize * q \in Nat /\ BlockSize * q < n /\ q \in Nat
         /\ (BlockSize * q) \div BlockSize = q
  <1>1. PICK b \in Nat : b = BlockSize /\ b > 0
    BY FileAssumption
  <1>2. q \in Nat /\ Blocks(n) \in Nat /\ q < Blocks(n) /\ n # 0 /\ n - 1 \in Nat
    BY BlocksAre
  <1>3. PICK p \in Nat, r \in 0 .. b - 1 : p = (n - 1) \div b /\ n - 1 = b * p + r
    BY <1>1, <1>2, Divided
  <1>4. q <= p
    BY <1>1, <1>2, <1>3, BlocksAre
  <1>5. PICK d \in Nat : p = q + d
    BY <1>2, <1>3, <1>4
  <1>6. b * p = b * q + b * d /\ b * d \in Nat /\ b * q \in Nat
    BY <1>1, <1>2, <1>5
  <1>7. (b * q + 0) \div b = q
    <2>1. 0 \in 0 .. BlockSize - 1
      BY <1>1
    <2>2. QED
      BY <1>1, <1>2, <2>1, DividedAt
  <1>8. b * q + 0 = b * q
    BY <1>6
  <1>9. QED
    BY <1>1, <1>2, <1>3, <1>6, <1>7, <1>8

\* The blocks of a file are clusters that were taken, each after the one before.
LEMMA BlocksHeld ==
  ASSUME NEW table, TableOK(table), NEW free \in DataCluster, Linked(table, free),
         NEW clusters, NEW en, en.size \in Nat, Rooted(free, en), NEW c, Holds(table, clusters, en, c)
  PROVE  /\ \A q \in 0 .. Blocks(en.size) - 1 :
               Nth(table, en.first, q) \in First .. free - 1 /\ Nth(table, en.first, q) \in DataCluster
         /\ \A q \in 0 .. Blocks(en.size) - 1, p \in 0 .. Blocks(en.size) - 1 :
               p < q => Nth(table, en.first, p) < Nth(table, en.first, q)
  <1>1. ASSUME NEW q \in 0 .. Blocks(en.size) - 1
        PROVE  Nth(table, en.first, q) \in First .. free - 1 /\ Nth(table, en.first, q) \in DataCluster
    <2>1. PICK i : i = BlockSize * q
      OBVIOUS
    <2>2. i \in Nat /\ i < en.size /\ i \div BlockSize = q /\ q \in Nat
      BY <2>1, BlockStart
    <2>3. i + 1 \in 1 .. Len(c) /\ (i + 1) - 1 = i
      BY <2>2 DEF Holds
    <2>4. Nth(table, en.first, q) \in DataCluster
      BY <2>2, <2>3 DEF Holds
    <2>5. Nth(table, en.first, q) \in First .. free - 1 \cup {0, Eoc}
      <3>1. en.first \in First .. free - 1 \cup {0, Eoc}
        BY DEF Rooted
      <3>2. QED
        BY <2>2, <3>1, WalkRange
    <2>6. QED
      BY <2>4, <2>5, FileAssumption DEF DataCluster
  <1>2. ASSUME NEW q \in 0 .. Blocks(en.size) - 1, NEW p \in 0 .. Blocks(en.size) - 1, p < q
        PROVE  Nth(table, en.first, p) < Nth(table, en.first, q)
    <2>1. PICK m : m = Blocks(en.size) - 1
      OBVIOUS
    <2>2. m \in Nat /\ \A i \in 0 .. m : Nth(table, en.first, i) \in DataCluster
      BY <1>1, <2>1, BlocksAre
    <2>3. \A i \in 0 .. m, j \in 0 .. m : i < j => Nth(table, en.first, i) < Nth(table, en.first, j)
      BY <2>2, WalkGrows
    <2>4. QED
      BY <1>2, <2>1, <2>3
  <1>3. QED
    BY <1>1, <1>2

\* The lesser and the greater of two numbers.
LEMMA OfTwo ==
  ASSUME NEW a \in Int, NEW b \in Int
  PROVE  /\ Min({a, b}) = IF a <= b THEN a ELSE b
         /\ Max({a, b}) = IF a <= b THEN b ELSE a
  <1>1. \A m : (m \in {a, b} /\ \A y \in {a, b} : m <= y) => m = IF a <= b THEN a ELSE b
    OBVIOUS
  <1>2. \A m : (m \in {a, b} /\ \A y \in {a, b} : m >= y) => m = IF a <= b THEN b ELSE a
    OBVIOUS
  <1>3. \E m \in {a, b} : \A y \in {a, b} : m <= y
    OBVIOUS
  <1>4. \E m \in {a, b} : \A y \in {a, b} : m >= y
    OBVIOUS
  <1>5. Min({a, b}) \in {a, b} /\ \A y \in {a, b} : Min({a, b}) <= y
    BY <1>3 DEF Min
  <1>6. Max({a, b}) \in {a, b} /\ \A y \in {a, b} : Max({a, b}) >= y
    BY <1>4 DEF Max
  <1>7. QED
    BY <1>1, <1>2, <1>5, <1>6

-----------------------------------------------------------------------------
LEMMA NoFile == Closed \in FatFile /\ ~ Fresh(Closed)
  <1>1. /\ 0 \in Cluster /\ 0 \in 0 .. MaxSize /\ 0 \in 0 .. Eoc /\ 0 \in 0 .. NoBlock
    BY FileAssumption, BlocksAre DEF Cluster, NoBlock
  <1>2. QED
    BY <1>1 DEF Closed, FatFile, Fresh

LEMMA InitKeeps == Init => IInv
  <1> SUFFICES ASSUME Init PROVE IInv
    OBVIOUS
  <1>1. PICK size \in MountedSizes : Mounted(size)
    BY DEF Init
  <1>2. PICK m : m = Blocks(size)
    OBVIOUS
  <1>3. /\ size \in Nat /\ size <= MaxSize /\ MaxSize \in Nat /\ m \in Nat /\ (m = 0 <=> size = 0)
        /\ Eoc \in Nat /\ m + 5 <= Eoc /\ MaxChanges \in Nat
    <2>1. size \in Nat /\ size <= MaxSize /\ MaxSize \in Nat /\ Eoc \in Nat /\ 5 + Blocks(MaxSize) <= Eoc
      BY FileAssumption DEF Blocks
    <2>2. Blocks(size) <= Blocks(MaxSize) /\ Blocks(size) \in Nat /\ Blocks(MaxSize) \in Nat
      BY <2>1, BlocksMonotone, BlocksAre
    <2>3. QED
      BY <1>2, <2>1, <2>2, BlocksAre, FileAssumption
  <1>4. /\ nextFree = m + 4 /\ nextFree \in DataCluster /\ nextFree \in Cluster
        /\ next \in [Cluster -> 0 .. Eoc]
        /\ \A c \in Cluster : next[c] = IF c \in 3 .. m + 1 THEN c + 1
                                        ELSE IF c < m + 3 \/ c = m + 4 THEN Eoc ELSE 0
    <2>1. nextFree = m + 4 /\ nextFree \in DataCluster /\ nextFree \in Cluster
      <3>1. nextFree = First + m + 1
        BY <1>1, <1>2 DEF Mounted
      <3>2. QED
        BY <1>3, <3>1 DEF First, DataCluster, Cluster
    <2>2. \A c \in Cluster : next[c] = IF c \in 3 .. m + 1 THEN c + 1
                                       ELSE IF c < m + 3 \/ c = m + 4 THEN Eoc ELSE 0
      <3>1. (First + m) - 2 = m + 1 /\ First + m = m + 3 /\ First + m + 1 = m + 4 /\ First = 3
        BY <1>3 DEF First
      <3>2. \A c \in Cluster : next[c] =
              IF c \in First .. (First + Blocks(size)) - 2 THEN c + 1
              ELSE IF c < First + Blocks(size) \/ c = First + Blocks(size) + 1 THEN Eoc
              ELSE 0
        BY <1>1 DEF Mounted
      <3>3. QED
        BY <1>2, <3>1, <3>2
    <2>3. \A c \in Cluster : next[c] \in 0 .. Eoc
      BY <1>3, <2>2 DEF Cluster
    <2>4. next = [c \in Cluster |-> next[c]]
      BY <1>1 DEF Mounted
    <2>5. QED
      BY <2>1, <2>2, <2>3, <2>4
  <1>5. Linked(next, nextFree)
    <2>1. next[nextFree] = Eoc
      BY <1>3, <1>4
    <2>2. \A c \in Cluster : next[c] \in {0, Eoc} \/ next[c] \in First .. nextFree - 1
      BY <1>3, <1>4 DEF Cluster, First
    <2>3. \A c \in DataCluster : next[c] \in {0, Eoc} \/ c < next[c]
      BY <1>3, <1>4 DEF Cluster, DataCluster
    <2>4. QED
      BY <2>1, <2>2, <2>3 DEF Linked
  <1>6. \A i \in Nat : i < m => Nth(next, First, i) = First + i
    <2> DEFINE S == {i \in Nat : i < m => Nth(next, First, i) = First + i}
    <2>1. 0 \in S
      BY NthSteps DEF First
    <2>2. ASSUME NEW i \in Nat, i \in S PROVE i + 1 \in S
      <3> SUFFICES ASSUME i + 1 < m PROVE Nth(next, First, i + 1) = First + (i + 1)
        OBVIOUS
      <3>1. Nth(next, First, i) = First + i /\ i < m
        BY <1>3, <2>2
      <3>2. First + i \in Cluster /\ First + i \in 3 .. m + 1 /\ First + i # Eoc
        BY <1>3, <3>1 DEF First, Cluster
      <3>3. next[First + i] = First + (i + 1)
        BY <1>4, <3>2 DEF First
      <3>4. QED
        BY <3>1, <3>2, <3>3, NthNext
    <2>3. \A i \in Nat : i \in S
      <3> HIDE DEF S
      <3> QED BY <2>1, <2>2, AllNumbers
    <2>4. QED
      BY <2>3
  <1>7. entry.first = (IF size = 0 THEN 0 ELSE First) /\ entry.size = size
    BY <1>1 DEF Mounted
  <1>8. Rooted(nextFree, entry)
    BY <1>3, <1>4, <1>7 DEF Rooted, First
  <1>9. /\ content \in Seq(Byte) /\ Len(content) = size
        /\ \A i \in 1 .. size : content[i] = Old(i - 1)
    <2>1. \A i \in 1 .. size : Old(i - 1) \in Byte
      BY <1>3 DEF Old, Byte
    <2>2. content = [i \in 1 .. size |-> Old(i - 1)]
      BY <1>1 DEF Mounted
    <2>3. QED
      BY <1>3, <2>1, <2>2
  <1>10. \A c \in DataCluster, i \in Offset : LET at == (c - First) * BlockSize + i
            IN data[c][i] = IF at < size THEN Old(at) ELSE Blank
    BY <1>1 DEF Mounted
  <1>11. data \in [DataCluster -> [Offset -> Byte]]
    <2>1. ASSUME NEW c \in DataCluster, NEW i \in Offset PROVE data[c][i] \in Byte
      <3>1. PICK b \in Nat, k \in Nat : b = BlockSize /\ k = c - First
        BY FileAssumption DEF DataCluster, First
      <3>2. PICK at \in Nat : at = (c - First) * BlockSize + i
        BY <3>1 DEF Offset
      <3>3. at < size => Old(at) \in Byte
        BY <1>3, <3>2 DEF Old, Byte
      <3>4. Blank \in Byte
        BY <1>3 DEF Blank, Byte
      <3>5. data[c][i] = IF at < size THEN Old(at) ELSE Blank
        BY <1>10, <3>2
      <3>6. QED
        BY <3>3, <3>4, <3>5
    <2>2. \A c \in DataCluster : data[c] = [i \in Offset |-> data[c][i]]
      BY <1>1 DEF Mounted
    <2>3. \A c \in DataCluster : data[c] \in [Offset -> Byte]
      BY <2>1, <2>2
    <2>4. data = [c \in DataCluster |-> data[c]]
      BY <1>1 DEF Mounted
    <2>5. QED
      BY <2>3, <2>4
  <1>12. Holds(next, data, entry, content)
    <2>1. ASSUME NEW i \in 1 .. size
          PROVE  /\ Nth(next, entry.first, (i - 1) \div BlockSize) \in DataCluster
                 /\ data[Nth(next, entry.first, (i - 1) \div BlockSize)][(i - 1) % BlockSize] = content[i]
      <3>1. PICK at \in Nat : at = i - 1 /\ at < size
        BY <1>3
      <3>2. PICK q \in Nat, r \in Offset : /\ q = at \div BlockSize /\ r = at % BlockSize
                                           /\ at = BlockSize * q + r /\ q < m
        <4>1. at \div BlockSize < m
          BY <1>2, <1>3, <3>1, InBlocks
        <4>2. QED
          BY <3>1, <4>1, Divided DEF Offset
      <3>3. Nth(next, entry.first, q) = First + q
        BY <1>3, <1>6, <1>7, <3>1, <3>2
      <3>4. First + q \in DataCluster /\ (First + q) - First = q
        BY <1>3, <3>2 DEF DataCluster, First
      <3>5. q * BlockSize + r = at
        <4>1. PICK b \in Nat : b = BlockSize
          BY FileAssumption
        <4>2. q * b = b * q
          BY <4>1
        <4>3. QED
          BY <3>2, <4>1, <4>2
      <3>6. data[First + q][r] = Old(at)
        BY <1>10, <3>1, <3>2, <3>4, <3>5
      <3>7. QED
        BY <1>9, <3>1, <3>2, <3>3, <3>4, <3>6
    <2>2. QED
      BY <1>7, <1>9, <2>1 DEF Holds
  <1>13. handle \in [Handle -> FatFile] /\ Followed
    <2>1. handle = [h \in Handle |-> Closed]
      BY <1>1 DEF Mounted
    <2>2. QED
      BY <2>1, NoFile DEF Followed
  <1>14. entry \in [first : Cluster, size : 0 .. MaxSize]
    <2>1. entry = [first |-> IF size = 0 THEN 0 ELSE First, size |-> size]
      BY <1>1 DEF Mounted
    <2>2. QED
      BY <1>3, <2>1 DEF First, Cluster
  <1>15. outside \in BOOLEAN /\ changes \in 0 .. MaxChanges /\ astray \in BOOLEAN
    <2>1. outside = FALSE /\ changes = 0 /\ astray = FALSE
      BY <1>1 DEF Mounted
    <2>2. 0 \in 0 .. MaxChanges
      BY <1>3
    <2>3. QED
      BY <2>1, <2>2
  <1>16. TypeOK
    BY <1>3, <1>4, <1>9, <1>11, <1>13, <1>14, <1>15 DEF TypeOK
  <1>17. QED
    BY <1>5, <1>8, <1>12, <1>13, <1>16 DEF IInv

LEMMA Sizes == MaxSize \in Nat /\ Eoc \in Nat /\ 5 <= Eoc /\ MaxChanges \in Nat /\ MaxPages \in Nat
  <1>1. MaxSize \in Nat /\ Eoc \in Nat /\ 5 + Blocks(MaxSize) <= Eoc /\ MaxChanges \in Nat
        /\ MaxPages \in Nat
    BY FileAssumption DEF Blocks
  <1>2. QED
    BY <1>1, BlocksAre

LEMMA OpenKeeps ==
  ASSUME IInv, NEW h \in Handle, Open(h)
  PROVE  IInv'
  <1>1. PICK f : f = Opened
    OBVIOUS
  <1>2. /\ f \in FatFile /\ f.first = entry.first /\ f.size = entry.size /\ f.eoc = 0
        /\ f.absRead = 0 /\ f.absWrite = 0
    <2>1. 0 \in Cluster /\ 0 \in 0 .. MaxSize /\ 0 \in 0 .. Eoc /\ 0 \in 0 .. NoBlock
      BY Sizes DEF Cluster, NoBlock
    <2>2. QED
      BY <1>1, <2>1 DEF IInv, TypeOK, Opened, FatFile
  <1>3. /\ handle' = [handle EXCEPT ![h] = f]
        /\ UNCHANGED <<next, data, nextFree, entry, outside, changes, content, astray>>
    BY <1>1 DEF Open
  <1>4. TypeOK'
    BY <1>2, <1>3 DEF IInv, TypeOK
  <1>5. Follows(f, next, nextFree, entry)
    BY <1>2 DEF Follows
  <1>6. ~ astray => \A g \in Handle : Fresh(handle'[g]) => Follows(handle'[g], next, nextFree, entry)
    BY <1>3, <1>5 DEF IInv, TypeOK, Followed
  <1>7. QED
    BY <1>3, <1>4, <1>6 DEF IInv, Followed

LEMMA ReleaseKeeps ==
  ASSUME IInv, NEW h \in Handle, Release(h)
  PROVE  IInv'
  <1>1. /\ handle' = [handle EXCEPT ![h] = Closed]
        /\ UNCHANGED <<next, data, nextFree, entry, outside, changes, content, astray>>
    BY DEF Release
  <1>2. TypeOK'
    BY <1>1, NoFile DEF IInv, TypeOK
  <1>3. ~ astray => \A g \in Handle : Fresh(handle'[g]) => Follows(handle'[g], next, nextFree, entry)
    BY <1>1, NoFile DEF IInv, TypeOK, Followed
  <1>4. QED
    BY <1>1, <1>2, <1>3 DEF IInv, Followed

\* The clusters that a read goes through.
LEMMA PathIs ==
  ASSUME TypeOK, NEW f \in FatFile, NEW block \in Nat, NEW n \in Nat \ {0}
  PROVE  LET path == Path(f, block, n)
             start == IF f.absRead = 0 THEN SeekBlock(next, f.first, block * BlockSize)
                      ELSE Nth(next, f.absRead, 1)
             abs == IF f.absRead = 0 THEN start ELSE f.absRead
         IN  /\ path \in Seq(0 .. Eoc) /\ Len(path) = Blocks(n) /\ path[1] = start
             /\ \A i \in 1 .. Blocks(n) - 1 : path[i + 1] = Nth(next, abs, i)
  <1>1. PICK start, abs, k :
           /\ start = IF f.absRead = 0 THEN SeekBlock(next, f.first, block * BlockSize)
                      ELSE Nth(next, f.absRead, 1)
           /\ abs = IF f.absRead = 0 THEN start ELSE f.absRead
           /\ k = Blocks(n) - 1
    OBVIOUS
  <1>2. k \in Nat /\ k + 1 = Blocks(n) /\ TableOK(next)
    <2>1. Blocks(n) \in Nat /\ Blocks(n) # 0
      BY BlocksAre
    <2>2. QED
      BY <1>1, <2>1 DEF TypeOK, TableOK
  <1>3. start \in 0 .. Eoc
    <2>1. f.first \in 0 .. Eoc /\ f.absRead \in 0 .. Eoc
      BY Sizes DEF FatFile, Cluster
    <2>2. PICK b \in Nat : b = BlockSize
      BY FileAssumption
    <2>3. block * BlockSize \in Nat
      BY <2>2
    <2>4. (IF Blocks(block * BlockSize) = 0 THEN 0 ELSE Blocks(block * BlockSize) - 1) \in Nat
      BY <2>3, BlocksAre
    <2>5. SeekBlock(next, f.first, block * BlockSize) \in 0 .. Eoc
      BY <1>2, <2>1, <2>4, NthType DEF SeekBlock
    <2>6. Nth(next, f.absRead, 1) \in 0 .. Eoc
      BY <1>2, <2>1, NthType
    <2>7. QED
      BY <1>1, <2>5, <2>6
  <1>4. abs \in 0 .. Eoc
    BY <1>1, <1>3 DEF FatFile
  <1>5. PICK s : s = [i \in 1 .. k |-> Nth(next, abs, i)]
    OBVIOUS
  <1>6. s \in Seq(0 .. Eoc) /\ Len(s) = k /\ \A i \in 1 .. k : s[i] = Nth(next, abs, i)
    <2>1. \A i \in 1 .. k : Nth(next, abs, i) \in 0 .. Eoc
      BY <1>2, <1>4, NthType
    <2>2. QED
      BY <1>2, <1>5, <2>1
  <1>7. Path(f, block, n) = <<start>> \o s
    BY <1>1, <1>5 DEF Path, Following
  <1>8. /\ <<start>> \o s \in Seq(0 .. Eoc) /\ Len(<<start>> \o s) = k + 1
        /\ (<<start>> \o s)[1] = start
        /\ \A i \in 1 .. k : (<<start>> \o s)[i + 1] = s[i]
    BY <1>2, <1>3, <1>6
  <1>9. QED
    BY <1>1, <1>2, <1>6, <1>7, <1>8

\* A read is of bytes of the file as the handle knows it.
LEMMA LengthIs ==
  ASSUME NEW f \in FatFile, NEW block \in Nat, NEW pages \in 1 .. MaxPages
  PROVE  /\ block * BlockSize \in Nat /\ pages * BlockSize \in Nat \ {0}
         /\ LET n == Length(f, block, pages)
                left == f.size - block * BlockSize
            IN  /\ n = IF pages * BlockSize <= left THEN pages * BlockSize ELSE left
                /\ n \in Int
                /\ n > 0 => /\ n \in Nat \ {0} /\ n <= MaxSize /\ Blocks(n) <= MaxSize
                            /\ Blocks(n) <= Blocks(f.size)
  <1>1. PICK a, c : a = block * BlockSize /\ c = pages * BlockSize
    OBVIOUS
  <1>2. a \in Nat /\ c \in Nat \ {0}
    <2>1. PICK b \in Nat : b = BlockSize /\ b > 0
      BY FileAssumption
    <2>2. block * b \in Nat
      OBVIOUS
    <2>3. PICK p \in Nat : pages = p + 1
      <3>1. pages - 1 \in Nat /\ pages = (pages - 1) + 1
        BY Sizes
      <3>2. QED
        BY <3>1
    <2>4. pages * b = p * b + b /\ p * b \in Nat
      BY <2>1, <2>3
    <2>5. QED
      BY <1>1, <2>1, <2>2, <2>4
  <1>3. PICK n : n = Length(f, block, pages)
    OBVIOUS
  <1>4. f.size \in Nat /\ f.size <= MaxSize /\ MaxSize \in Nat
    BY Sizes DEF FatFile
  <1>5. n = IF c <= f.size - a THEN c ELSE f.size - a
    BY <1>1, <1>2, <1>3, <1>4, OfTwo DEF Length
  <1>6. ASSUME n > 0
        PROVE  n \in Nat \ {0} /\ n <= MaxSize /\ Blocks(n) <= MaxSize /\ Blocks(n) <= Blocks(f.size)
    <2>1. n \in Nat \ {0} /\ n <= f.size /\ n <= MaxSize
      BY <1>2, <1>4, <1>5, <1>6
    <2>2. Blocks(n) <= n /\ Blocks(n) \in Nat
      BY <2>1, BlocksAre
    <2>3. Blocks(n) <= Blocks(f.size)
      BY <1>4, <2>1, BlocksMonotone
    <2>4. QED
      BY <1>4, <2>1, <2>2, <2>3
  <1>7. n \in Int
    BY <1>2, <1>4, <1>5
  <1>8. QED
    BY <1>1, <1>2, <1>3, <1>5, <1>6, <1>7

\* A file that fits a block is one block.
LEMMA OneBlock ==
  ASSUME NEW n \in Nat \ {0}, n <= BlockSize
  PROVE  Blocks(n) = 1
  <1>1. 0 \in Nat /\ n \in 1 .. BlockSize /\ (0 % BlockSize) + n <= BlockSize
    <2>1. PICK b \in Nat : b = BlockSize /\ b > 0
      BY FileAssumption
    <2>2. 0 % b = 0
      BY <2>1
    <2>3. QED
      BY <2>1, <2>2
  <1>2. QED
    BY <1>1, InOneBlock

\* A served read goes through blocks of the file, and leaves the position at the
\* last of them: the first read of a handle; the others leave it where it is.
LEMMA ServedPath ==
  ASSUME TypeOK, NEW f \in FatFile, Follows(f, next, nextFree, entry),
         NEW block \in Nat, NEW n \in Nat \ {0}, ServesRead(f, block, n)
  PROVE  /\ f.absRead = 0 => block = 0
         /\ f.absRead # 0 => Blocks(n) = 1
         /\ f.absRead # 0 /\ f.read # NoBlock => block = f.read + 1
         /\ f.absRead = 0 \/ f.read # NoBlock =>
               \A i \in 1 .. Blocks(n) :
                  Path(f, block, n)[i] = Nth(next, entry.first, block + (i - 1))
  <1>1. /\ f.absRead = 0 => block = 0
        /\ f.absRead # 0 => n <= BlockSize /\ block = f.read + 1
    BY DEF ServesRead
  <1>2. f.absRead # 0 => Blocks(n) = 1
    BY <1>1, OneBlock
  <1>3. PICK path, k : path = Path(f, block, n) /\ k = Blocks(n)
    OBVIOUS
  <1>4. k \in Nat /\ k # 0
    BY <1>3, BlocksAre
  <1>5. f.first = entry.first
    BY DEF Follows
  <1>6. ASSUME f.absRead = 0, NEW i \in 1 .. k
        PROVE  path[i] = Nth(next, entry.first, block + (i - 1))
    <2>1. block * BlockSize = 0
      <3>1. PICK b \in Nat : b = BlockSize
        BY FileAssumption
      <3>2. 0 * b = 0
        BY <3>1
      <3>3. QED
        BY <1>1, <1>6, <3>1, <3>2
    <2>2. SeekBlock(next, f.first, 0) = f.first
      BY BlocksAre, NthSteps DEF SeekBlock
    <2>3. path[1] = f.first /\ \A j \in 1 .. k - 1 : path[j + 1] = Nth(next, f.first, j)
      <3>1. PICK a : a = SeekBlock(next, f.first, block * BlockSize)
        OBVIOUS
      <3>2. path[1] = a /\ \A j \in 1 .. k - 1 : path[j + 1] = Nth(next, a, j)
        BY <1>3, <1>6, <3>1, PathIs, SMTT(60)
      <3>3. a = f.first
        BY <2>1, <2>2, <3>1
      <3>4. QED
        BY <3>2, <3>3
    <2>4. CASE i = 1
      <3>1. block + (i - 1) = 0
        BY <1>1, <1>6, <2>4
      <3>2. QED
        BY <1>5, <2>3, <2>4, <3>1, NthSteps
    <2>5. CASE i # 1
      <3>1. i - 1 \in 1 .. k - 1 /\ (i - 1) + 1 = i /\ block + (i - 1) = i - 1
        BY <1>1, <1>4, <1>6, <2>5
      <3>2. path[(i - 1) + 1] = Nth(next, f.first, i - 1)
        BY <2>3, <3>1
      <3>3. QED
        BY <1>5, <3>1, <3>2
    <2>6. QED
      BY <2>4, <2>5
  <1>7. ASSUME f.absRead # 0, f.read # NoBlock, NEW i \in 1 .. k
        PROVE  path[i] = Nth(next, entry.first, block + (i - 1))
    <2>1. i = 1 /\ block + (i - 1) = f.read + 1 /\ f.read \in Nat
      <3>1. k = 1 /\ block = f.read + 1
        BY <1>1, <1>2, <1>3, <1>7
      <3>2. f.read \in Nat
        BY Sizes DEF FatFile, NoBlock
      <3>3. QED
        BY <3>1, <3>2
    <2>2. path[1] = Nth(next, f.absRead, 1)
      BY <1>3, <1>7, PathIs
    <2>3. f.absRead = Nth(next, f.first, f.read)
      BY <1>7 DEF Follows
    <2>4. Nth(next, f.absRead, 1) = Nth(next, f.first, f.read + 1)
      <3>1. PICK r \in Nat : r = f.read
        BY <2>1
      <3>2. Nth(next, Nth(next, f.first, r), 1) = Nth(next, f.first, r + 1)
        BY NthFrom
      <3>3. QED
        BY <2>3, <3>1, <3>2
    <2>5. QED
      BY <1>5, <2>1, <2>2, <2>4
  <1>8. QED
    BY <1>1, <1>2, <1>3, <1>6, <1>7

LEMMA ElementOf ==
  ASSUME NEW S, NEW s \in Seq(S), NEW i \in 1 .. Len(s)
  PROVE  s[i] \in S
  OBVIOUS

LEMMA ReadKeeps ==
  ASSUME IInv, NEW h \in Handle, NEW block \in 0 .. MaxSize, NEW pages \in 1 .. MaxPages,
         Read(h, block, pages)
  PROVE  IInv'
  <1>1. PICK f, n, path, abs, read :
           /\ f = handle[h] /\ n = Length(f, block, pages) /\ path = Path(f, block, n)
           /\ abs = IF Len(path) > 1 \/ f.absRead = 0 THEN Last(path) ELSE f.absRead
           /\ read = IF ~ ServesRead(f, block, n) THEN NoBlock
                     ELSE IF f.absRead = 0 THEN block + Len(path) - 1 ELSE f.read
    OBVIOUS
  <1>2. /\ ~ astray /\ f.open /\ block * BlockSize < entry.size /\ n > 0
        /\ outside' \in BOOLEAN
        /\ UNCHANGED <<next, data, nextFree, entry, changes, content, astray>>
    BY <1>1 DEF Read, Goes
  <1>3. PICK g : g = [f EXCEPT !.absRead = abs, !.read = read]
    OBVIOUS
  <1>4. handle' = [handle EXCEPT ![h] = g]
    <2>1. handle' = [handle EXCEPT ![h].absRead = abs,
               ![h].read = IF ~ ServesRead(f, block, n) THEN NoBlock
                           ELSE IF f.absRead = 0 THEN block + Len(path) - 1 ELSE @]
      BY <1>1 DEF Read
    <2>2. QED
      BY <1>1, <1>3, <2>1 DEF IInv, TypeOK
  <1>5. /\ f \in FatFile /\ TypeOK /\ block \in Nat /\ n \in Nat \ {0} /\ Blocks(n) <= MaxSize
        /\ Blocks(n) <= Blocks(f.size) /\ Blocks(n) \in Nat \ {0} /\ f.size \in Nat
    <2>1. f \in FatFile /\ TypeOK /\ block \in Nat
      BY <1>1, Sizes DEF IInv, TypeOK
    <2>2. n \in Nat \ {0} /\ Blocks(n) <= MaxSize /\ Blocks(n) <= Blocks(f.size)
      BY <1>1, <1>2, <2>1, LengthIs
    <2>3. Blocks(n) \in Nat \ {0}
      BY <2>2, BlocksAre
    <2>4. f.size \in Nat
      BY <2>1, Sizes DEF FatFile
    <2>5. QED
      BY <2>1, <2>2, <2>3, <2>4
  <1>6. path \in Seq(0 .. Eoc) /\ Len(path) = Blocks(n)
    BY <1>1, <1>5, PathIs
  <1>7. abs \in 0 .. Eoc
    <2>1. Last(path) \in 0 .. Eoc
      <3>1. Len(path) \in 1 .. Len(path)
        BY <1>5, <1>6
      <3>2. path[Len(path)] \in 0 .. Eoc
        BY <1>6, <3>1, ElementOf
      <3>3. QED
        BY <3>2 DEF Last
    <2>2. f.absRead \in 0 .. Eoc
      BY <1>5 DEF FatFile
    <2>3. QED
      BY <1>1, <2>1, <2>2
  <1>8. read \in 0 .. NoBlock
    <2>1. f.read \in 0 .. NoBlock /\ NoBlock \in 0 .. NoBlock /\ NoBlock = MaxSize + 1
      BY <1>5, Sizes DEF FatFile, NoBlock
    <2>2. ASSUME ServesRead(f, block, n), f.absRead = 0
          PROVE  block + Len(path) - 1 \in 0 .. NoBlock
      <3>1. block = 0
        BY <2>2 DEF ServesRead
      <3>2. QED
        BY <1>5, <1>6, <2>1, <3>1, Sizes
    <2>3. QED
      BY <1>1, <2>1, <2>2
  <1>9. /\ g \in FatFile /\ g.absRead = abs /\ g.read = read /\ g.first = f.first /\ g.size = f.size
        /\ g.eoc = f.eoc /\ g.absWrite = f.absWrite /\ g.written = f.written
        /\ g.open = f.open /\ g.stale = f.stale
    BY <1>3, <1>5, <1>7, <1>8 DEF FatFile
  <1>10. TypeOK'
    BY <1>2, <1>4, <1>5, <1>9 DEF TypeOK
  <1>11. ASSUME Fresh(f) PROVE Follows(g, next, nextFree, entry)
    <2>1. Follows(f, next, nextFree, entry)
      BY <1>1, <1>2, <1>11 DEF IInv, Followed
    <2>2. f.first # 0
      <3>1. entry.size # 0
        <4>1. block * BlockSize \in Nat
          BY <1>5, LengthIs
        <4>2. entry.size \in Nat
          BY <1>5, Sizes DEF TypeOK
        <4>3. QED
          BY <1>2, <4>1, <4>2
      <3>2. QED
        BY <1>2, <2>1, <3>1 DEF IInv, Rooted, Follows
    <2>3. ASSUME abs # 0, read # NoBlock
          PROVE  abs = Nth(next, f.first, read) /\ read < Blocks(f.size)
      <3>1. ServesRead(f, block, n)
        BY <1>1, <2>3
      <3>2. CASE f.absRead = 0
        <4>1. block = 0 /\ abs = path[Blocks(n)] /\ read = Blocks(n) - 1
          <5>1. block = 0
            BY <3>1, <3>2 DEF ServesRead
          <5>2. QED
            BY <1>1, <1>5, <1>6, <3>1, <3>2, <5>1 DEF Last
        <4>2. path[Blocks(n)] = Nth(next, entry.first, block + (Blocks(n) - 1))
          <5>1. Blocks(n) \in 1 .. Blocks(n)
            BY <1>5
          <5>2. QED
            BY <1>1, <1>5, <2>1, <3>1, <3>2, <5>1, ServedPath
        <4>3. block + (Blocks(n) - 1) = Blocks(n) - 1 /\ Blocks(f.size) \in Nat
          BY <1>5, <4>1, BlocksAre
        <4>4. QED
          BY <1>5, <2>1, <4>1, <4>2, <4>3 DEF Follows
      <3>3. CASE f.absRead # 0
        <4>1. Blocks(n) = 1
          BY <1>5, <2>1, <3>1, <3>3, ServedPath
        <4>2. abs = f.absRead /\ read = f.read
          BY <1>1, <1>6, <3>1, <3>3, <4>1
        <4>3. QED
          BY <2>1, <2>3, <3>3, <4>2 DEF Follows
      <3>4. QED
        BY <3>2, <3>3
    <2>4. QED
      BY <1>9, <2>1, <2>2, <2>3 DEF Follows
  <1>12. ASSUME NEW k \in Handle, Fresh(handle'[k]) PROVE Follows(handle'[k], next, nextFree, entry)
    <2>1. CASE k = h
      <3>1. handle'[k] = g
        BY <1>4, <1>5, <2>1 DEF TypeOK
      <3>2. Fresh(f)
        BY <1>9, <1>12, <3>1 DEF Fresh
      <3>3. QED
        BY <1>11, <3>1, <3>2
    <2>2. CASE k # h
      <3>1. handle'[k] = handle[k]
        BY <1>4, <1>5, <2>2 DEF TypeOK
      <3>2. QED
        BY <1>2, <1>12, <3>1 DEF IInv, Followed
    <2>3. QED
      BY <2>1, <2>2
  <1>13. Followed'
    BY <1>2, <1>12 DEF Followed
  <1>14. QED
    BY <1>2, <1>10, <1>13 DEF IInv

-----------------------------------------------------------------------------
\* What a change of the file leaves of the handles that did not make it.
LEMMA StaleType ==
  ASSUME TypeOK, NEW changing
  PROVE  /\ StaleBut(changing) \in [Handle -> FatFile]
         /\ \A h \in Handle : IF h \in changing THEN StaleBut(changing)[h] = handle[h]
                              ELSE ~ Fresh(StaleBut(changing)[h])
  <1>1. ASSUME NEW h \in Handle
        PROVE  /\ StaleBut(changing)[h] \in FatFile
               /\ IF h \in changing THEN StaleBut(changing)[h] = handle[h]
                  ELSE ~ Fresh(StaleBut(changing)[h])
    <2>1. PICK f, g : f = handle[h] /\ g = [f EXCEPT !.stale = TRUE]
      OBVIOUS
    <2>2. f \in FatFile /\ g \in FatFile /\ g.stale
      BY <2>1 DEF TypeOK, FatFile
    <2>3. StaleBut(changing)[h] = IF h \in changing \/ ~ f.open THEN f ELSE g
      BY <2>1 DEF StaleBut
    <2>4. QED
      BY <2>1, <2>2, <2>3 DEF Fresh
  <1>2. StaleBut(changing) = [h \in Handle |-> StaleBut(changing)[h]]
    BY DEF StaleBut
  <1>3. QED
    BY <1>1, <1>2

\* The table after a cut: the clusters that are freed come after the one that is
\* cut, and what is left is still linked.
LEMMA CutTable ==
  ASSUME NEW table, TableOK(table), NEW free \in DataCluster, Linked(table, free),
         NEW cut \in First .. free - 1,
         NEW marked, TableOK(marked),
         \A c \in Cluster : marked[c] = IF c = cut + 1 THEN Eoc ELSE table[c],
         NEW drop, 0 \notin drop,
         \A x : x \in drop <=> x # Eoc /\ \E i \in 0 .. Eoc : x = Nth(marked, table[cut], i),
         NEW u, TableOK(u),
         \A c \in Cluster : u[c] = IF c \in drop THEN 0 ELSE marked[c]
  PROVE  drop \subseteq cut + 1 .. free - 1 /\ Linked(u, free)
  <1>1. /\ cut \in Cluster /\ cut \in DataCluster /\ cut + 1 \in Cluster /\ cut \in Nat
        /\ free \in Nat /\ free < Eoc /\ Eoc \in Nat /\ free \in Cluster
    BY Sizes DEF First, DataCluster, Cluster
  <1>2. PICK after : after = table[cut]
    OBVIOUS
  <1> DEFINE Right(c) == c = Eoc \/ c \in cut + 1 .. free - 1
             S == {i \in Nat : i <= Eoc => Right(Nth(marked, after, i))}
  <1>3. \A i \in Nat : i <= Eoc => Nth(marked, after, i) # 0
    <2> SUFFICES ASSUME NEW i \in Nat, i <= Eoc, Nth(marked, after, i) = 0 PROVE FALSE
      OBVIOUS
    <2>1. i \in 0 .. Eoc /\ 0 # Eoc
      BY Sizes
    <2>2. Nth(marked, table[cut], i) \in drop
      BY <1>2, <2>1
    <2>3. QED
      BY <1>2, <2>2
  <1>4. 0 \in S
    <2>1. Nth(marked, after, 0) = after
      BY NthSteps
    <2>2. after # 0
      BY <1>1, <1>3, <2>1
    <2>3. after = Eoc \/ after \in First .. free - 1
      BY <1>1, <1>2, <2>2 DEF Linked
    <2>4. after = Eoc \/ cut < after
      BY <1>1, <1>2, <2>2 DEF Linked
    <2>5. Right(after)
      BY <1>1, <2>3, <2>4 DEF First
    <2>6. QED
      BY <2>1, <2>5
  <1>5. ASSUME NEW i \in Nat, i \in S PROVE i + 1 \in S
    <2> SUFFICES ASSUME i + 1 <= Eoc PROVE Right(Nth(marked, after, i + 1))
      OBVIOUS
    <2>1. PICK c, d : c = Nth(marked, after, i) /\ d = Nth(marked, after, i + 1)
      OBVIOUS
    <2>2. Right(c) /\ d # 0 /\ d = IF c = Eoc THEN Eoc ELSE marked[c]
      <3>1. i <= Eoc /\ i + 1 \in Nat
        BY <1>1
      <3>2. QED
        BY <1>3, <1>5, <2>1, <3>1, NthNext
    <2>3. CASE c = Eoc \/ c = cut + 1
      BY <1>1, <2>1, <2>2, <2>3
    <2>4. CASE c # Eoc /\ c # cut + 1
      <3>1. c \in cut + 1 .. free - 1 /\ c \in Cluster /\ c \in DataCluster /\ c \in Nat
        BY <1>1, <2>2, <2>4 DEF Cluster, DataCluster
      <3>2. d = table[c]
        BY <2>2, <2>4, <3>1
      <3>3. d = Eoc \/ (d \in First .. free - 1 /\ c < d)
        BY <2>2, <3>1, <3>2 DEF Linked
      <3>4. Right(d)
        BY <1>1, <3>1, <3>3 DEF First
      <3>5. QED
        BY <2>1, <3>4
    <2>5. QED
      BY <2>3, <2>4
  <1>6. \A i \in Nat : i \in S
    <2> HIDE DEF S
    <2> QED BY <1>4, <1>5, AllNumbers
  <1>7. drop \subseteq cut + 1 .. free - 1
    <2> SUFFICES ASSUME NEW c \in drop PROVE c \in cut + 1 .. free - 1
      OBVIOUS
    <2>1. PICK i \in 0 .. Eoc : c = Nth(marked, after, i) /\ c # Eoc
      BY <1>2
    <2>2. Right(c)
      BY <1>6, <2>1
    <2>3. QED
      BY <2>1, <2>2
  <1>8. u[free] = Eoc
    <2>1. free \notin drop
      BY <1>1, <1>7
    <2>2. QED
      BY <1>1, <2>1 DEF Linked
  <1>9. \A c \in Cluster : u[c] \in {0, Eoc} \/ u[c] = table[c]
    OBVIOUS
  <1>10. \A c \in Cluster : u[c] \in {0, Eoc} \/ u[c] \in First .. free - 1
    BY <1>9 DEF Linked
  <1>11. \A c \in DataCluster : u[c] \in {0, Eoc} \/ c < u[c]
    <2> SUFFICES ASSUME NEW c \in DataCluster PROVE u[c] \in {0, Eoc} \/ c < u[c]
      OBVIOUS
    <2>1. c \in Cluster
      BY Sizes DEF Cluster, DataCluster
    <2>2. QED
      BY <1>9, <2>1 DEF Linked
  <1>12. QED
    BY <1>7, <1>8, <1>10, <1>11 DEF Linked

LEMMA StartOf ==
  ASSUME NEW S, NEW s \in Seq(S), NEW n \in Nat, n <= Len(s)
  PROVE  SubSeq(s, 1, n) \in Seq(S) /\ Len(SubSeq(s, 1, n)) = n
  OBVIOUS

\* The contents that a smaller file keeps: those of the blocks that are kept.
LEMMA HoldsLess ==
  ASSUME NEW table, NEW clusters, NEW en, NEW c \in Seq(Byte), Holds(table, clusters, en, c),
         NEW size \in Nat, size <= en.size,
         NEW u, NEW d, NEW ef, ef.size = size, size # 0 => ef.first = en.first,
         \A q \in 0 .. Blocks(size) - 1 :
            /\ Nth(u, en.first, q) = Nth(table, en.first, q)
            /\ d[Nth(table, en.first, q)] = clusters[Nth(table, en.first, q)]
  PROVE  Holds(u, d, ef, SubSeq(c, 1, size))
  <1>1. PICK s : s = SubSeq(c, 1, size)
    OBVIOUS
  <1>2. Len(s) = size /\ \A i \in 1 .. size : s[i] = c[i] /\ i \in 1 .. Len(c)
    <2>1. size <= Len(c)
      BY DEF Holds
    <2>2. QED
      BY <1>1, <2>1
  <1>3. ASSUME NEW i \in 1 .. size
        PROVE  LET k == Nth(u, ef.first, (i - 1) \div BlockSize)
               IN  k \in DataCluster /\ (s[i] # Blank => d[k][(i - 1) % BlockSize] = s[i])
    <2>1. PICK q \in 0 .. Blocks(size) - 1 : q = (i - 1) \div BlockSize
      <3>1. i - 1 \in Nat /\ i - 1 < size
        OBVIOUS
      <3>2. QED
        BY <3>1, InBlocks
    <2>2. PICK k : k = Nth(table, en.first, q)
      OBVIOUS
    <2>3. k \in DataCluster /\ (c[i] # Blank => clusters[k][(i - 1) % BlockSize] = c[i])
      BY <1>2, <2>1, <2>2 DEF Holds
    <2>4. Nth(u, en.first, q) = k /\ d[k] = clusters[k]
      BY <2>2
    <2>5. ef.first = en.first
      OBVIOUS
    <2>6. QED
      BY <1>2, <2>1, <2>3, <2>4, <2>5
  <1>4. QED
    BY <1>1, <1>2, <1>3 DEF Holds

\* What a cut computes: the byte it zeroes from, the table with the entry after
\* that of the cut cluster marked, the clusters it frees, whether it leaves the
\* volume.
From(size) == IF (size % BlockSize) = 0 THEN 0 ELSE (size % BlockSize) + 1
Marked(size) == [next EXCEPT ![CutAt(size) + 1] = Eoc]
Drop(size) == { Nth(Marked(size), next[CutAt(size)], i) : i \in 0 .. Eoc } \ {Eoc}
Leaves(size) ==
    \/ ~ CutAt(size) \in DataCluster
    \/ /\ next[CutAt(size)] # Eoc
       /\ 0 \in Drop(size) \/ Ends(Marked(size), next[CutAt(size)]) = {}

LEMMA TruncateDownKeeps ==
  ASSUME IInv, NEW size \in 0 .. MaxSize, TruncateDown(size)
  PROVE  IInv'
  <1>1. PICK cut, from, marked, after, drop, leaves :
           /\ cut = CutAt(size) /\ from = From(size) /\ marked = Marked(size)
           /\ after = next[cut] /\ drop = Drop(size) /\ leaves = Leaves(size)
    OBVIOUS
  <1>2. /\ ~ astray /\ changes < MaxChanges /\ size <= entry.size
        /\ entry' = [first |-> IF size = 0 THEN 0 ELSE entry.first, size |-> size]
        /\ outside' = leaves
        /\ leaves => next' = next /\ data' = data
        /\ ~ leaves => /\ next' = [c \in Cluster |-> IF c \in drop THEN 0 ELSE marked[c]]
                       /\ data' = [c \in DataCluster |-> [i \in Offset |->
                            IF c \in drop \/ (c = cut /\ i >= from) THEN Blank ELSE data[c][i]]]
        /\ handle' = StaleBut({})
        /\ changes' = changes + 1
        /\ content' = SubSeq(content, 1, size)
        /\ nextFree' = nextFree /\ astray' = astray
    <2>1. /\ ~ astray /\ changes < MaxChanges /\ size <= entry.size
          /\ entry' = [first |-> IF size = 0 THEN 0 ELSE entry.first, size |-> size]
          /\ outside' = Leaves(size)
          /\ next' = IF Leaves(size) THEN next
                     ELSE [c \in Cluster |-> IF c \in Drop(size) THEN 0 ELSE Marked(size)[c]]
          /\ data' = IF Leaves(size) THEN data
                     ELSE [c \in DataCluster |-> [i \in Offset |->
                            IF c \in Drop(size) \/ (c = CutAt(size) /\ i >= From(size)) THEN Blank
                            ELSE data[c][i]]]
          /\ handle' = StaleBut({})
          /\ changes' = changes + 1
          /\ content' = SubSeq(content, 1, size)
          /\ nextFree' = nextFree /\ astray' = astray
      BY Zenon DEF TruncateDown, Goes, Leaves, Drop, Marked, From
    <2>2. QED
      BY <1>1, <2>1, Zenon
  <1>what. /\ marked = [next EXCEPT ![cut + 1] = Eoc] /\ leaves \in BOOLEAN
           /\ \A x : x \in drop <=> x # Eoc /\ \E i \in 0 .. Eoc : x = Nth(marked, after, i)
           /\ ~ leaves => cut \in DataCluster /\ (after = Eoc \/ 0 \notin drop)
    <2>1. marked = [next EXCEPT ![cut + 1] = Eoc]
      BY <1>1 DEF Marked
    <2>2. \A x : x \in Drop(size) <=> x # Eoc /\ \E i \in 0 .. Eoc : x = Nth(Marked(size), next[CutAt(size)], i)
      BY DEF Drop
    <2>3. \A x : x \in drop <=> x # Eoc /\ \E i \in 0 .. Eoc : x = Nth(marked, after, i)
      BY <1>1, <2>2
    <2>4. leaves \in BOOLEAN
      BY <1>1 DEF Leaves
    <2>5. ~ leaves => cut \in DataCluster /\ (after = Eoc \/ 0 \notin drop)
      BY <1>1 DEF Leaves
    <2>6. QED
      BY <2>1, <2>3, <2>4, <2>5
  <1>3. PICK m : m = Blocks(size)
    OBVIOUS
  <1>4. /\ TypeOK /\ Linked(next, nextFree) /\ Rooted(nextFree, entry)
        /\ Holds(next, data, entry, content) /\ TableOK(next) /\ nextFree \in DataCluster
        /\ content \in Seq(Byte) /\ Len(content) <= MaxSize
    BY <1>2 DEF IInv, TypeOK, TableOK
  <1>5. /\ size \in Nat /\ entry.size \in Nat /\ m \in Nat /\ m <= Blocks(entry.size)
        /\ Blocks(entry.size) \in Nat /\ entry.first \in Cluster
    <2>1. size \in Nat /\ entry.size \in Nat /\ entry.first \in Cluster
      BY <1>4, Sizes DEF TypeOK
    <2>2. QED
      BY <1>2, <1>3, <2>1, BlocksMonotone, BlocksAre
  <1>6. \A q \in 0 .. m - 1 :
           /\ Nth(next, entry.first, q) \in First .. nextFree - 1
           /\ Nth(next, entry.first, q) \in DataCluster
    <2>1. \A q \in 0 .. m - 1 : q \in 0 .. Blocks(entry.size) - 1
      BY <1>5
    <2>2. QED
      BY <1>4, <1>5, <2>1, BlocksHeld
  <1>7. ASSUME ~ leaves
        PROVE  /\ cut \in First .. nextFree - 1 /\ cut \in DataCluster /\ cut + 1 \in Cluster
               /\ 0 \notin drop
    <2>1. cut \in DataCluster /\ (after = Eoc \/ 0 \notin drop)
      BY <1>what, <1>7
    <2>2. cut \in First .. nextFree - 1 \cup {0, Eoc}
      <3>1. cut = Nth(next, entry.first, m)
        BY <1>1, <1>3 DEF CutAt
      <3>2. entry.first \in First .. nextFree - 1 \cup {0, Eoc}
        BY <1>4 DEF Rooted
      <3>3. QED
        BY <1>4, <1>5, <3>1, <3>2, WalkRange
    <2>3. cut \in First .. nextFree - 1 /\ cut + 1 \in Cluster
      BY <1>4, <2>1, <2>2, Sizes DEF DataCluster, Cluster, First
    <2>4. CASE after = Eoc
      <3>1. Nth(marked, after, 0) = Eoc
        BY <2>4, NthSteps
      <3>2. \A i \in Nat : Nth(marked, after, i) = Eoc
        BY <3>1, NthEnd
      <3>3. 0 \notin drop
        <4> SUFFICES ASSUME 0 \in drop PROVE FALSE
          OBVIOUS
        <4>1. PICK i \in 0 .. Eoc : 0 = Nth(marked, after, i)
          BY <1>what
        <4>2. i \in Nat
          BY Sizes
        <4>3. QED
          BY <3>2, <4>1, <4>2, Sizes
      <3>4. QED
        BY <2>1, <2>3, <3>3
    <2>5. QED
      BY <2>1, <2>3, <2>4
  <1>8. ASSUME ~ leaves
        PROVE  /\ TableOK(marked)
               /\ \A c \in Cluster : marked[c] = IF c = cut + 1 THEN Eoc ELSE next[c]
               /\ TableOK(next')
               /\ \A c \in Cluster : next'[c] = IF c \in drop THEN 0 ELSE marked[c]
    <2>1. /\ TableOK(marked)
          /\ \A c \in Cluster : marked[c] = IF c = cut + 1 THEN Eoc ELSE next[c]
      BY <1>what, <1>4, <1>7, <1>8, Sizes DEF TableOK
    <2>2. next' = [c \in Cluster |-> IF c \in drop THEN 0 ELSE marked[c]]
      BY <1>2, <1>8
    <2>3. TableOK(next')
      BY <2>1, <2>2, Sizes DEF TableOK
    <2>4. QED
      BY <2>1, <2>2, <2>3
  <1>9. TableOK(next') /\ Linked(next', nextFree)
    <2>1. CASE leaves
      BY <1>2, <1>4, <2>1
    <2>2. CASE ~ leaves
      <3>1. \A x : x \in drop <=> x # Eoc /\ \E i \in 0 .. Eoc : x = Nth(marked, next[cut], i)
        BY <1>1, <1>what
      <3>2. PICK u : u = next'
        OBVIOUS
      <3>3. Linked(u, nextFree)
        BY <1>4, <1>7, <1>8, <2>2, <3>1, <3>2, CutTable
      <3>4. QED
        BY <1>8, <2>2, <3>2, <3>3
    <2>3. QED
      BY <2>1, <2>2
  <1>10. \A q \in 0 .. m - 1 :
            /\ Nth(next', entry.first, q) = Nth(next, entry.first, q)
            /\ data'[Nth(next, entry.first, q)] = data[Nth(next, entry.first, q)]
    <2>1. CASE leaves
      BY <1>2, <2>1
    <2>2. CASE ~ leaves
      <3>1. \A x : x \in drop <=> x # Eoc /\ \E i \in 0 .. Eoc : x = Nth(marked, next[cut], i)
        BY <1>1, <1>what
      <3>2. PICK u : u = next'
        OBVIOUS
      <3>3. drop \subseteq cut + 1 .. nextFree - 1
        BY <1>4, <1>7, <1>8, <2>2, <3>1, <3>2, CutTable
      <3>4. cut = Nth(next, entry.first, m)
        BY <1>1, <1>3 DEF CutAt
      <3>5. \A q \in 0 .. m : Nth(next, entry.first, q) \in DataCluster
        <4>1. \A q \in 0 .. m : q = m \/ q \in 0 .. m - 1
          BY <1>5
        <4>2. QED
          BY <1>6, <1>7, <2>2, <3>4, <4>1
      <3>6. ASSUME NEW q \in 0 .. m - 1
            PROVE  /\ Nth(next, entry.first, q) < cut
                   /\ Nth(next, entry.first, q) \in Cluster
                   /\ Nth(next, entry.first, q) \notin drop
                   /\ Nth(next, entry.first, q) # cut + 1
        <4>1. q \in 0 .. m /\ m \in 0 .. m /\ q < m
          BY <1>5
        <4>2. Nth(next, entry.first, q) < Nth(next, entry.first, m)
          BY <1>4, <1>5, <3>5, <4>1, WalkGrows
        <4>3. PICK c \in DataCluster : c = Nth(next, entry.first, q)
          BY <1>6
        <4>4. c < cut /\ cut \in Nat /\ c \in Nat /\ c \in Cluster
          BY <1>7, <2>2, <3>4, <4>2, <4>3, Sizes DEF DataCluster, Cluster
        <4>5. QED
          BY <3>3, <4>3, <4>4
      <3>7. \A q \in 0 .. m - 1 : u[Nth(next, entry.first, q)] = next[Nth(next, entry.first, q)]
        BY <1>8, <2>2, <3>2, <3>6
      <3>8. Agree(next, u, entry.first, m)
        <4>1. \A q \in Nat : q < m => q \in 0 .. m - 1
          BY <1>5
        <4>2. QED
          BY <3>7, <4>1 DEF Agree
      <3>9. \A q \in 0 .. m : Nth(u, entry.first, q) = Nth(next, entry.first, q)
        BY <1>5, <3>8, NthSame
      <3>10. ASSUME NEW q \in 0 .. m - 1
             PROVE  data'[Nth(next, entry.first, q)] = data[Nth(next, entry.first, q)]
        <4>1. PICK c \in DataCluster : c = Nth(next, entry.first, q) /\ c \notin drop /\ c # cut
          <5>1. PICK c \in DataCluster : c = Nth(next, entry.first, q)
            BY <1>6
          <5>2. c < cut /\ c \in Nat /\ c \notin drop
            BY <3>6, <5>1, Sizes DEF DataCluster
          <5>3. QED
            BY <5>1, <5>2
        <4>2. data' = [k \in DataCluster |-> [i \in Offset |->
                         IF k \in drop \/ (k = cut /\ i >= from) THEN Blank ELSE data[k][i]]]
          BY <1>2, <2>2
        <4>3. data'[c] = [i \in Offset |-> data[c][i]]
          BY <4>1, <4>2
        <4>4. data[c] = [i \in Offset |-> data[c][i]]
          BY <1>4 DEF TypeOK
        <4>5. QED
          BY <4>1, <4>3, <4>4
      <3>11. \A q \in 0 .. m - 1 : q \in 0 .. m
        BY <1>5
      <3>12. QED
        BY <3>2, <3>9, <3>10, <3>11
    <2>3. QED
      BY <2>1, <2>2
  <1>11. entry'.size = size /\ entry'.first = (IF size = 0 THEN 0 ELSE entry.first)
    BY <1>2
  <1>12. Holds(next', data', entry', content')
    <2>1. PICK u, d, ef : u = next' /\ d = data' /\ ef = entry'
      OBVIOUS
    <2>2. Holds(u, d, ef, SubSeq(content, 1, size))
      <3>1. \A q \in 0 .. Blocks(size) - 1 :
               /\ Nth(u, entry.first, q) = Nth(next, entry.first, q)
               /\ d[Nth(next, entry.first, q)] = data[Nth(next, entry.first, q)]
        BY <1>3, <1>10, <2>1
      <3>2. ef.size = size /\ (size # 0 => ef.first = entry.first)
        BY <1>11, <2>1
      <3>3. QED
        BY <1>2, <1>4, <1>5, <3>1, <3>2, HoldsLess
    <2>3. QED
      BY <1>2, <2>1, <2>2
  <1>13. Rooted(nextFree, entry')
    <2>1. size # 0 => entry.size # 0
      BY <1>2, <1>5
    <2>2. entry.first # 0 <=> entry.size # 0
      BY <1>4 DEF Rooted
    <2>3. QED
      BY <1>4, <1>11, <2>1, <2>2 DEF Rooted
  <1>14. handle' \in [Handle -> FatFile] /\ Followed'
    <2>1. /\ handle' \in [Handle -> FatFile]
          /\ \A h \in Handle : ~ Fresh(handle'[h])
      BY <1>2, <1>4, StaleType
    <2>2. QED
      BY <2>1 DEF Followed
  <1>15. data' \in [DataCluster -> [Offset -> Byte]]
    <2>1. data \in [DataCluster -> [Offset -> Byte]] /\ Blank \in Byte
      BY <1>4, Sizes DEF TypeOK, Blank, Byte
    <2>2. CASE leaves
      BY <1>2, <2>1, <2>2
    <2>3. CASE ~ leaves
      <3>1. data' = [c \in DataCluster |-> [i \in Offset |->
                       IF c \in drop \/ (c = cut /\ i >= from) THEN Blank ELSE data[c][i]]]
        BY <1>2, <2>3
      <3>2. \A c \in DataCluster, i \in Offset :
               (IF c \in drop \/ (c = cut /\ i >= from) THEN Blank ELSE data[c][i]) \in Byte
        BY <2>1
      <3>3. QED
        BY <3>1, <3>2
    <2>4. QED
      BY <2>2, <2>3
  <1>16. content' \in Seq(Byte) /\ Len(content') <= MaxSize
    <2>1. size <= Len(content) /\ content' = SubSeq(content, 1, size)
      BY <1>2, <1>4 DEF Holds
    <2>2. SubSeq(content, 1, size) \in Seq(Byte) /\ Len(SubSeq(content, 1, size)) = size
      BY <1>4, <1>5, <2>1, StartOf
    <2>3. QED
      BY <2>1, <2>2
  <1>17. entry' \in [first : Cluster, size : 0 .. MaxSize]
    BY <1>2, <1>5, Sizes DEF Cluster
  <1>18. changes' \in 0 .. MaxChanges
    BY <1>2, <1>4, Sizes DEF TypeOK
  <1>19. outside' \in BOOLEAN /\ astray' \in BOOLEAN
    <2>1. leaves \in BOOLEAN
      BY <1>what
    <2>2. outside' = leaves /\ astray' = astray
      BY <1>2
    <2>3. astray \in BOOLEAN
      BY <1>4 DEF TypeOK
    <2>4. QED
      BY <2>1, <2>2, <2>3
  <1>20. TypeOK'
    BY <1>2, <1>4, <1>9, <1>14, <1>15, <1>16, <1>17, <1>18, <1>19 DEF TypeOK, TableOK
  <1>21. QED
    BY <1>2, <1>9, <1>12, <1>13, <1>14, <1>20 DEF IInv

-----------------------------------------------------------------------------
\* A chain is at its end from one place on, and nowhere before it.
LEMMA NotEnded ==
  ASSUME NEW table, NEW c, NEW j \in Nat, Nth(table, c, j + 1) = Eoc, Nth(table, c, j) # Eoc
  PROVE  \A q \in Nat : Nth(table, c, q) # Eoc <=> q <= j
  <1> SUFFICES ASSUME NEW q \in Nat PROVE Nth(table, c, q) # Eoc <=> q <= j
    OBVIOUS
  <1>1. ASSUME q <= j, Nth(table, c, q) = Eoc PROVE FALSE
    BY <1>1, NthEnd
  <1>2. ASSUME ~ q <= j PROVE Nth(table, c, q) = Eoc
    <2>1. j + 1 \in Nat /\ j + 1 <= q
      BY <1>2
    <2>2. QED
      BY <2>1, NthEnd
  <1>3. QED
    BY <1>1, <1>2

LEMMA TruncateUpKeeps ==
  ASSUME IInv, NEW size \in 0 .. MaxSize, TruncateUp(size)
  PROVE  IInv'
  <1>1. PICK f, e : f = Opened /\ e = Extend(f, size, size)
    OBVIOUS
  <1>2. /\ ~ astray /\ changes < MaxChanges /\ entry.size < size /\ CanExtend(f, size)
        /\ next' = e.table /\ nextFree' = e.free
        /\ entry' = [first |-> e.file.first, size |-> size]
        /\ handle' = StaleBut({})
        /\ changes' = changes + 1
        /\ content' = [i \in 1 .. size |-> IF i <= Len(content) THEN content[i] ELSE Blank]
        /\ astray' = (\E b \in 0 .. Blocks(size) - 1 : Nth(e.table, e.file.first, b) = 0)
        /\ data' = data /\ outside' = outside
    BY <1>1 DEF TruncateUp, Goes
  <1>3. /\ TypeOK /\ Linked(next, nextFree) /\ Rooted(nextFree, entry)
        /\ Holds(next, data, entry, content) /\ TableOK(next) /\ nextFree \in DataCluster
        /\ content \in Seq(Byte) /\ next[nextFree] = Eoc
    BY <1>2 DEF IInv, TypeOK, TableOK, Linked
  <1>4. /\ size \in Nat \ {0} /\ entry.size \in Nat /\ nextFree \in Nat /\ Eoc \in Nat
        /\ entry.first \in Cluster /\ Len(content) = entry.size
    <2>1. entry.size \in Nat /\ entry.first \in Cluster /\ nextFree \in Nat
      BY <1>3, Sizes DEF TypeOK, DataCluster
    <2>2. QED
      BY <1>2, <1>3, <2>1, Sizes DEF Holds
  <1>5. f \in FatFile /\ f.first = entry.first /\ f.eoc = 0
    <2>1. 0 \in Cluster /\ 0 \in 0 .. MaxSize /\ 0 \in 0 .. Eoc /\ 0 \in 0 .. NoBlock
      BY Sizes DEF Cluster, NoBlock
    <2>2. QED
      BY <1>1, <1>3, <2>1 DEF TypeOK, Opened, FatFile
  <1>6. /\ e.table \in [Cluster -> 0 .. Eoc] /\ e.free \in DataCluster
        /\ e.free = nextFree + Blocks(size) /\ e.file \in FatFile
        /\ e.file.first = IF f.first = 0 THEN nextFree ELSE f.first
    BY <1>1, <1>2, <1>3, <1>4, <1>5, ExtendType
  <1>7. PICK m \in Nat : m = Blocks(size) /\ m # 0 /\ Blocks(entry.size) <= m
    <2>1. Blocks(size) \in Nat /\ Blocks(size) # 0
      BY <1>4, BlocksAre
    <2>2. Blocks(entry.size) <= Blocks(size)
      BY <1>2, <1>4, BlocksMonotone
    <2>3. QED
      BY <2>1, <2>2
  <1>8. Linked(e.table, e.free)
    <2>1. CASE f.first = 0
      BY <1>1, <1>2, <1>3, <1>4, <1>5, <2>1, ExtendEmpty
    <2>2. CASE f.first # 0
      <3>1. f.first \in First .. nextFree - 1
        BY <1>3, <1>5, <2>2 DEF Rooted
      <3>2. QED
        BY <1>1, <1>2, <1>3, <1>4, <1>5, <3>1, ExtendChain
    <2>3. QED
      BY <2>1, <2>2
  <1>9. ASSUME ~ astray', NEW q \in 0 .. m - 1
        PROVE  /\ Nth(e.table, e.file.first, q) \in DataCluster
               /\ q < Blocks(entry.size) =>
                    Nth(e.table, e.file.first, q) = Nth(next, entry.first, q)
    <2>1. CASE f.first = 0
      <3>1. Nth(e.table, nextFree, q) = nextFree + q
        BY <1>1, <1>2, <1>3, <1>4, <1>5, <1>7, <2>1, ExtendEmpty
      <3>2. nextFree + q \in DataCluster
        BY <1>3, <1>4, <1>6, <1>7 DEF DataCluster
      <3>3. Blocks(entry.size) = 0
        BY <1>3, <1>5, <2>1, BlocksAre DEF Rooted
      <3>4. QED
        BY <1>6, <2>1, <3>1, <3>2, <3>3
    <2>2. CASE f.first # 0
      <3>1. f.first \in First .. nextFree - 1 /\ e.file.first = f.first
        BY <1>3, <1>5, <1>6, <2>2 DEF Rooted
      <3>2. PICK j \in Nat :
                   /\ Nth(next, f.first, j) # Eoc /\ Nth(next, f.first, j + 1) = Eoc
                   /\ \A i \in 0 .. j : Nth(e.table, f.first, i) = Nth(next, f.first, i)
                   /\ \A i \in 1 .. m : Nth(e.table, f.first, j + i) = nextFree + i - 1
        <4>1. \E j \in Nat :
                   /\ Nth(next, f.first, j) # Eoc /\ Nth(next, f.first, j + 1) = Eoc
                   /\ Nth(Extend(f, size, size).table, f.first, j + Blocks(size)) =
                        Extend(f, size, size).file.eoc
                   /\ \A i \in 0 .. j : Nth(Extend(f, size, size).table, f.first, i) = Nth(next, f.first, i)
                   /\ \A i \in 1 .. Blocks(size) :
                        Nth(Extend(f, size, size).table, f.first, j + i) = nextFree + i - 1
          <5>1. f.eoc = 0 /\ size \in Nat \ {0}
            BY <1>4, <1>5
          <5>2. QED
            BY <1>2, <1>3, <1>5, <3>1, <5>1, ExtendChain
        <4>2. QED
          BY <1>1, <1>7, <4>1
      <3>3. CASE q <= j
        <4>1. q \in 0 .. j /\ q \in Nat
          BY <3>3
        <4>2. Nth(e.table, f.first, q) = Nth(next, f.first, q)
          BY <3>2, <4>1
        <4>3. Nth(next, f.first, q) \in First .. nextFree - 1 \cup {0, Eoc}
          BY <1>3, <3>1, <4>1, WalkRange
        <4>4. Nth(next, f.first, q) # Eoc
          BY <3>2, <3>3, <4>1, NotEnded
        <4>5. Nth(next, f.first, q) # 0
          BY <1>2, <1>7, <1>9, <3>1, <4>2
        <4>6. Nth(next, f.first, q) \in DataCluster
          BY <1>3, <4>3, <4>4, <4>5, Sizes DEF DataCluster, First
        <4>7. QED
          BY <1>5, <3>1, <4>2, <4>6
      <3>4. CASE ~ q <= j
        <4>1. q - j \in 1 .. m /\ j + (q - j) = q /\ q \in Nat
          BY <1>7, <3>4
        <4>2. Nth(e.table, f.first, q) = nextFree + (q - j) - 1
          BY <3>2, <4>1
        <4>3. nextFree + (q - j) - 1 \in DataCluster
          BY <1>3, <1>4, <1>6, <1>7, <4>1 DEF DataCluster
        <4>4. ASSUME q < Blocks(entry.size) PROVE FALSE
          <5>0. Blocks(entry.size) \in Nat
            BY <1>4, BlocksAre
          <5>1. q \in 0 .. Blocks(entry.size) - 1
            BY <4>1, <4>4, <5>0
          <5>2. Nth(next, entry.first, q) \in DataCluster
            BY <1>3, <1>4, <5>1, BlocksHeld
          <5>3. Nth(next, entry.first, q) = Eoc
            BY <1>5, <3>2, <3>4, <4>1, NotEnded
          <5>4. QED
            BY <5>2, <5>3, Sizes DEF DataCluster
        <4>5. QED
          BY <3>1, <4>2, <4>3, <4>4
      <3>5. QED
        BY <3>3, <3>4
    <2>3. QED
      BY <2>1, <2>2
  <1>10. PICK s : s = [i \in 1 .. size |-> IF i <= Len(content) THEN content[i] ELSE Blank]
    OBVIOUS
  <1>11. /\ s \in Seq(Byte) /\ Len(s) = size /\ content' = s
         /\ \A i \in 1 .. size : s[i] = IF i <= Len(content) THEN content[i] ELSE Blank
    <2>1. \A i \in 1 .. size : (IF i <= Len(content) THEN content[i] ELSE Blank) \in Byte
      <3>1. Blank \in Byte
        BY Sizes DEF Blank, Byte
      <3>2. \A i \in 1 .. size : i <= Len(content) => content[i] \in Byte
        BY <1>3, ElementOf
      <3>3. QED
        BY <3>1, <3>2
    <2>2. s \in Seq(Byte) /\ Len(s) = size
      BY <1>4, <1>10, <2>1
    <2>3. QED
      BY <1>2, <1>10, <2>2
  <1>12. entry'.first = e.file.first /\ entry'.size = size
    BY <1>2
  <1>13. ASSUME ~ astray' PROVE Holds(e.table, data, entry', s)
    <2>1. ASSUME NEW i \in 1 .. size
          PROVE  LET k == Nth(e.table, e.file.first, (i - 1) \div BlockSize)
                 IN  k \in DataCluster /\ (s[i] # Blank => data[k][(i - 1) % BlockSize] = s[i])
      <3>1. PICK q \in 0 .. m - 1 : q = (i - 1) \div BlockSize
        <4>1. i - 1 \in Nat /\ i - 1 < size
          BY <1>4
        <4>2. QED
          BY <1>4, <1>7, <4>1, InBlocks
      <3>2. Nth(e.table, e.file.first, q) \in DataCluster
        BY <1>9, <1>13
      <3>3. ASSUME s[i] # Blank
            PROVE  data[Nth(e.table, e.file.first, q)][(i - 1) % BlockSize] = s[i]
        <4>1. i \in 1 .. Len(content) /\ s[i] = content[i]
          BY <1>4, <1>11, <3>3
        <4>2. q < Blocks(entry.size)
          <5>1. i - 1 \in Nat /\ i - 1 < entry.size
            BY <1>4, <4>1
          <5>2. q \in 0 .. Blocks(entry.size) - 1
            BY <1>4, <3>1, <5>1, InBlocks
          <5>3. QED
            BY <1>4, <5>2, BlocksAre, SMTT(60)
        <4>3. Nth(e.table, e.file.first, q) = Nth(next, entry.first, q)
          BY <1>9, <1>13, <4>2
        <4>4. data[Nth(next, entry.first, q)][(i - 1) % BlockSize] = content[i]
          BY <1>3, <3>1, <3>3, <4>1 DEF Holds
        <4>5. QED
          BY <4>1, <4>3, <4>4
      <3>4. QED
        BY <3>1, <3>2, <3>3
    <2>2. QED
      BY <1>11, <1>12, <2>1 DEF Holds
  <1>14. Rooted(e.free, entry')
    <2>1. e.file.first \in First .. e.free - 1 /\ e.file.first # 0
      <3>1. CASE f.first = 0
        BY <1>3, <1>4, <1>6, <1>7, <3>1 DEF DataCluster, First
      <3>2. CASE f.first # 0
        <4>1. f.first \in First .. nextFree - 1
          BY <1>3, <1>5, <3>2 DEF Rooted
        <4>2. QED
          BY <1>4, <1>6, <1>7, <3>2, <4>1 DEF First
      <3>3. QED
        BY <3>1, <3>2
    <2>2. QED
      BY <1>4, <1>12, <2>1 DEF Rooted
  <1>15. handle' \in [Handle -> FatFile] /\ Followed'
    <2>1. /\ handle' \in [Handle -> FatFile]
          /\ \A h \in Handle : ~ Fresh(handle'[h])
      BY <1>2, <1>3, StaleType
    <2>2. QED
      BY <2>1 DEF Followed
  <1>16. entry' \in [first : Cluster, size : 0 .. MaxSize]
    <2>1. e.file.first \in Cluster
      BY <1>6 DEF FatFile
    <2>2. QED
      BY <1>2, <2>1
  <1>17. changes' \in 0 .. MaxChanges
    BY <1>2, <1>3, Sizes DEF TypeOK
  <1>18. outside' \in BOOLEAN /\ astray' \in BOOLEAN
    <2>1. outside \in BOOLEAN
      BY <1>3 DEF TypeOK
    <2>2. QED
      BY <1>2, <2>1
  <1>19. TypeOK'
    <2>1. content' \in Seq(Byte) /\ Len(content') <= MaxSize
      BY <1>11, Sizes
    <2>2. QED
      BY <1>2, <1>3, <1>6, <1>15, <1>16, <1>17, <1>18, <2>1 DEF TypeOK
  <1>20. QED
    BY <1>2, <1>8, <1>11, <1>13, <1>14, <1>15, <1>19 DEF IInv

-----------------------------------------------------------------------------
\* A write that the positions serve and that adds clusters starts at the end of
\* the file.
LEMMA AtTheEnd ==
  ASSUME NEW f \in FatFile, NEW offset \in Nat, NEW n \in 1 .. BlockSize,
         (offset % BlockSize) + n <= BlockSize, ServesWrite(f, offset)
  PROVE  IF NeedsClusters(f, offset, n) THEN offset = f.size ELSE offset < f.size
  <1>1. f.size \in Nat /\ offset <= f.size /\ Blocks(f.size) \in Nat
    BY Sizes, BlocksAre DEF ServesWrite, FatFile
  <1>2. CASE offset < f.size
    <2>1. Blocks(f.size) # 0
      BY <1>1, <1>2, BlocksAre
    <2>2. PICK k \in Nat, b \in Nat : Blocks(f.size) = k + 1 /\ b = BlockSize
      <3>1. Blocks(f.size) - 1 \in Nat /\ Blocks(f.size) = (Blocks(f.size) - 1) + 1
        BY <1>1, <2>1
      <3>2. QED
        BY <3>1, FileAssumption
    <2>3. (k + 1) * b = k * b + b /\ k * b \in Nat
      BY <2>2
    <2>4. offset % BlockSize \in Nat
      BY Divided, FileAssumption
    <2>5. ~ ((offset % BlockSize) + n > Blocks(f.size) * BlockSize)
      <3>1. Blocks(f.size) * BlockSize = k * b + b
        BY <2>2, <2>3
      <3>2. PICK r \in Nat, m \in Nat : r = offset % BlockSize /\ m = n
        BY <2>4
      <3>3. r + m <= b
        BY <2>2, <3>2
      <3>4. QED
        BY <2>2, <2>3, <3>1, <3>2, <3>3
    <2>6. QED
      BY <1>1, <1>2, <2>5 DEF NeedsClusters
  <1>3. CASE ~ offset < f.size
    BY <1>1, <1>3 DEF NeedsClusters
  <1>4. QED
    BY <1>2, <1>3

\* The cluster that a first write of a handle looks for, and that of a later one.
LEMMA TargetIs ==
  ASSUME NEW e, NEW offset \in Nat, e.file.first \in Nat
  PROVE  /\ e.file.absWrite = 0 /\ (offset = 0 \/ offset % BlockSize # 0) =>
              WriteTarget(e, offset) = Nth(e.table, e.file.first, offset \div BlockSize)
         /\ \A i \in Nat : e.file.absWrite # 0 /\ e.file.absWrite = Nth(e.table, e.file.first, i)
                            /\ offset \div BlockSize = i + 1 =>
              WriteTarget(e, offset) = Nth(e.table, e.file.first, offset \div BlockSize)
  <1>1. ASSUME e.file.absWrite = 0, offset = 0
        PROVE  WriteTarget(e, offset) = Nth(e.table, e.file.first, offset \div BlockSize)
    <2>1. Blocks(0) = 0
      BY BlocksAre
    <2>2. offset \div BlockSize = 0
      <3>1. offset \div BlockSize \in Nat /\ offset \div BlockSize <= offset
        BY Divided
      <3>2. QED
        BY <1>1, <3>1
    <2>3. QED
      BY <1>1, <2>1, <2>2 DEF WriteTarget, SeekBlock
  <1>2. ASSUME e.file.absWrite = 0, offset % BlockSize # 0
        PROVE  WriteTarget(e, offset) = Nth(e.table, e.file.first, offset \div BlockSize)
    <2>1. (offset % BlockSize) + 1 <= BlockSize /\ 1 \in 1 .. BlockSize
      <3>1. offset % BlockSize \in 0 .. BlockSize - 1 /\ BlockSize \in Nat
        BY Divided, FileAssumption
      <3>2. QED
        BY <3>1
    <2>2. Blocks(offset) = (offset \div BlockSize) + 1
      BY <1>2, <2>1, InOneBlock
    <2>3. offset \div BlockSize \in Nat
      BY Divided
    <2>4. Blocks(offset) # 0 /\ Blocks(offset) - 1 = offset \div BlockSize
      BY <2>2, <2>3
    <2>5. QED
      BY <1>2, <2>4 DEF WriteTarget, SeekBlock
  <1>3. ASSUME NEW i \in Nat, e.file.absWrite # 0,
               e.file.absWrite = Nth(e.table, e.file.first, i), offset \div BlockSize = i + 1
        PROVE  WriteTarget(e, offset) = Nth(e.table, e.file.first, offset \div BlockSize)
    <2>1. 1 \in Nat
      OBVIOUS
    <2>2. Nth(e.table, Nth(e.table, e.file.first, i), 1) = Nth(e.table, e.file.first, i + 1)
      BY <2>1, NthFrom
    <2>3. QED
      BY <1>3, <2>2 DEF WriteTarget
  <1>4. QED
    BY <1>1, <1>2, <1>3

\* What a write finds after the clusters it needs were added: the chain as it
\* was in the blocks the file has, the cluster c as the b-th of it, and the end
\* of it, where it is known.
Placed(e, f, b, c) ==
    /\ TableOK(e.table) /\ e.free \in DataCluster /\ Linked(e.table, e.free)
    /\ e.file.first \in First .. e.free - 1
    /\ c = Nth(e.table, e.file.first, b) /\ c \in DataCluster
    /\ \A q \in 0 .. Blocks(f.size) - 1 : Nth(e.table, e.file.first, q) = Nth(next, f.first, q)
    /\ e.file.eoc # 0 => /\ e.table[e.file.eoc] = Eoc /\ e.file.eoc \in First .. e.free - 1
                         /\ \E j \in Nat : Nth(e.table, e.file.first, j) = e.file.eoc

\* A write in the blocks the file has.
LEMMA WritesInside ==
  ASSUME IInv, ~ astray, NEW f \in FatFile, Follows(f, next, nextFree, entry),
         NEW offset \in Nat, offset < f.size, ServesWrite(f, offset),
         NEW e, e.table = next, e.free = nextFree, e.file.first = f.first,
         e.file.eoc = f.eoc, e.file.absWrite = f.absWrite
  PROVE  /\ Placed(e, f, offset \div BlockSize, WriteTarget(e, offset))
         /\ offset \div BlockSize \in 0 .. Blocks(f.size) - 1
  <1>1. /\ TypeOK /\ Linked(next, nextFree) /\ Rooted(nextFree, entry)
        /\ Holds(next, data, entry, content) /\ TableOK(next) /\ nextFree \in DataCluster
    BY DEF IInv, TypeOK, TableOK
  <1>2. /\ f.size \in Nat /\ f.size # 0 /\ f.first = entry.first /\ f.size = entry.size
        /\ f.first \in Nat /\ f.written \in Nat
    BY Sizes DEF FatFile, Follows, Cluster
  <1>3. f.first \in First .. nextFree - 1
    BY <1>1, <1>2 DEF Rooted
  <1>4. PICK b : b = offset \div BlockSize
    OBVIOUS
  <1>5. b \in 0 .. Blocks(f.size) - 1 /\ b \in Nat
    <2>1. offset \div BlockSize \in 0 .. Blocks(f.size) - 1
      BY <1>2, InBlocks
    <2>2. QED
      BY <1>4, <2>1
  <1>6. Nth(next, f.first, b) \in DataCluster
    BY <1>1, <1>2, <1>5, BlocksHeld
  <1>7. WriteTarget(e, offset) = Nth(next, f.first, b)
    <2>1. CASE f.absWrite = 0
      <3>1. offset = 0 \/ offset % BlockSize # 0
        BY <2>1 DEF ServesWrite
      <3>2. QED
        BY <1>2, <1>4, <2>1, <3>1, TargetIs
    <2>2. CASE f.absWrite # 0
      <3>1. f.absWrite = Nth(next, f.first, f.written)
        BY <2>2 DEF Follows
      <3>2. offset \div BlockSize = f.written + 1
        BY <2>2 DEF ServesWrite
      <3>3. QED
        BY <1>2, <1>4, <2>2, <3>1, <3>2, TargetIs
    <2>3. QED
      BY <2>1, <2>2
  <1>8. f.eoc # 0 => /\ next[f.eoc] = Eoc /\ f.eoc \in First .. nextFree - 1
                     /\ \E j \in Nat : Nth(next, f.first, j) = f.eoc
    BY DEF Follows
  <1>9. QED
    BY <1>1, <1>3, <1>4, <1>5, <1>6, <1>7, <1>8 DEF Placed

\* A write at the end of the file: one cluster more, whether or not the last
\* block of the file is full.
LEMMA WritesPast ==
  ASSUME IInv, ~ astray, NEW f \in FatFile, Follows(f, next, nextFree, entry),
         NEW offset \in Nat, offset = f.size, ServesWrite(f, offset),
         NEW n \in 1 .. BlockSize, (offset % BlockSize) + n <= BlockSize,
         offset + n \in 0 .. MaxSize, CanExtend(f, n),
         NEW e, e = Extend(f, n, f.size + n), WriteTarget(e, offset) # 0
  PROVE  /\ Placed(e, f, offset \div BlockSize, WriteTarget(e, offset))
         /\ Blocks(f.size) <= (offset \div BlockSize) + 1
         /\ offset \div BlockSize <= Blocks(f.size)
  <1>1. /\ TypeOK /\ Linked(next, nextFree) /\ Rooted(nextFree, entry)
        /\ Holds(next, data, entry, content) /\ TableOK(next) /\ nextFree \in DataCluster
        /\ next[nextFree] = Eoc
    BY DEF IInv, TypeOK, TableOK, Linked
  <1>2. /\ f.size \in Nat /\ f.first = entry.first /\ f.size = entry.size
        /\ f.first \in Nat /\ f.written \in Nat /\ nextFree \in Nat /\ n \in Nat \ {0}
        /\ f.size + n \in 0 .. MaxSize /\ Eoc \in Nat
    <2>1. BlockSize \in Nat
      BY FileAssumption
    <2>2. QED
      BY <1>1, <2>1, Sizes DEF FatFile, Follows, Cluster, DataCluster
  <1>3. Blocks(n) = 1 /\ Blocks(offset + n) = (offset \div BlockSize) + 1
    BY InOneBlock
  <1>4. PICK b \in Nat : b = offset \div BlockSize
    BY Divided
  <1>5. /\ offset % BlockSize # 0 => Blocks(f.size) = b + 1
        /\ offset % BlockSize = 0 => Blocks(f.size) = b
        /\ Blocks(f.size) \in Nat
    BY <1>2, <1>4, InOneBlock, BlocksAre
  <1>6. /\ e.table \in [Cluster -> 0 .. Eoc] /\ e.free = nextFree + 1 /\ e.free \in DataCluster
        /\ e.file.first = IF f.first = 0 THEN nextFree ELSE f.first
        /\ e.file.absWrite = f.absWrite /\ e.file.written = f.written
    BY <1>1, <1>2, <1>3, ExtendType
  <1>7. PICK c : c = WriteTarget(e, offset) /\ c # 0
    OBVIOUS
  <1>8. ASSUME f.first = 0 PROVE Placed(e, f, b, c)
    <2>1. f.eoc = 0 /\ f.absWrite = 0 /\ f.size = 0 /\ Blocks(f.size) = 0
      BY <1>1, <1>2, <1>8, BlocksAre DEF Follows, Rooted
    <2>2. b = 0
      BY <1>4, <1>5, <2>1
    <2>3. /\ Linked(e.table, e.free) /\ e.table[e.file.eoc] = Eoc
          /\ e.file.eoc \in First .. e.free - 1
          /\ Nth(e.table, nextFree, Blocks(n) - 1) = e.file.eoc
      BY <1>1, <1>2, <1>8, <2>1, ExtendEmpty
    <2>4. Nth(e.table, nextFree, 0) = e.file.eoc /\ Nth(e.table, nextFree, 0) = nextFree
      <3>1. Blocks(n) - 1 = 0
        BY <1>3
      <3>2. QED
        BY <2>3, <3>1, NthSteps
    <2>5. c = Nth(e.table, e.file.first, b)
      BY <1>2, <1>4, <1>6, <1>7, <1>8, <2>1, TargetIs
    <2>6. c = nextFree /\ e.file.first = nextFree /\ nextFree \in First .. e.free - 1
      <3>1. e.file.first = nextFree
        BY <1>6, <1>8
      <3>2. c = nextFree
        BY <2>2, <2>4, <2>5, <3>1
      <3>3. nextFree \in First .. e.free - 1
        BY <1>1, <1>6, Sizes DEF DataCluster, First
      <3>4. QED
        BY <3>1, <3>2, <3>3
    <2>7. \A q \in 0 .. Blocks(f.size) - 1 : Nth(e.table, e.file.first, q) = Nth(next, f.first, q)
      BY <2>1
    <2>8. \E j \in Nat : Nth(e.table, e.file.first, j) = e.file.eoc
      BY <2>4, <2>6
    <2>9. QED
      BY <1>1, <1>6, <2>3, <2>5, <2>6, <2>7, <2>8 DEF Placed, TableOK
  <1>9. ASSUME f.first # 0 PROVE Placed(e, f, b, c)
    <2>1. f.first \in First .. nextFree - 1 /\ e.file.first = f.first
      BY <1>1, <1>2, <1>6, <1>9 DEF Rooted
    <2>2. f.size # 0 /\ Blocks(f.size) # 0
      BY <1>1, <1>2, <1>9, BlocksAre DEF Rooted
    <2>3. f.eoc # 0 => /\ next[f.eoc] = Eoc /\ f.eoc < nextFree
                       /\ \E j \in Nat : Nth(next, f.first, j) = f.eoc
      BY <1>2 DEF Follows, First
    <2>4. /\ Linked(e.table, e.free) /\ e.table[e.file.eoc] = Eoc
          /\ e.file.eoc \in First .. e.free - 1
          /\ \E j \in Nat :
                   /\ Nth(next, f.first, j) # Eoc /\ Nth(next, f.first, j + 1) = Eoc
                   /\ Nth(e.table, f.first, j + Blocks(n)) = e.file.eoc
                   /\ \A i \in 0 .. j : Nth(e.table, f.first, i) = Nth(next, f.first, i)
                   /\ \A i \in 1 .. Blocks(n) : Nth(e.table, f.first, j + i) = nextFree + i - 1
      BY <1>1, <1>2, <2>1, <2>3, ExtendChain
    <2>5. PICK j \in Nat :
                   /\ Nth(next, f.first, j) # Eoc /\ Nth(next, f.first, j + 1) = Eoc
                   /\ Nth(e.table, f.first, j + 1) = e.file.eoc
                   /\ \A i \in 0 .. j : Nth(e.table, f.first, i) = Nth(next, f.first, i)
                   /\ Nth(e.table, f.first, j + 1) = nextFree
      <3>1. PICK j \in Nat :
                   /\ Nth(next, f.first, j) # Eoc /\ Nth(next, f.first, j + 1) = Eoc
                   /\ Nth(e.table, f.first, j + Blocks(n)) = e.file.eoc
                   /\ \A i \in 0 .. j : Nth(e.table, f.first, i) = Nth(next, f.first, i)
                   /\ \A i \in 1 .. Blocks(n) : Nth(e.table, f.first, j + i) = nextFree + i - 1
        BY <2>4
      <3>2. 1 \in 1 .. Blocks(n) /\ nextFree + 1 - 1 = nextFree
        BY <1>2, <1>3
      <3>3. Nth(e.table, f.first, j + 1) = nextFree + 1 - 1
        BY <3>1, <3>2
      <3>4. QED
        BY <1>3, <3>1, <3>2, <3>3
    <2>6. \A q \in 0 .. Blocks(f.size) - 1 : q <= j /\ q \in 0 .. j
      <3>1. ASSUME NEW q \in 0 .. Blocks(f.size) - 1 PROVE q <= j
        <4>1. q \in Nat /\ Nth(next, f.first, q) \in DataCluster
          BY <1>1, <1>2, <3>1, BlocksHeld
        <4>2. Nth(next, f.first, q) # Eoc
          BY <4>1, Sizes DEF DataCluster
        <4>3. QED
          BY <2>5, <4>1, <4>2, NotEnded
      <3>2. QED
        BY <3>1
    <2>7. \A q \in 0 .. Blocks(f.size) - 1 : Nth(e.table, e.file.first, q) = Nth(next, f.first, q)
      BY <2>1, <2>5, <2>6
    <2>8. c = Nth(e.table, f.first, b)
      <3>1. CASE f.absWrite = 0
        <4>1. offset = 0 \/ offset % BlockSize # 0
          BY <3>1 DEF ServesWrite
        <4>2. QED
          BY <1>2, <1>4, <1>6, <1>7, <2>1, <3>1, <4>1, TargetIs
      <3>2. CASE f.absWrite # 0
        <4>1. f.absWrite = Nth(next, f.first, f.written) /\ f.written < Blocks(f.size)
          BY <3>2 DEF Follows
        <4>2. f.written \in 0 .. Blocks(f.size) - 1
          BY <1>2, <1>5, <4>1
        <4>3. f.absWrite = Nth(e.table, e.file.first, f.written)
          BY <2>7, <4>1, <4>2
        <4>4. offset \div BlockSize = f.written + 1
          BY <3>2 DEF ServesWrite
        <4>5. QED
          BY <1>2, <1>4, <1>6, <1>7, <2>1, <3>2, <4>3, <4>4, TargetIs
      <3>3. QED
        BY <3>1, <3>2
    <2>9. c \in DataCluster
      <3>1. CASE b <= j
        <4>1. b \in 0 .. j
          BY <3>1
        <4>2. c = Nth(next, f.first, b)
          BY <2>5, <2>8, <4>1
        <4>3. c # Eoc
          BY <2>5, <3>1, <4>2, NotEnded
        <4>4. c \in First .. nextFree - 1 \cup {0, Eoc}
          BY <1>1, <2>1, <4>2, WalkRange
        <4>5. QED
          BY <1>1, <1>7, <4>3, <4>4, Sizes DEF DataCluster, First
      <3>2. CASE ~ b <= j
        <4>1. Blocks(f.size) - 1 \in 0 .. Blocks(f.size) - 1
          BY <1>5, <2>2
        <4>2. Blocks(f.size) - 1 <= j
          BY <2>6, <4>1
        <4>3. b = j + 1
          BY <1>4, <1>5, <3>2, <4>2
        <4>4. QED
          BY <1>1, <2>5, <2>8, <4>3
      <3>3. QED
        BY <3>1, <3>2
    <2>10. f.first \in First .. e.free - 1
      BY <1>2, <1>6, <2>1 DEF First
    <2>11. \E i \in Nat : Nth(e.table, e.file.first, i) = e.file.eoc
      <3>1. j + 1 \in Nat
        OBVIOUS
      <3>2. QED
        BY <2>1, <2>5, <3>1
    <2>12. QED
      BY <1>6, <2>1, <2>4, <2>7, <2>8, <2>9, <2>10, <2>11 DEF Placed, TableOK
  <1>10. QED
    BY <1>4, <1>5, <1>7, <1>8, <1>9

\* The clusters after a write of n bytes at an offset, with number w, in the
\* cluster k; the contents after it; and a chain that has the blocks of the file.
Put(u, k, offset, n, w) ==
    /\ \A d \in DataCluster : d # k => u[d] = data[d]
    /\ \A x \in Offset : u[k][x] =
          IF x \in offset % BlockSize .. (offset % BlockSize) + n - 1
          THEN <<w, offset - (offset % BlockSize) + x>> ELSE data[k][x]
Wrote(s, m, offset, n, w) ==
    /\ Len(s) = m
    /\ \A i \in 1 .. m : s[i] =
          IF i \in offset + 1 .. offset + n THEN <<w, i - 1>>
          ELSE IF i <= Len(content) THEN content[i] ELSE Blank
SameBlocks(table, first) ==
    \A q \in 0 .. Blocks(entry.size) - 1 :
        Nth(table, first, q) = Nth(next, entry.first, q) /\ Nth(next, entry.first, q) \in DataCluster

\* The bytes of a write in one block of the file, the cluster of that block
\* being no other block's.
LEMMA HoldsWritten ==
  ASSUME NEW offset \in Nat, NEW n \in 1 .. BlockSize, (offset % BlockSize) + n <= BlockSize,
         NEW w, entry.size \in Nat, Holds(next, data, entry, content),
         NEW table, NEW free \in DataCluster, NEW en, NEW k \in DataCluster, NEW u, NEW s,
         TableOK(table), Linked(table, free), en.first \in First .. free - 1,
         en.size = IF entry.size < offset + n THEN offset + n ELSE entry.size,
         k = Nth(table, en.first, offset \div BlockSize),
         offset \div BlockSize <= Blocks(entry.size), SameBlocks(table, en.first),
         Put(u, k, offset, n, w), Wrote(s, en.size, offset, n, w)
  PROVE  Holds(table, u, en, s)
  <1> USE DEF SameBlocks, Put, Wrote
  <1>1. PICK b \in Nat, from \in Nat : b = offset \div BlockSize /\ from = offset % BlockSize
    <2>1. offset \div BlockSize \in Nat /\ offset % BlockSize \in Nat
      <3>1. offset \div BlockSize \in Nat /\ offset % BlockSize \in 0 .. BlockSize - 1
        BY Divided
      <3>2. QED
        BY <3>1
    <2>2. QED
      BY <2>1
  <1>2. /\ Blocks(offset + n) = b + 1 /\ Blocks(entry.size) \in Nat /\ n \in Nat
        /\ \A i \in offset .. offset + n - 1 : i \div BlockSize = b
    <2>1. n \in Nat
      BY FileAssumption
    <2>2. QED
      BY <1>1, <2>1, InOneBlock, BlocksAre
  <1>3. /\ en.size \in Nat /\ Blocks(en.size) \in Nat
        /\ Blocks(en.size) = b + 1 \/ Blocks(en.size) = Blocks(entry.size)
    <2>1. en.size \in Nat
      BY <1>2
    <2>2. en.size = offset + n \/ en.size = entry.size
      OBVIOUS
    <2>3. QED
      BY <1>2, <2>1, <2>2, BlocksAre
  <1>4. \A q \in 0 .. Blocks(en.size) - 1 : q \in 0 .. Blocks(entry.size) - 1 \/ q = b
    BY <1>1, <1>2, <1>3
  <1>5. \A q \in 0 .. Blocks(en.size) - 1 : Nth(table, en.first, q) \in DataCluster
    BY <1>1, <1>4
  <1>6. \A q \in 0 .. b : Nth(table, en.first, q) \in DataCluster
    <2>1. \A q \in 0 .. b : q \in 0 .. Blocks(entry.size) - 1 \/ q = b
      BY <1>1, <1>2
    <2>2. QED
      BY <1>1, <2>1
  <1>7. \A q \in 0 .. Blocks(en.size) - 1 : q # b => Nth(table, en.first, q) # k
    <2>1. ASSUME NEW q \in 0 .. Blocks(en.size) - 1, q # b PROVE Nth(table, en.first, q) # k
      <3>1. CASE q < b
        <4>1. q \in 0 .. b /\ b \in 0 .. b
          BY <3>1
        <4>2. Nth(table, en.first, q) < Nth(table, en.first, b)
          BY <1>6, <3>1, <4>1, WalkGrows
        <4>3. Nth(table, en.first, q) \in Nat /\ k \in Nat
          BY <1>5, Sizes DEF DataCluster
        <4>4. QED
          BY <1>1, <4>2, <4>3
      <3>2. CASE b < q
        <4>1. PICK m : m = Blocks(en.size) - 1
          OBVIOUS
        <4>2. m \in Nat /\ q \in 0 .. m /\ b \in 0 .. m
          BY <1>3, <3>2, <4>1
        <4>3. \A i \in 0 .. m : Nth(table, en.first, i) \in DataCluster
          BY <1>5, <4>1
        <4>4. Nth(table, en.first, b) < Nth(table, en.first, q)
          BY <3>2, <4>2, <4>3, WalkGrows
        <4>5. Nth(table, en.first, q) \in Nat /\ k \in Nat
          BY <1>5, Sizes DEF DataCluster
        <4>6. QED
          BY <1>1, <4>4, <4>5
      <3>3. QED
        BY <1>3, <2>1, <3>1, <3>2
    <2>2. QED
      BY <2>1
  <1>8. ASSUME NEW i \in 1 .. Len(s)
        PROVE  LET d == Nth(table, en.first, (i - 1) \div BlockSize)
               IN  d \in DataCluster /\ (s[i] # Blank => u[d][(i - 1) % BlockSize] = s[i])
    <2>1. i - 1 \in Nat /\ i - 1 < en.size /\ i \in 1 .. en.size
      BY <1>3
    <2>2. PICK q \in 0 .. Blocks(en.size) - 1, x \in Offset :
                 q = (i - 1) \div BlockSize /\ x = (i - 1) % BlockSize
      <3>1. (i - 1) \div BlockSize \in 0 .. Blocks(en.size) - 1
        BY <1>3, <2>1, InBlocks
      <3>2. (i - 1) % BlockSize \in Offset
        BY <2>1, Divided DEF Offset
      <3>3. QED
        BY <3>1, <3>2
    <2>3. PICK d \in DataCluster : d = Nth(table, en.first, q)
      BY <1>5
    <2>4. ASSUME s[i] # Blank PROVE u[d][x] = s[i]
      <3>1. CASE i \in offset + 1 .. offset + n
        <4>1. i - 1 \in offset .. offset + n - 1
          BY <1>2, <3>1
        <4>2. q = b
          BY <1>2, <2>2, <4>1
        <4>3. x = from + ((i - 1) - offset)
          BY <1>1, <2>1, <2>2, <4>2, PlaceOf
        <4>4. x \in from .. from + n - 1 /\ offset - from + x = i - 1
          <5>1. PICK y \in Nat : y = i - 1
            BY <2>1
          <5>2. y \in offset .. offset + n - 1 /\ x = from + (y - offset)
            BY <4>1, <4>3, <5>1
          <5>3. x \in from .. from + n - 1 /\ offset - from + x = y
            BY <1>2, <5>1, <5>2
          <5>4. QED
            BY <5>1, <5>3
        <4>5. d = k
          BY <1>1, <2>3, <4>2
        <4>6. u[k][x] = <<w, offset - from + x>>
          BY <1>1, <4>4
        <4>7. s[i] = <<w, i - 1>>
          BY <2>1, <3>1
        <4>8. QED
          BY <4>4, <4>5, <4>6, <4>7
      <3>2. CASE i \notin offset + 1 .. offset + n
        <4>1. s[i] = content[i] /\ i <= Len(content)
          BY <2>1, <2>4, <3>2
        <4>2. i \in 1 .. Len(content) /\ i - 1 < entry.size
          BY <2>1, <4>1 DEF Holds
        <4>3. q \in 0 .. Blocks(entry.size) - 1
          <5>1. (i - 1) \div BlockSize \in 0 .. Blocks(entry.size) - 1
            BY <2>1, <4>2, InBlocks
          <5>2. QED
            BY <2>2, <5>1
        <4>4. d = Nth(next, entry.first, q)
          BY <2>3, <4>3
        <4>5. data[Nth(next, entry.first, q)][x] = content[i]
          BY <2>2, <2>4, <4>1, <4>2 DEF Holds
        <4>6. CASE d # k
          BY <4>1, <4>4, <4>5, <4>6
        <4>7. CASE d = k
          <5>1. q = b
            BY <1>7, <2>3, <4>7
          <5>2. x = from + ((i - 1) - offset)
            BY <1>1, <2>1, <2>2, <5>1, PlaceOf
          <5>3. ~ x \in from .. from + n - 1
            BY <1>1, <1>2, <2>1, <3>2, <5>2
          <5>4. u[k][x] = data[k][x]
            BY <1>1, <5>3
          <5>5. QED
            BY <4>1, <4>4, <4>5, <4>7, <5>4
        <4>8. QED
          BY <4>6, <4>7
      <3>3. QED
        BY <3>1, <3>2
    <2>5. QED
      BY <2>2, <2>3, <2>4
  <1>9. QED
    BY <1>8 DEF Holds

\* What Write makes of a handle's FatFile and the table, and its cluster.
WriteSize(f, offset, n) == IF f.size < offset + n THEN offset + n ELSE f.size
WriteOn(f, offset, n) ==
    IF NeedsClusters(f, offset, n) THEN Extend(f, n, f.size + n)
    ELSE Unextended([f EXCEPT !.size = WriteSize(f, offset, n)])
Positioned(f, g, c, offset) ==
    IF f.absWrite # 0 THEN g ELSE [g EXCEPT !.absWrite = c, !.written = offset \div BlockSize]
Longer(offset, n) == Max({Len(content), offset + n})

WritesAs(h, offset, n, f, e, c) ==
    /\ f = handle[h] /\ e = WriteOn(f, offset, n) /\ c = WriteTarget(e, offset)
    /\ ~ astray /\ f.open /\ changes < MaxChanges /\ (offset % BlockSize) + n <= BlockSize
    /\ NeedsClusters(f, offset, n) => CanExtend(f, n)
    /\ offset + n <= MaxSize /\ e.file.size <= MaxSize
    /\ next' = e.table /\ nextFree' = e.free
    /\ entry' = IF e.file.size = f.size THEN entry
                ELSE [first |-> e.file.first, size |-> e.file.size]
    /\ handle' = [IF e.file.size = f.size THEN handle ELSE StaleBut({h})
                      EXCEPT ![h] = Positioned(f, e.file, c, offset)]
    /\ outside' = (c \notin DataCluster)
    /\ data' = [d \in DataCluster |-> data'[d]]
    /\ \A d \in DataCluster : data'[d] = IF d = c THEN PutBytes(c, offset, n) ELSE data[d]
    /\ changes' = changes + 1
    /\ content' = [i \in 1 .. Longer(offset, n) |-> content'[i]]
    /\ \A i \in 1 .. Longer(offset, n) : content'[i] =
          IF i \in offset + 1 .. offset + n THEN <<changes + 1, i - 1>>
          ELSE IF i <= Len(content) THEN content[i] ELSE Blank
    /\ astray' = (~ ServesWrite(f, offset) \/ c = 0)

LEMMA WriteIs ==
  ASSUME NEW h \in Handle, NEW offset, NEW n, Write(h, offset, n)
  PROVE  \E f, e, c : WritesAs(h, offset, n, f, e, c)
  <1>1. /\ ~ astray /\ handle[h].open /\ changes < MaxChanges
        /\ (offset % BlockSize) + n <= BlockSize
        /\ NeedsClusters(handle[h], offset, n) => CanExtend(handle[h], n)
        /\ offset + n <= MaxSize /\ WriteOn(handle[h], offset, n).file.size <= MaxSize
        /\ next' = WriteOn(handle[h], offset, n).table
        /\ nextFree' = WriteOn(handle[h], offset, n).free
        /\ changes' = changes + 1
    BY DEF Write, WriteOn, WriteSize, Goes
  <1>2. entry' = IF WriteOn(handle[h], offset, n).file.size = handle[h].size THEN entry
                 ELSE [first |-> WriteOn(handle[h], offset, n).file.first,
                       size |-> WriteOn(handle[h], offset, n).file.size]
    BY DEF Write, WriteOn, WriteSize
  <1>3. handle' = [IF WriteOn(handle[h], offset, n).file.size = handle[h].size THEN handle
                   ELSE StaleBut({h})
                     EXCEPT ![h] = Positioned(handle[h], WriteOn(handle[h], offset, n).file,
                                     WriteTarget(WriteOn(handle[h], offset, n), offset), offset)]
    BY DEF Write, WriteOn, WriteSize, Positioned
  <1>4. /\ outside' = (WriteTarget(WriteOn(handle[h], offset, n), offset) \notin DataCluster)
        /\ astray' = (~ ServesWrite(handle[h], offset)
                      \/ WriteTarget(WriteOn(handle[h], offset, n), offset) = 0)
    BY DEF Write, WriteOn, WriteSize
  <1>5. data' = [d \in DataCluster |->
                   IF d = WriteTarget(WriteOn(handle[h], offset, n), offset)
                   THEN PutBytes(WriteTarget(WriteOn(handle[h], offset, n), offset), offset, n)
                   ELSE data[d]]
    BY DEF Write, WriteOn, WriteSize
  <1>6. content' = [i \in 1 .. Longer(offset, n) |->
                      IF i \in offset + 1 .. offset + n THEN <<changes + 1, i - 1>>
                      ELSE IF i <= Len(content) THEN content[i] ELSE Blank]
    BY DEF Write, Longer
  <1>7. PICK f, e, c : f = handle[h] /\ e = WriteOn(f, offset, n) /\ c = WriteTarget(e, offset)
    OBVIOUS
  <1>8. /\ data' = [d \in DataCluster |-> data'[d]]
        /\ \A d \in DataCluster : data'[d] = IF d = c THEN PutBytes(c, offset, n) ELSE data[d]
    BY <1>5, <1>7
  <1>9. /\ content' = [i \in 1 .. Longer(offset, n) |-> content'[i]]
        /\ \A i \in 1 .. Longer(offset, n) : content'[i] =
                  IF i \in offset + 1 .. offset + n THEN <<changes + 1, i - 1>>
                  ELSE IF i <= Len(content) THEN content[i] ELSE Blank
    BY <1>6
  <1>10. handle' = [IF e.file.size = f.size THEN handle ELSE StaleBut({h})
                              EXCEPT ![h] = Positioned(f, e.file, c, offset)]
    BY <1>3, <1>7
  <1>11. entry' = IF e.file.size = f.size THEN entry
                  ELSE [first |-> e.file.first, size |-> e.file.size]
    BY <1>2, <1>7
  <1>12. outside' = (c \notin DataCluster) /\ astray' = (~ ServesWrite(f, offset) \/ c = 0)
    BY <1>4, <1>7
  <1>13. /\ ~ astray /\ f.open /\ changes < MaxChanges
         /\ (offset % BlockSize) + n <= BlockSize
         /\ NeedsClusters(f, offset, n) => CanExtend(f, n)
         /\ offset + n <= MaxSize /\ e.file.size <= MaxSize
         /\ next' = e.table /\ nextFree' = e.free /\ changes' = changes + 1
    BY <1>1, <1>7
  <1>14. WritesAs(h, offset, n, f, e, c)
    BY <1>7, <1>8, <1>9, <1>10, <1>11, <1>12, <1>13 DEF WritesAs
  <1>15. QED
    BY <1>14

LEMMA WriteOnType ==
  ASSUME TypeOK, next[nextFree] = Eoc, NEW f \in FatFile, NEW offset \in 0 .. MaxSize,
         NEW n \in 1 .. BlockSize, NeedsClusters(f, offset, n) => CanExtend(f, n),
         offset + n <= MaxSize, NEW e, e = WriteOn(f, offset, n), e.file.size <= MaxSize
  PROVE  /\ e.table \in [Cluster -> 0 .. Eoc] /\ e.free \in DataCluster
         /\ e.file \in FatFile
         /\ e.file.open = f.open /\ e.file.stale = f.stale
         /\ e.file.absRead = f.absRead /\ e.file.read = f.read
         /\ e.file.absWrite = f.absWrite /\ e.file.written = f.written
  <1>1. /\ f.size \in Nat /\ offset \in Nat /\ n \in Nat \ {0} /\ MaxSize \in Nat
        /\ f.size <= MaxSize
    <2>1. n \in Nat \ {0}
      BY FileAssumption
    <2>2. QED
      BY <2>1, Sizes DEF FatFile
  <1>2. CASE NeedsClusters(f, offset, n)
    <2>1. PICK z \in Nat : z = f.size + n
      BY <1>1
    <2>2. e = Extend(f, n, z)
      BY <1>2, <2>1 DEF WriteOn
    <2>3. e.file.size = z
      BY <1>1, <1>2, <2>2, ExtendType
    <2>4. z \in 0 .. MaxSize
      BY <1>1, <2>1, <2>3
    <2>5. QED
      BY <1>1, <1>2, <2>2, <2>4, ExtendType
  <1>3. CASE ~ NeedsClusters(f, offset, n)
    <2>1. PICK z : z = WriteSize(f, offset, n)
      OBVIOUS
    <2>2. z \in 0 .. MaxSize
      BY <1>1, <2>1 DEF WriteSize
    <2>3. PICK g : g = [f EXCEPT !.size = z]
      OBVIOUS
    <2>4. /\ g \in FatFile /\ g.open = f.open /\ g.stale = f.stale
          /\ g.absRead = f.absRead /\ g.read = f.read
          /\ g.absWrite = f.absWrite /\ g.written = f.written
      BY <2>2, <2>3 DEF FatFile
    <2>5. e = Unextended(g)
      BY <1>3, <2>1, <2>3 DEF WriteOn
    <2>6. e.table = next /\ e.free = nextFree /\ e.file = g
      BY <2>5 DEF Unextended
    <2>7. QED
      BY <2>4, <2>6 DEF TypeOK
  <1>4. QED
    BY <1>2, <1>3

\* The position that a first write leaves.
LEMMA PositionedType ==
  ASSUME NEW f \in FatFile, NEW g \in FatFile, NEW c \in 0 .. Eoc, NEW offset \in 0 .. MaxSize
  PROVE  /\ Positioned(f, g, c, offset) \in FatFile
         /\ Positioned(f, g, c, offset).open = g.open
         /\ Positioned(f, g, c, offset).stale = g.stale
         /\ Positioned(f, g, c, offset).first = g.first
         /\ Positioned(f, g, c, offset).size = g.size
         /\ Positioned(f, g, c, offset).eoc = g.eoc
         /\ Positioned(f, g, c, offset).absRead = g.absRead
         /\ Positioned(f, g, c, offset).read = g.read
         /\ Positioned(f, g, c, offset).absWrite = IF f.absWrite # 0 THEN g.absWrite ELSE c
         /\ Positioned(f, g, c, offset).written =
              IF f.absWrite # 0 THEN g.written ELSE offset \div BlockSize
  <1>1. offset \div BlockSize \in 0 .. MaxSize
    <2>1. offset \in Nat /\ MaxSize \in Nat
      BY Sizes
    <2>2. offset \div BlockSize \in Nat /\ offset \div BlockSize <= offset
      BY <2>1, Divided
    <2>3. QED
      BY <2>1, <2>2
  <1>2. PICK b \in 0 .. MaxSize : b = offset \div BlockSize
    BY <1>1
  <1>3. PICK p : p = [g EXCEPT !.absWrite = c, !.written = b]
    OBVIOUS
  <1>4. /\ p \in FatFile /\ p.open = g.open /\ p.stale = g.stale /\ p.first = g.first
        /\ p.size = g.size /\ p.eoc = g.eoc /\ p.absRead = g.absRead /\ p.read = g.read
        /\ p.absWrite = c /\ p.written = b
    BY <1>3 DEF FatFile
  <1>5. Positioned(f, g, c, offset) = IF f.absWrite # 0 THEN g ELSE p
    BY <1>2, <1>3 DEF Positioned
  <1>6. QED
    BY <1>2, <1>4, <1>5

LEMMA TargetType ==
  ASSUME NEW e, e.table \in [Cluster -> 0 .. Eoc], e.file \in FatFile, NEW offset \in Nat
  PROVE  WriteTarget(e, offset) \in 0 .. Eoc
  <1>1. TableOK(e.table) /\ e.file.first \in 0 .. Eoc /\ e.file.absWrite \in 0 .. Eoc
    <2>1. e.file.first \in Cluster
      BY DEF FatFile
    <2>2. e.file.first \in 0 .. Eoc
      BY <2>1, Sizes DEF Cluster
    <2>3. QED
      BY <2>2 DEF TableOK, FatFile
  <1>2. PICK i \in Nat : i = IF Blocks(offset) = 0 THEN 0 ELSE Blocks(offset) - 1
    <2>1. Blocks(offset) \in Nat
      BY BlocksAre
    <2>2. QED
      BY <2>1
  <1>3. Nth(e.table, e.file.first, i) \in 0 .. Eoc
    BY <1>1, NthType
  <1>4. Nth(e.table, e.file.absWrite, 1) \in 0 .. Eoc
    <2>1. 1 \in Nat
      OBVIOUS
    <2>2. QED
      BY <1>1, <2>1, NthType
  <1>5. SeekBlock(e.table, e.file.first, offset) = Nth(e.table, e.file.first, i)
    BY <1>2 DEF SeekBlock
  <1>6. QED
    BY <1>3, <1>4, <1>5 DEF WriteTarget

\* The bytes of a write, and those of the cluster around them.
LEMMA PutIs ==
  ASSUME TypeOK, changes < MaxChanges, NEW offset \in 0 .. MaxSize, NEW n \in 1 .. BlockSize,
         offset + n <= MaxSize, NEW c \in DataCluster
  PROVE  /\ PutBytes(c, offset, n) \in [Offset -> Byte]
         /\ \A x \in Offset : PutBytes(c, offset, n)[x] =
              IF x \in offset % BlockSize .. (offset % BlockSize) + n - 1
              THEN <<changes + 1, offset - (offset % BlockSize) + x>> ELSE data[c][x]
  <1>1. PICK p : p = PutBytes(c, offset, n)
    OBVIOUS
  <1>2. /\ p = [x \in Offset |-> p[x]]
        /\ \A x \in Offset : p[x] =
              IF x \in offset % BlockSize .. (offset % BlockSize) + n - 1
              THEN <<changes + 1, offset - (offset % BlockSize) + x>> ELSE data[c][x]
    BY <1>1 DEF PutBytes
  <1>3. PICK from \in Nat : from = offset % BlockSize /\ from <= offset
    <2>1. offset \in Nat
      BY Sizes
    <2>2. PICK b \in Nat : b = BlockSize /\ b > 0
      BY FileAssumption
    <2>3. PICK q \in Nat, r \in 0 .. b - 1 : r = offset % b /\ offset = b * q + r
      BY <2>1, <2>2, Divided
    <2>4. b * q \in Nat
      BY <2>2
    <2>5. QED
      BY <2>1, <2>2, <2>3, <2>4
  <1>4. ASSUME NEW x \in Offset PROVE p[x] \in Byte
    <2>1. CASE x \in from .. from + n - 1
      <3>1. p[x] = <<changes + 1, offset - from + x>>
        BY <1>2, <1>3, <2>1
      <3>2. changes + 1 \in 0 .. MaxChanges
        BY Sizes DEF TypeOK
      <3>3. offset - from + x \in 0 .. MaxSize
        <4>1. offset \in Nat /\ n \in Nat /\ MaxSize \in Nat
          BY Sizes, FileAssumption
        <4>2. QED
          BY <1>3, <2>1, <4>1
      <3>4. QED
        BY <3>1, <3>2, <3>3 DEF Byte
    <2>2. CASE x \notin from .. from + n - 1
      BY <1>2, <1>3, <2>2 DEF TypeOK
    <2>3. QED
      BY <2>1, <2>2
  <1>5. QED
    BY <1>1, <1>2, <1>4

\* The state after a write, but for the contents.
LEMMA WriteType ==
  ASSUME IInv, NEW h \in Handle, NEW offset \in 0 .. MaxSize, NEW n \in 1 .. BlockSize,
         NEW f, NEW e, NEW c, WritesAs(h, offset, n, f, e, c)
  PROVE  TypeOK'
  <1>1. /\ f = handle[h] /\ e = WriteOn(f, offset, n) /\ c = WriteTarget(e, offset)
        /\ ~ astray /\ changes < MaxChanges /\ (offset % BlockSize) + n <= BlockSize
        /\ NeedsClusters(f, offset, n) => CanExtend(f, n)
        /\ offset + n <= MaxSize /\ e.file.size <= MaxSize
        /\ next' = e.table /\ nextFree' = e.free /\ changes' = changes + 1
    BY DEF WritesAs
  <1>2. TypeOK /\ next[nextFree] = Eoc /\ f \in FatFile
    BY <1>1 DEF IInv, Linked, TypeOK
  <1>3. /\ e.table \in [Cluster -> 0 .. Eoc] /\ e.free \in DataCluster /\ e.file \in FatFile
    BY <1>1, <1>2, WriteOnType
  <1>4. c \in 0 .. Eoc
    <2>1. offset \in Nat
      BY Sizes
    <2>2. QED
      BY <1>1, <1>3, <2>1, TargetType
  <1>5. entry' \in [first : Cluster, size : 0 .. MaxSize]
    <2>1. entry' = IF e.file.size = f.size THEN entry
                   ELSE [first |-> e.file.first, size |-> e.file.size]
      BY DEF WritesAs
    <2>2. e.file.first \in Cluster /\ e.file.size \in 0 .. MaxSize
      BY <1>3 DEF FatFile
    <2>3. entry \in [first : Cluster, size : 0 .. MaxSize]
      BY <1>2 DEF TypeOK
    <2>4. QED
      BY <2>1, <2>2, <2>3
  <1>6. handle' \in [Handle -> FatFile]
    <2>1. PICK hs, p : /\ hs = IF e.file.size = f.size THEN handle ELSE StaleBut({h})
                       /\ p = Positioned(f, e.file, c, offset)
      OBVIOUS
    <2>2. handle' = [hs EXCEPT ![h] = p]
      BY <2>1 DEF WritesAs
    <2>3. hs \in [Handle -> FatFile]
      <3>1. StaleBut({h}) \in [Handle -> FatFile]
        BY <1>2, StaleType
      <3>2. QED
        BY <1>2, <2>1, <3>1 DEF TypeOK
    <2>4. p \in FatFile
      BY <1>2, <1>3, <1>4, <2>1, PositionedType
    <2>5. QED
      BY <2>2, <2>3, <2>4
  <1>7. data' \in [DataCluster -> [Offset -> Byte]]
    <2>1. /\ data' = [d \in DataCluster |-> data'[d]]
          /\ \A d \in DataCluster : data'[d] = IF d = c THEN PutBytes(c, offset, n) ELSE data[d]
      BY DEF WritesAs
    <2>2. ASSUME NEW d \in DataCluster PROVE data'[d] \in [Offset -> Byte]
      <3>1. CASE d = c
        <4>1. PutBytes(c, offset, n) \in [Offset -> Byte]
          BY <1>1, <1>2, <3>1, PutIs
        <4>2. QED
          BY <2>1, <3>1, <4>1
      <3>2. CASE d # c
        BY <1>2, <2>1, <3>2 DEF TypeOK
      <3>3. QED
        BY <3>1, <3>2
    <2>3. QED
      BY <2>1, <2>2
  <1>8. content' \in Seq(Byte) /\ Len(content') <= MaxSize
    <2>1. /\ content' = [i \in 1 .. Longer(offset, n) |-> content'[i]]
          /\ \A i \in 1 .. Longer(offset, n) : content'[i] =
                IF i \in offset + 1 .. offset + n THEN <<changes + 1, i - 1>>
                ELSE IF i <= Len(content) THEN content[i] ELSE Blank
      BY DEF WritesAs
    <2>2. content \in Seq(Byte) /\ Len(content) \in Nat /\ Len(content) <= MaxSize
      BY <1>2 DEF TypeOK
    <2>3. offset \in Nat /\ n \in Nat /\ MaxSize \in Nat /\ offset + n <= MaxSize
      BY <1>1, Sizes, FileAssumption
    <2>4. Longer(offset, n) \in Nat /\ Longer(offset, n) <= MaxSize
      <3>1. Longer(offset, n) = IF Len(content) <= offset + n THEN offset + n ELSE Len(content)
        <4>1. Len(content) \in Int /\ offset + n \in Int
          BY <2>2, <2>3
        <4>2. Max({Len(content), offset + n}) =
                IF Len(content) <= offset + n THEN offset + n ELSE Len(content)
          BY <4>1, OfTwo
        <4>3. QED
          BY <4>2 DEF Longer
      <3>2. QED
        BY <2>2, <2>3, <3>1
    <2>5. ASSUME NEW i \in 1 .. Longer(offset, n) PROVE content'[i] \in Byte
      <3>1. CASE i \in offset + 1 .. offset + n
        <4>1. changes + 1 \in 0 .. MaxChanges
          BY <1>1, <1>2, Sizes DEF TypeOK
        <4>2. i - 1 \in 0 .. MaxSize
          BY <2>3, <3>1
        <4>3. content'[i] = <<changes + 1, i - 1>>
          BY <2>1, <3>1
        <4>4. QED
          BY <4>1, <4>2, <4>3 DEF Byte
      <3>2. CASE i \notin offset + 1 .. offset + n /\ i <= Len(content)
        <4>1. i \in 1 .. Len(content)
          BY <2>2, <2>4, <3>2
        <4>2. content[i] \in Byte
          BY <2>2, <4>1, ElementOf
        <4>3. QED
          BY <2>1, <3>2, <4>2
      <3>3. CASE i \notin offset + 1 .. offset + n /\ ~ i <= Len(content)
        <4>1. Blank \in Byte
          BY Sizes DEF Blank, Byte
        <4>2. QED
          BY <2>1, <3>3, <4>1
      <3>4. QED
        BY <3>1, <3>2, <3>3
    <2>6. PICK s, m : s = content' /\ m = Longer(offset, n) /\ m \in Nat
      BY <2>4
    <2>7. s = [i \in 1 .. m |-> s[i]] /\ \A i \in 1 .. m : s[i] \in Byte
      BY <2>1, <2>5, <2>6
    <2>8. s \in Seq(Byte) /\ Len(s) = m
      BY <2>6, <2>7
    <2>9. QED
      BY <2>4, <2>6, <2>8
  <1>9. /\ outside' \in BOOLEAN /\ astray' \in BOOLEAN
    BY DEF WritesAs
  <1>10. changes' \in 0 .. MaxChanges
    BY <1>1, <1>2, Sizes DEF TypeOK
  <1>11. QED
    BY <1>1, <1>3, <1>5, <1>6, <1>7, <1>8, <1>9, <1>10 DEF TypeOK

\* The handle after its write knows the file as the write has left it.
LEMMA FollowsOn ==
  ASSUME NEW f \in FatFile, NEW e, e.file \in FatFile, NEW c, NEW b \in Nat, NEW p, NEW en,
         Follows(f, next, nextFree, entry), Placed(e, f, b, c),
         e.file.absRead = f.absRead, e.file.read = f.read,
         e.file.absWrite = f.absWrite, e.file.written = f.written,
         p.first = e.file.first, p.size = e.file.size, p.eoc = e.file.eoc,
         p.absRead = e.file.absRead, p.read = e.file.read,
         p.absWrite = IF f.absWrite # 0 THEN e.file.absWrite ELSE c,
         p.written = IF f.absWrite # 0 THEN e.file.written ELSE b,
         en.first = e.file.first, en.size = e.file.size,
         Blocks(f.size) \in Nat, Blocks(en.size) \in Nat,
         Blocks(f.size) <= Blocks(en.size), b < Blocks(en.size)
  PROVE  Follows(p, e.table, e.free, en)
  <1>1. f.written \in Nat /\ f.read \in Nat
    BY Sizes DEF FatFile, NoBlock
  <1>2. p.first \in First .. e.free - 1 /\ p.first # 0
    <2>1. p.first \in First .. e.free - 1
      BY DEF Placed
    <2>2. QED
      BY <2>1 DEF First
  <1>3. \A q \in 0 .. Blocks(f.size) - 1 : Nth(e.table, p.first, q) = Nth(next, f.first, q)
    BY DEF Placed
  <1>4. p.eoc # 0 => /\ e.table[p.eoc] = Eoc /\ p.eoc \in First .. e.free - 1
                     /\ \E j \in Nat : Nth(e.table, p.first, j) = p.eoc
    BY DEF Placed
  <1>5. ASSUME p.absWrite # 0
        PROVE  p.absWrite = Nth(e.table, p.first, p.written) /\ p.written < Blocks(p.size)
    <2>1. CASE f.absWrite # 0
      <3>1. f.absWrite = Nth(next, f.first, f.written) /\ f.written < Blocks(f.size)
        BY <2>1 DEF Follows
      <3>2. f.written \in 0 .. Blocks(f.size) - 1
        BY <1>1, <3>1
      <3>3. Nth(e.table, p.first, f.written) = Nth(next, f.first, f.written)
        BY <1>3, <3>2
      <3>4. f.written < Blocks(en.size)
        BY <1>1, <3>1
      <3>5. QED
        BY <2>1, <3>1, <3>3, <3>4
    <2>2. CASE f.absWrite = 0
      <3>1. c = Nth(e.table, e.file.first, b)
        BY DEF Placed
      <3>2. QED
        BY <2>2, <3>1
    <2>3. QED
      BY <2>1, <2>2
  <1>6. ASSUME p.absRead # 0, p.read # NoBlock
        PROVE  p.absRead = Nth(e.table, p.first, p.read) /\ p.read < Blocks(p.size)
    <2>1. f.absRead # 0 /\ f.read # NoBlock
      BY <1>6
    <2>2. f.absRead = Nth(next, f.first, f.read) /\ f.read < Blocks(f.size)
      BY <2>1 DEF Follows
    <2>3. f.read \in 0 .. Blocks(f.size) - 1
      BY <1>1, <2>2
    <2>4. Nth(e.table, p.first, f.read) = Nth(next, f.first, f.read)
      BY <1>3, <2>3
    <2>5. f.read < Blocks(en.size)
      BY <1>1, <2>2
    <2>6. QED
      BY <2>2, <2>4, <2>5
  <1>7. p.first = en.first /\ p.size = en.size
    OBVIOUS
  <1>8. QED
    BY <1>2, <1>4, <1>5, <1>6, <1>7 DEF Follows

\* Where a write goes, that the positions of its handle serve.
LEMMA WritePlaced ==
  ASSUME IInv, NEW h \in Handle, NEW offset \in 0 .. MaxSize, NEW n \in 1 .. BlockSize,
         NEW f, NEW e, NEW c, WritesAs(h, offset, n, f, e, c), ~ astray'
  PROVE  /\ f \in FatFile /\ Fresh(f) /\ Follows(f, next, nextFree, entry)
         /\ Placed(e, f, offset \div BlockSize, c)
         /\ offset \div BlockSize <= Blocks(f.size)
         /\ e.file.size = WriteSize(f, offset, n)
         /\ e.file.size = f.size =>
              e.table = next /\ e.free = nextFree /\ e.file.first = f.first
  <1>1. /\ f = handle[h] /\ e = WriteOn(f, offset, n) /\ c = WriteTarget(e, offset)
        /\ ~ astray /\ f.open /\ (offset % BlockSize) + n <= BlockSize
        /\ NeedsClusters(f, offset, n) => CanExtend(f, n)
        /\ offset + n <= MaxSize /\ e.file.size <= MaxSize
        /\ ServesWrite(f, offset) /\ c # 0
    BY DEF WritesAs
  <1>2. /\ f \in FatFile /\ Fresh(f) /\ Follows(f, next, nextFree, entry)
    <2>1. f \in FatFile
      BY <1>1 DEF IInv, TypeOK
    <2>2. Fresh(f)
      BY <1>1 DEF Fresh, ServesWrite
    <2>3. Followed
      BY <1>1 DEF IInv
    <2>4. QED
      BY <1>1, <2>1, <2>2, <2>3 DEF Followed
  <1>3. /\ f.size \in Nat /\ offset \in Nat /\ n \in Nat \ {0} /\ MaxSize \in Nat
        /\ Blocks(f.size) \in Nat /\ TypeOK /\ next[nextFree] = Eoc
    <2>1. n \in Nat \ {0} /\ offset \in Nat /\ MaxSize \in Nat
      BY Sizes, FileAssumption
    <2>2. f.size \in Nat
      BY <1>2, Sizes DEF FatFile
    <2>3. QED
      BY <1>1, <2>1, <2>2, BlocksAre DEF IInv, Linked
  <1>4. CASE NeedsClusters(f, offset, n)
    <2>1. offset = f.size
      BY <1>1, <1>2, <1>3, <1>4, AtTheEnd
    <2>2. e = Extend(f, n, f.size + n)
      BY <1>1, <1>4 DEF WriteOn
    <2>3. e.file.size = f.size + n
      BY <1>1, <1>2, <1>3, <1>4, <2>2, ExtendType
    <2>4. e.file.size = WriteSize(f, offset, n) /\ e.file.size # f.size
      BY <1>3, <2>1, <2>3 DEF WriteSize
    <2>5. offset + n \in 0 .. MaxSize
      BY <1>1, <1>3
    <2>6. Placed(e, f, offset \div BlockSize, c) /\ offset \div BlockSize <= Blocks(f.size)
      BY <1>1, <1>2, <1>3, <1>4, <2>1, <2>2, <2>5, WritesPast
    <2>7. QED
      BY <1>2, <2>4, <2>6
  <1>5. CASE ~ NeedsClusters(f, offset, n)
    <2>1. offset < f.size
      BY <1>1, <1>2, <1>3, <1>5, AtTheEnd
    <2>2. PICK g : g = [f EXCEPT !.size = WriteSize(f, offset, n)]
      OBVIOUS
    <2>3. /\ g.size = WriteSize(f, offset, n) /\ g.first = f.first /\ g.eoc = f.eoc
          /\ g.absWrite = f.absWrite
      BY <1>2, <2>2 DEF FatFile
    <2>4. e = Unextended(g)
      BY <1>1, <1>5, <2>2 DEF WriteOn
    <2>5. e.table = next /\ e.free = nextFree /\ e.file = g
      BY <2>4 DEF Unextended
    <2>6. /\ Placed(e, f, offset \div BlockSize, c)
          /\ offset \div BlockSize \in 0 .. Blocks(f.size) - 1
      BY <1>1, <1>2, <1>3, <2>1, <2>3, <2>5, WritesInside
    <2>7. offset \div BlockSize <= Blocks(f.size)
      <3>1. PICK b \in 0 .. Blocks(f.size) - 1 : b = offset \div BlockSize
        BY <2>6
      <3>2. QED
        BY <1>3, <3>1
    <2>8. QED
      BY <1>2, <2>3, <2>5, <2>6, <2>7
  <1>6. QED
    BY <1>4, <1>5

LEMMA WriteKeeps ==
  ASSUME IInv, NEW h \in Handle, NEW offset \in 0 .. MaxSize, NEW n \in 1 .. BlockSize,
         Write(h, offset, n)
  PROVE  IInv'
  <1>1. PICK f, e, c : WritesAs(h, offset, n, f, e, c)
    BY WriteIs
  <1>2. TypeOK'
    BY <1>1, WriteType
  <1>3. ASSUME ~ astray'
        PROVE  /\ Linked(next', nextFree') /\ Rooted(nextFree', entry')
               /\ Holds(next', data', entry', content') /\ Followed'
    <2>1. /\ f \in FatFile /\ Fresh(f) /\ Follows(f, next, nextFree, entry)
          /\ Placed(e, f, offset \div BlockSize, c)
          /\ offset \div BlockSize <= Blocks(f.size)
          /\ e.file.size = WriteSize(f, offset, n)
          /\ e.file.size = f.size =>
               e.table = next /\ e.free = nextFree /\ e.file.first = f.first
      BY <1>1, <1>3, WritePlaced
    <2>2. /\ f = handle[h] /\ e = WriteOn(f, offset, n) /\ c = WriteTarget(e, offset)
          /\ ~ astray /\ f.open /\ changes < MaxChanges /\ (offset % BlockSize) + n <= BlockSize
          /\ NeedsClusters(f, offset, n) => CanExtend(f, n)
          /\ offset + n <= MaxSize /\ e.file.size <= MaxSize
          /\ next' = e.table /\ nextFree' = e.free
      BY <1>1 DEF WritesAs
    <2>3. /\ TypeOK /\ Linked(next, nextFree) /\ Rooted(nextFree, entry)
          /\ Holds(next, data, entry, content) /\ TableOK(next) /\ nextFree \in DataCluster
          /\ next[nextFree] = Eoc /\ Followed
      BY <2>2 DEF IInv, TypeOK, TableOK, Linked
    <2>4. /\ f.size \in Nat /\ offset \in Nat /\ n \in Nat \ {0} /\ MaxSize \in Nat
          /\ f.first = entry.first /\ f.size = entry.size /\ Len(content) = f.size
      <3>1. n \in Nat \ {0} /\ offset \in Nat /\ MaxSize \in Nat
        BY Sizes, FileAssumption
      <3>2. f.size \in Nat
        BY <2>1, Sizes DEF FatFile
      <3>3. f.first = entry.first /\ f.size = entry.size
        BY <2>1 DEF Follows
      <3>4. QED
        BY <2>3, <3>1, <3>2, <3>3 DEF Holds
    <2>5. /\ TableOK(e.table) /\ e.free \in DataCluster /\ Linked(e.table, e.free)
          /\ e.file.first \in First .. e.free - 1
          /\ c = Nth(e.table, e.file.first, offset \div BlockSize) /\ c \in DataCluster
          /\ \A q \in 0 .. Blocks(f.size) - 1 : Nth(e.table, e.file.first, q) = Nth(next, f.first, q)
      BY <2>1 DEF Placed
    <2>6. PICK en : en = entry' /\ en.first = e.file.first /\ en.size = e.file.size
      <3>1. entry' = IF e.file.size = f.size THEN entry
                     ELSE [first |-> e.file.first, size |-> e.file.size]
        BY <1>1 DEF WritesAs
      <3>2. CASE e.file.size = f.size
        BY <2>1, <2>4, <3>1, <3>2
      <3>3. CASE e.file.size # f.size
        BY <3>1, <3>3
      <3>4. QED
        BY <3>2, <3>3
    <2>7. /\ en.size = (IF f.size < offset + n THEN offset + n ELSE f.size)
          /\ en.size \in Nat \ {0} /\ f.size <= en.size /\ offset < en.size
      <3>1. en.size = (IF f.size < offset + n THEN offset + n ELSE f.size)
        BY <2>1, <2>6 DEF WriteSize
      <3>2. QED
        BY <2>4, <3>1
    <2>8. PICK b \in Nat : b = offset \div BlockSize
      BY <2>4, Divided
    <2>9. /\ Blocks(f.size) \in Nat /\ Blocks(en.size) \in Nat
          /\ Blocks(f.size) <= Blocks(en.size) /\ b < Blocks(en.size)
      <3>1. b \in 0 .. Blocks(en.size) - 1
        BY <2>4, <2>7, <2>8, InBlocks
      <3>2. Blocks(f.size) \in Nat /\ Blocks(en.size) \in Nat
        BY <2>4, <2>7, BlocksAre
      <3>3. Blocks(f.size) <= Blocks(en.size)
        BY <2>4, <2>7, BlocksMonotone
      <3>4. QED
        BY <3>1, <3>2, <3>3
    <2>10. Rooted(e.free, en)
      <3>1. en.first \in First .. e.free - 1 /\ en.first # 0
        BY <2>5, <2>6 DEF First
      <3>2. QED
        BY <2>7, <3>1 DEF Rooted
    <2>11. PICK u, s : u = data' /\ s = content'
      OBVIOUS
    <2>12. /\ \A d \in DataCluster : d # c => u[d] = data[d]
           /\ u[c] = PutBytes(c, offset, n)
      BY <1>1, <2>5, <2>11 DEF WritesAs
    <2>13. \A x \in Offset : u[c][x] =
              IF x \in offset % BlockSize .. (offset % BlockSize) + n - 1
              THEN <<changes + 1, offset - (offset % BlockSize) + x>> ELSE data[c][x]
      BY <2>2, <2>3, <2>5, <2>12, PutIs
    <2>14. Longer(offset, n) = en.size
      <3>1. Len(content) \in Int /\ offset + n \in Int
        BY <2>4
      <3>2. Max({Len(content), offset + n}) =
              IF Len(content) <= offset + n THEN offset + n ELSE Len(content)
        BY <3>1, OfTwo
      <3>3. QED
        BY <2>4, <2>7, <3>2 DEF Longer
    <2>15. /\ s = [i \in 1 .. en.size |-> s[i]]
           /\ \A i \in 1 .. en.size : s[i] =
                IF i \in offset + 1 .. offset + n THEN <<changes + 1, i - 1>>
                ELSE IF i <= Len(content) THEN content[i] ELSE Blank
      BY <1>1, <2>11, <2>14 DEF WritesAs
    <2>16. Len(s) = en.size
      BY <2>7, <2>15
    <2>17. \A q \in 0 .. Blocks(entry.size) - 1 : Nth(next, entry.first, q) \in DataCluster
      BY <2>3, <2>4, BlocksHeld
    <2>18. Holds(e.table, u, en, s)
      <3>1. /\ c = Nth(e.table, en.first, offset \div BlockSize)
            /\ en.first \in First .. e.free - 1
            /\ \A q \in 0 .. Blocks(entry.size) - 1 :
                  Nth(e.table, en.first, q) = Nth(next, entry.first, q)
        BY <2>4, <2>5, <2>6
      <3>2. /\ en.size = (IF entry.size < offset + n THEN offset + n ELSE entry.size)
            /\ entry.size \in Nat /\ offset \div BlockSize <= Blocks(entry.size)
        BY <2>1, <2>4, <2>7
      <3>3. PICK w : w = changes + 1
        OBVIOUS
      <3>4. \A x \in Offset : u[c][x] =
              IF x \in offset % BlockSize .. (offset % BlockSize) + n - 1
              THEN <<w, offset - (offset % BlockSize) + x>> ELSE data[c][x]
        BY <2>13, <3>3
      <3>5. \A i \in 1 .. en.size : s[i] =
                IF i \in offset + 1 .. offset + n THEN <<w, i - 1>>
                ELSE IF i <= Len(content) THEN content[i] ELSE Blank
        BY <2>15, <3>3
      <3>6. /\ offset \in Nat /\ (offset % BlockSize) + n <= BlockSize
            /\ Holds(next, data, entry, content) /\ e.free \in DataCluster /\ c \in DataCluster
            /\ TableOK(e.table) /\ Linked(e.table, e.free)
            /\ \A d \in DataCluster : d # c => u[d] = data[d]
        BY <2>2, <2>3, <2>4, <2>5, <2>12
      <3>7. Put(u, c, offset, n, w)
        BY <3>4, <3>6 DEF Put
      <3>8. Wrote(s, en.size, offset, n, w)
        BY <2>16, <3>5 DEF Wrote
      <3>9. SameBlocks(e.table, en.first)
        BY <2>17, <3>1 DEF SameBlocks
      <3>10. QED
        BY <3>1, <3>2, <3>6, <3>7, <3>8, <3>9, HoldsWritten
    <2>19. Followed'
      <3>1. PICK hs, p : /\ hs = IF e.file.size = f.size THEN handle ELSE StaleBut({h})
                         /\ p = Positioned(f, e.file, c, offset)
        OBVIOUS
      <3>2. handle' = [hs EXCEPT ![h] = p]
        BY <1>1, <3>1 DEF WritesAs
      <3>3. /\ StaleBut({h}) \in [Handle -> FatFile]
            /\ \A k \in Handle : k # h => ~ Fresh(StaleBut({h})[k])
        BY <2>3, StaleType
      <3>4. hs \in [Handle -> FatFile]
        BY <2>3, <3>1, <3>3 DEF TypeOK
      <3>5. handle'[h] = p /\ \A k \in Handle : k # h => handle'[k] = hs[k]
        BY <3>2, <3>4
      <3>6. e.file \in FatFile /\ e.file.absRead = f.absRead /\ e.file.read = f.read
            /\ e.file.absWrite = f.absWrite /\ e.file.written = f.written
        BY <2>1, <2>2, <2>3, WriteOnType
      <3>7. c \in 0 .. Eoc
        BY <2>5, Sizes DEF DataCluster
      <3>8. /\ p.first = e.file.first /\ p.size = e.file.size /\ p.eoc = e.file.eoc
            /\ p.absRead = e.file.absRead /\ p.read = e.file.read
            /\ p.absWrite = (IF f.absWrite # 0 THEN e.file.absWrite ELSE c)
            /\ p.written = (IF f.absWrite # 0 THEN e.file.written ELSE b)
        BY <2>1, <2>8, <3>1, <3>6, <3>7, PositionedType
      <3>9. Placed(e, f, b, c)
        BY <2>1, <2>8
      <3>10. Follows(p, e.table, e.free, en)
        BY <2>1, <2>6, <2>9, <3>6, <3>8, <3>9, FollowsOn
      <3>11. ASSUME NEW k \in Handle, k # h, Fresh(handle'[k])
             PROVE  Follows(handle'[k], e.table, e.free, en)
        <4>1. CASE e.file.size = f.size
          <5>1. handle'[k] = handle[k] /\ e.table = next /\ e.free = nextFree /\ en = entry
            <6>1. entry' = entry
              BY <1>1, <4>1 DEF WritesAs
            <6>2. handle'[k] = handle[k]
              BY <3>1, <3>5, <3>11, <4>1
            <6>3. QED
              BY <2>1, <2>6, <4>1, <6>1, <6>2
          <5>2. Follows(handle[k], next, nextFree, entry)
            BY <2>3, <3>11, <5>1 DEF Followed
          <5>3. QED
            BY <5>1, <5>2
        <4>2. CASE e.file.size # f.size
          BY <3>1, <3>3, <3>5, <3>11, <4>2
        <4>3. QED
          BY <4>1, <4>2
      <3>12. \A k \in Handle : Fresh(handle'[k]) => Follows(handle'[k], next', nextFree', entry')
        BY <2>2, <2>6, <3>5, <3>10, <3>11
      <3>13. QED
        BY <3>12 DEF Followed
    <2>20. QED
      BY <2>2, <2>5, <2>6, <2>10, <2>11, <2>18, <2>19
  <1>4. QED
    BY <1>2, <1>3 DEF IInv

-----------------------------------------------------------------------------
LEMMA StepKeeps == IInv /\ [Next]_vars => IInv'
  <1> SUFFICES ASSUME IInv, [Next]_vars PROVE IInv'
    OBVIOUS
  <1>1. ASSUME NEW h \in Handle, Open(h) PROVE IInv'
    BY <1>1, OpenKeeps
  <1>2. ASSUME NEW h \in Handle, Release(h) PROVE IInv'
    BY <1>2, ReleaseKeeps
  <1>3. ASSUME NEW h \in Handle, NEW offset \in 0 .. MaxSize, NEW n \in 1 .. BlockSize,
               Write(h, offset, n)
        PROVE  IInv'
    BY <1>3, WriteKeeps
  <1>4. ASSUME NEW h \in Handle, NEW block \in 0 .. MaxSize, NEW pages \in 1 .. MaxPages,
               Read(h, block, pages)
        PROVE  IInv'
    BY <1>4, ReadKeeps
  <1>5. ASSUME NEW size \in 0 .. MaxSize, TruncateUp(size) PROVE IInv'
    BY <1>5, TruncateUpKeeps
  <1>6. ASSUME NEW size \in 0 .. MaxSize, TruncateDown(size) PROVE IInv'
    BY <1>6, TruncateDownKeeps
  <1>7. CASE UNCHANGED vars
    BY <1>7 DEF vars, IInv, TypeOK, Followed
  <1>8. QED
    BY <1>1, <1>2, <1>3, <1>4, <1>5, <1>6, <1>7 DEF Next

LEMMA Inductive == Spec => []IInv
  BY InitKeeps, StepKeeps, PTL DEF Spec

\* The state of the file: the table leads only to entries of it or to its end,
\* and every handle's cluster, end and positions are in it, whatever is opened,
\* written, read and truncated (pfs-fuse.c, pfs-fat-utils.c).
THEOREM FileTypeCorrect == Spec => []TypeOK
  <1>1. IInv => TypeOK
    BY DEF IInv
  <1>2. QED
    BY <1>1, Inductive, PTL

\* The chain of a file covers its size and has each byte at its place, for any
\* size of a cluster, any number of handles and of writes and truncates
\* (pfs_fuse_write, extendFileWrite, extendFileTruncate, pfs_fat32_truncate).
THEOREM FileContentsHeld == Spec => []FileHoldsContents
  <1>1. IInv => FileHoldsContents
    BY HoldsIs DEF IInv
  <1>2. QED
    BY <1>1, Inductive, PTL

-----------------------------------------------------------------------------
\* What FlattenSeq computes with: the sequences so far, one after the other.
IsFlat(seqs, n, at) ==
    at = [i \in 1 .. n |-> IF i = 1 THEN seqs[i] ELSE at[i - 1] \o seqs[i]]

LEMMA FlatExists ==
  ASSUME NEW seqs
  PROVE  \A n \in Nat : \E at : IsFlat(seqs, n, at)
  <1> DEFINE S == {n \in Nat : \E at : IsFlat(seqs, n, at)}
  <1>1. 0 \in S
    <2> DEFINE at == [i \in 1 .. 0 |-> seqs[i]]
    <2>1. \A i \in 1 .. 0 : FALSE
      OBVIOUS
    <2>2. IsFlat(seqs, 0, at)
      BY <2>1 DEF IsFlat
    <2>3. QED
      BY <2>2
  <1>2. ASSUME NEW n \in Nat, n \in S PROVE n + 1 \in S
    <2>1. PICK at : IsFlat(seqs, n, at)
      BY <1>2
    <2> DEFINE to == [i \in 1 .. n + 1 |->
                        IF i = n + 1 THEN (IF n = 0 THEN seqs[1] ELSE at[n] \o seqs[n + 1]) ELSE at[i]]
    <2>2. \A i \in 1 .. n : at[i] = IF i = 1 THEN seqs[i] ELSE at[i - 1] \o seqs[i]
      BY <2>1 DEF IsFlat
    <2>3. \A i \in 1 .. n + 1 : to[i] = IF i = 1 THEN seqs[i] ELSE to[i - 1] \o seqs[i]
      <3> SUFFICES ASSUME NEW i \in 1 .. n + 1
                   PROVE  to[i] = IF i = 1 THEN seqs[i] ELSE to[i - 1] \o seqs[i]
        OBVIOUS
      <3>1. CASE i = n + 1 /\ n = 0
        BY <3>1
      <3>2. CASE i = n + 1 /\ n # 0
        <4>1. i # 1 /\ i - 1 = n /\ n \in 1 .. n + 1 /\ n # n + 1
          BY <3>2
        <4>2. to[n] = at[n] /\ to[i] = at[n] \o seqs[n + 1]
          BY <3>2, <4>1
        <4>3. QED
          BY <3>2, <4>1, <4>2
      <3>3. CASE i # n + 1 /\ i # 1
        <4>1. i \in 1 .. n /\ i - 1 \in 1 .. n + 1 /\ i - 1 # n + 1
          BY <3>3
        <4>2. QED
          BY <2>2, <3>3, <4>1
      <3>4. CASE i # n + 1 /\ i = 1
        <4>1. i \in 1 .. n
          BY <3>4
        <4>2. QED
          BY <2>2, <3>4, <4>1
      <3>5. QED
        BY <3>1, <3>2, <3>3, <3>4
    <2>4. to = [i \in 1 .. n + 1 |-> to[i]]
      OBVIOUS
    <2> HIDE DEF to
    <2>5. IsFlat(seqs, n + 1, to)
      BY <2>3, <2>4 DEF IsFlat
    <2>6. QED
      BY <2>5
  <1>3. \A n \in Nat : n \in S
    <2> HIDE DEF S
    <2> QED BY <1>1, <1>2, AllNumbers
  <1>4. QED
    BY <1>3

LEMMA FlattenIs ==
  ASSUME NEW seqs, Len(seqs) \in Nat \ {0}
  PROVE  \E at : IsFlat(seqs, Len(seqs), at) /\ FlattenSeq(seqs) = at[Len(seqs)]
  <1> DEFINE at == CHOOSE at : IsFlat(seqs, Len(seqs), at)
  <1>1. IsFlat(seqs, Len(seqs), at)
    BY FlatExists
  <1>2. FlattenSeq(seqs) = at[Len(seqs)]
    BY Zenon DEF FlattenSeq, IsFlat
  <1>3. QED
    BY <1>1, <1>2

\* Sequences of which all but the last are as long as a block.
Chunks(S, seqs, m) ==
    /\ \A k \in 1 .. m : seqs[k] \in Seq(S)
    /\ \A k \in 1 .. m - 1 : Len(seqs[k]) = BlockSize

\* A place in a sequence that is put together from others, of which all but the
\* last are as long as a block.
LEMMA Flattened ==
  ASSUME NEW S, NEW m \in Nat \ {0}, NEW seqs, Chunks(S, seqs, m), NEW at, IsFlat(seqs, m, at)
  PROVE  \A k \in 1 .. m :
            /\ at[k] \in Seq(S) /\ Len(at[k]) = BlockSize * (k - 1) + Len(seqs[k])
            /\ \A j \in 1 .. k : \A x \in 1 .. Len(seqs[j]) :
                  at[k][BlockSize * (j - 1) + x] = seqs[j][x]
  <1> USE DEF Chunks
  <1>1. PICK b \in Nat : b = BlockSize /\ b > 0
    BY FileAssumption
  <1> DEFINE P(k) == /\ at[k] \in Seq(S) /\ Len(at[k]) = b * (k - 1) + Len(seqs[k])
                     /\ \A j \in 1 .. k : \A x \in 1 .. Len(seqs[j]) :
                           at[k][b * (j - 1) + x] = seqs[j][x]
  <1> DEFINE T == {k \in Nat : k \in 1 .. m => P(k)}
  <1> HIDE DEF P
  <1>2. \A i \in 1 .. m : at[i] = IF i = 1 THEN seqs[i] ELSE at[i - 1] \o seqs[i]
    BY DEF IsFlat
  <1>3. 0 \in T
    OBVIOUS
  <1>4. ASSUME NEW k \in Nat, k \in T PROVE k + 1 \in T
    <2> SUFFICES ASSUME k + 1 \in 1 .. m PROVE P(k + 1)
      OBVIOUS
    <2>1. CASE k = 0
      <3>1. at[1] = seqs[1] /\ seqs[1] \in Seq(S) /\ b * 0 = 0 /\ 1 \in 1 .. m
        BY <1>1, <1>2
      <3>2. Len(at[1]) = b * (1 - 1) + Len(seqs[1])
        BY <3>1
      <3>3. ASSUME NEW j \in 1 .. 1, NEW x \in 1 .. Len(seqs[j])
            PROVE  at[1][b * (j - 1) + x] = seqs[j][x]
        <4>1. j = 1
          OBVIOUS
        <4>2. x \in Nat /\ b * (1 - 1) + x = x
          BY <1>1, <3>1, <4>1
        <4>3. QED
          BY <3>1, <4>1, <4>2
      <3>4. k + 1 = 1
        BY <2>1
      <3>5. P(1)
        <4>1. b * (1 - 1) = BlockSize * (1 - 1)
          BY <1>1
        <4>2. QED
          BY <1>1, <3>1, <3>2, <3>3, <4>1 DEF P
      <3>6. QED
        BY <3>4, <3>5
    <2>2. CASE k # 0
      <3>1. /\ k \in 1 .. m /\ k \in 1 .. m - 1 /\ (k + 1) - 1 = k /\ k + 1 # 1
        BY <2>2
      <3>2. /\ at[k] \in Seq(S) /\ Len(at[k]) = b * (k - 1) + Len(seqs[k])
            /\ \A j \in 1 .. k : \A x \in 1 .. Len(seqs[j]) :
                  at[k][b * (j - 1) + x] = seqs[j][x]
        BY <1>4, <3>1 DEF P
      <3>3. PICK s, t : s = at[k] /\ t = seqs[k + 1]
        OBVIOUS
      <3>4. /\ s \in Seq(S) /\ t \in Seq(S) /\ at[k + 1] = s \o t
            /\ Len(seqs[k]) = b
        BY <1>1, <1>2, <3>1, <3>2, <3>3
      <3>5. Len(s) = b * k
        <4>1. Len(s) = b * (k - 1) + b
          BY <3>2, <3>3, <3>4
        <4>2. b * (k - 1) + b = b * k
          BY <1>1
        <4>3. QED
          BY <4>1, <4>2
      <3>6. /\ s \o t \in Seq(S) /\ Len(s \o t) = Len(s) + Len(t)
            /\ \A i \in 1 .. Len(s) : (s \o t)[i] = s[i]
            /\ \A i \in 1 .. Len(t) : (s \o t)[Len(s) + i] = t[i]
        BY <3>4
      <3>7. ASSUME NEW j \in 1 .. k + 1, NEW x \in 1 .. Len(seqs[j])
            PROVE  at[k + 1][b * (j - 1) + x] = seqs[j][x]
        <4>1. CASE j = k + 1
          <5>1. b * (j - 1) + x = Len(s) + x /\ seqs[j] = t
            BY <3>1, <3>3, <3>5, <4>1
          <5>2. QED
            BY <3>4, <3>6, <5>1
        <4>2. CASE j # k + 1
          <5>1. j \in 1 .. k /\ j \in 1 .. m - 1
            BY <3>1, <4>2
          <5>2. Len(seqs[j]) = b
            BY <1>1, <5>1
          <5>3. x \in Nat /\ 1 <= x /\ x <= b
            BY <1>1, <5>2
          <5>4. PICK d \in Nat : k = j + d
            BY <5>1
          <5>5. PICK i \in Nat : j = i + 1
            <6>1. j - 1 \in Nat /\ j = (j - 1) + 1
              BY <5>1
            <6>2. QED
              BY <6>1
          <5>6. b * k = b * i + b + b * d /\ b * i \in Nat /\ b * d \in Nat
            BY <1>1, <5>4, <5>5
          <5>7. b * (j - 1) + x = b * i + x
            BY <5>5
          <5>8. b * i + x \in 1 .. Len(s)
            <6>1. PICK u \in Nat, v \in Nat : u = b * i /\ v = b * d
              BY <5>6
            <6>2. Len(s) = u + b + v
              BY <3>5, <5>6, <6>1
            <6>3. u + x \in 1 .. u + b + v
              BY <1>1, <5>3
            <6>4. QED
              BY <6>1, <6>2, <6>3
          <5>9. s[b * (j - 1) + x] = seqs[j][x]
            BY <3>2, <3>3, <5>1
          <5>10. QED
            BY <3>4, <3>6, <5>7, <5>8, <5>9
        <4>3. QED
          BY <4>1, <4>2
      <3>8. at[k + 1] \in Seq(S) /\ Len(at[k + 1]) = b * ((k + 1) - 1) + Len(seqs[k + 1])
        BY <3>1, <3>3, <3>4, <3>5, <3>6
      <3>9. QED
        BY <3>7, <3>8 DEF P
    <2>3. QED
      BY <2>1, <2>2
  <1>5. \A k \in Nat : k \in T
    <2> HIDE DEF T
    <2> QED BY <1>3, <1>4, AllNumbers
  <1>6. ASSUME NEW k \in 1 .. m PROVE P(k)
    BY <1>5
  <1>7. QED
    BY <1>1, <1>6 DEF P

\* The bytes of a read of n bytes along a path: as many, and each from its
\* cluster.
LEMMA BytesReadAre ==
  ASSUME TypeOK, NEW f \in FatFile, NEW block \in Nat, NEW n \in Nat \ {0}
  PROVE  /\ BytesRead(f, block, n) \in Seq(Byte) /\ Len(BytesRead(f, block, n)) = n
         /\ \A q \in 0 .. Blocks(n) - 1, r \in Offset :
               BlockSize * q + r < n /\ Path(f, block, n)[q + 1] \in DataCluster =>
                  BytesRead(f, block, n)[(BlockSize * q + r) + 1] = data[Path(f, block, n)[q + 1]][r]
  <1>1. PICK path, m, b : /\ path = Path(f, block, n) /\ m = Blocks(n)
                          /\ b = BlockSize /\ b \in Nat /\ b > 0
    BY FileAssumption
  <1>2. /\ m \in Nat \ {0} /\ path \in Seq(0 .. Eoc) /\ Len(path) = m /\ DOMAIN path = 1 .. m
    <2>1. m \in Nat \ {0}
      BY <1>1, BlocksAre
    <2>2. path \in Seq(0 .. Eoc) /\ Len(path) = m
      BY <1>1, PathIs
    <2>3. QED
      BY <2>1, <2>2
  <1>3. PICK seqs : seqs = [i \in DOMAIN path |->
                               BytesOf(path[i], Min({BlockSize, n - (i - 1) * BlockSize}))]
    OBVIOUS
  <1>4. BytesRead(f, block, n) = FlattenSeq(seqs)
    BY <1>1, <1>3 DEF BytesRead
  <1>5. \A i \in 1 .. m : seqs[i] = BytesOf(path[i], Min({BlockSize, n - (i - 1) * BlockSize}))
    BY <1>2, <1>3
  <1>6. ASSUME NEW i \in 1 .. m
        PROVE  LET k == IF i < m THEN b ELSE n - b * (m - 1)
               IN  k \in Nat /\ k <= b /\ Min({BlockSize, n - (i - 1) * BlockSize}) = k
    <2>1. i - 1 \in 0 .. Blocks(n) - 1 /\ m - 1 \in 0 .. Blocks(n) - 1 /\ i - 1 \in Nat /\ m - 1 \in Nat
      BY <1>1, <1>2
    <2>2. BlockSize * (m - 1) < n /\ BlockSize * (m - 1) \in Nat
      BY <2>1, BlockStart
    <2>3. n <= b * (m - 1) + b
      <3>1. PICK p \in Nat, r \in 0 .. b - 1 : p = (n - 1) \div b /\ n - 1 = b * p + r
        <4>1. n - 1 \in Nat
          OBVIOUS
        <4>2. QED
          BY <1>1, <4>1, Divided
      <3>2. m = p + 1
        BY <1>1, <3>1, BlocksAre
      <3>3. m - 1 = p
        BY <3>1, <3>2
      <3>4. b * p \in Nat
        BY <1>1
      <3>5. n <= b * p + b
        BY <1>1, <3>1, <3>4
      <3>6. QED
        BY <3>3, <3>5
    <2>4. (i - 1) * b = b * (i - 1) /\ (i - 1) * b \in Nat
      BY <1>1, <2>1
    <2>5. Min({b, n - (i - 1) * b}) = IF b <= n - (i - 1) * b THEN b ELSE n - (i - 1) * b
      <3>1. n - (i - 1) * b \in Int /\ b \in Int
        BY <1>1, <2>4
      <3>2. QED
        BY <3>1, OfTwo
    <2>6. CASE i < m
      <3>1. PICK d \in Nat : m - 1 = (i - 1) + 1 + d
        <4>1. m - 1 - i \in Nat /\ m - 1 = (i - 1) + 1 + (m - 1 - i)
          BY <1>2, <2>6
        <4>2. QED
          BY <4>1
      <3>2. PICK p \in Nat : p = i - 1
        BY <2>1
      <3>3. b * (m - 1) = b * p + b + b * d /\ b * d \in Nat /\ b * p \in Nat
        BY <1>1, <3>1, <3>2
      <3>4. b <= n - b * p
        BY <1>1, <2>2, <3>3
      <3>5. b <= n - (i - 1) * b
        BY <2>4, <3>2, <3>4
      <3>6. QED
        BY <1>1, <2>5, <2>6, <3>5
    <2>7. CASE ~ i < m
      <3>1. i = m
        BY <1>2, <2>7
      <3>2. n - (i - 1) * b = n - b * (m - 1)
        BY <2>4, <3>1
      <3>3. PICK a \in Nat : a = b * (m - 1)
        BY <1>1, <2>2
      <3>4. n - a <= b /\ n - a \in Nat
        BY <1>1, <2>2, <2>3, <3>3
      <3>5. Min({b, n - (i - 1) * b}) = n - a
        BY <1>1, <2>5, <3>2, <3>3, <3>4
      <3>6. QED
        BY <1>1, <2>7, <3>3, <3>4, <3>5
    <2>8. QED
      BY <2>6, <2>7
  <1>7. ASSUME NEW c, NEW k \in Nat, k <= BlockSize
        PROVE  /\ BytesOf(c, k) \in Seq(Byte) /\ Len(BytesOf(c, k)) = k
               /\ c \in DataCluster => \A i \in 1 .. k : BytesOf(c, k)[i] = data[c][i - 1]
    <2>1. \A i \in 1 .. k : (IF c \in DataCluster THEN data[c][i - 1] ELSE Blank) \in Byte
      <3>1. Blank \in Byte
        BY Sizes DEF Blank, Byte
      <3>2. \A i \in 1 .. k : i - 1 \in Offset
        BY <1>7, <1>1 DEF Offset
      <3>3. QED
        BY <3>1, <3>2 DEF TypeOK
    <2>2. PICK s : s = BytesOf(c, k)
      OBVIOUS
    <2>3. /\ s = [i \in 1 .. k |-> s[i]]
          /\ \A i \in 1 .. k : s[i] = IF c \in DataCluster THEN data[c][i - 1] ELSE Blank
      BY <2>2 DEF BytesOf
    <2>4. s \in Seq(Byte) /\ Len(s) = k
      BY <2>1, <2>3
    <2>5. QED
      BY <2>2, <2>3, <2>4
  <1>8. ASSUME NEW i \in 1 .. m
        PROVE  /\ seqs[i] \in Seq(Byte)
               /\ Len(seqs[i]) = IF i < m THEN b ELSE n - b * (m - 1)
               /\ path[i] \in DataCluster =>
                    \A x \in 1 .. Len(seqs[i]) : seqs[i][x] = data[path[i]][x - 1]
    <2>1. PICK k : k = IF i < m THEN b ELSE n - b * (m - 1)
      OBVIOUS
    <2>2. k \in Nat /\ k <= BlockSize /\ Min({BlockSize, n - (i - 1) * BlockSize}) = k
      BY <1>1, <1>6, <2>1
    <2>3. seqs[i] = BytesOf(path[i], k)
      BY <1>5, <2>2
    <2>4. QED
      BY <1>7, <2>1, <2>2, <2>3
  <1>9. Len(seqs) = m
    <2>1. seqs = [i \in 1 .. m |-> seqs[i]]
      BY <1>2, <1>3
    <2>2. QED
      BY <1>2, <2>1
  <1>10. PICK at : IsFlat(seqs, m, at) /\ BytesRead(f, block, n) = at[m]
    BY <1>2, <1>4, <1>9, FlattenIs
  <1>11. /\ at[m] \in Seq(Byte) /\ Len(at[m]) = BlockSize * (m - 1) + Len(seqs[m])
         /\ \A j \in 1 .. m : \A x \in 1 .. Len(seqs[j]) :
               at[m][BlockSize * (j - 1) + x] = seqs[j][x]
    <2>1. m \in 1 .. m
      BY <1>2
    <2>2. \A k \in 1 .. m - 1 : Len(seqs[k]) = BlockSize
      BY <1>1, <1>2, <1>8
    <2>3. \A k \in 1 .. m : seqs[k] \in Seq(Byte)
      BY <1>8
    <2>4. QED
      <3>1. IsFlat(seqs, m, at) /\ m \in Nat \ {0} /\ Chunks(Byte, seqs, m)
        BY <1>2, <1>10, <2>2, <2>3 DEF Chunks
      <3>2. \A k \in 1 .. m :
              /\ at[k] \in Seq(Byte) /\ Len(at[k]) = BlockSize * (k - 1) + Len(seqs[k])
              /\ \A j \in 1 .. k : \A x \in 1 .. Len(seqs[j]) :
                    at[k][BlockSize * (j - 1) + x] = seqs[j][x]
        BY <3>1, Flattened
      <3>3. QED
        BY <2>1, <3>2
  <1>12. Len(at[m]) = n
    <2>1. m \in 1 .. m /\ ~ m < m
      BY <1>2
    <2>2. Len(seqs[m]) = n - b * (m - 1)
      BY <1>8, <2>1
    <2>3. b * (m - 1) \in Int
      BY <1>1, <1>2
    <2>4. QED
      BY <1>1, <1>11, <2>2, <2>3
  <1>13. ASSUME NEW q \in 0 .. m - 1, NEW r \in Offset, b * q + r < n, path[q + 1] \in DataCluster
         PROVE  at[m][(b * q + r) + 1] = data[path[q + 1]][r]
    <2>1. q + 1 \in 1 .. m /\ (q + 1) - 1 = q /\ q \in Nat
      BY <1>2
    <2>2. r \in Nat /\ r < b /\ (r + 1) - 1 = r
      BY <1>1 DEF Offset
    <2>3. r + 1 \in 1 .. Len(seqs[q + 1])
      <3>1. CASE q + 1 < m
        <4>1. Len(seqs[q + 1]) = b
          BY <1>8, <2>1, <3>1
        <4>2. QED
          BY <1>1, <2>2, <4>1
      <3>2. CASE ~ q + 1 < m
        <4>1. q = m - 1
          BY <1>2, <3>2
        <4>2. Len(seqs[q + 1]) = n - b * q
          BY <1>8, <2>1, <3>2, <4>1
        <4>3. b * q \in Nat
          BY <1>1, <2>1
        <4>4. QED
          BY <1>13, <2>2, <4>2, <4>3
      <3>3. QED
        BY <3>1, <3>2
    <2>4. at[m][BlockSize * ((q + 1) - 1) + (r + 1)] = seqs[q + 1][r + 1]
      BY <1>11, <2>1, <2>3
    <2>5. seqs[q + 1][r + 1] = data[path[q + 1]][r]
      <3>1. seqs[q + 1][r + 1] = data[path[q + 1]][(r + 1) - 1]
        BY <1>8, <1>13, <2>1, <2>3
      <3>2. QED
        BY <2>2, <3>1
    <2>6. BlockSize * ((q + 1) - 1) + (r + 1) = (b * q + r) + 1
      <3>1. b * q \in Nat
        BY <1>1, <2>1
      <3>2. b * q + (r + 1) = (b * q + r) + 1
        BY <2>2, <3>1
      <3>3. QED
        BY <1>1, <2>1, <3>2
    <2>7. QED
      BY <2>4, <2>5, <2>6
  <1>14. QED
    BY <1>1, <1>10, <1>11, <1>12, <1>13

LEMMA ServedBytes ==
  ASSUME IInv, ~ astray, NEW h \in Handle, NEW pages \in 1 .. MaxPages,
         NEW block \in 0 .. Blocks(entry.size) - 1, NEW f, f = handle[h],
         NEW n, n = Length(f, block, pages), f.open, ServesRead(f, block, n)
  PROVE  /\ Len(BytesRead(f, block, n)) = Min({pages * BlockSize, Len(content) - block * BlockSize})
         /\ \A i \in DOMAIN BytesRead(f, block, n) :
               Gives(BytesRead(f, block, n)[i], block * BlockSize + i)
  <1>1. /\ TypeOK /\ Holds(next, data, entry, content) /\ Followed /\ f \in FatFile
    BY DEF IInv, TypeOK
  <1>2. Follows(f, next, nextFree, entry)
    <2>1. Fresh(f)
      BY DEF Fresh, ServesRead
    <2>2. QED
      BY <1>1, <2>1 DEF Followed
  <1>3. f.size = entry.size /\ entry.size = Len(content) /\ entry.size \in Nat
    <2>1. entry.size \in Nat
      BY <1>1, Sizes DEF TypeOK
    <2>2. QED
      BY <1>1, <1>2, <2>1 DEF Follows, Holds
  <1>4. PICK b : b = BlockSize /\ b \in Nat /\ b > 0
    BY FileAssumption
  <1>5. block \in Nat /\ b * block \in Nat /\ b * block < entry.size /\ block * b = b * block
    <2>1. block \in Nat /\ BlockSize * block < entry.size
      BY <1>3, BlockStart
    <2>2. QED
      BY <1>4, <2>1
  <1>6. /\ n = Min({pages * BlockSize, Len(content) - block * BlockSize})
        /\ n = (IF pages * BlockSize <= f.size - block * BlockSize THEN pages * BlockSize
                ELSE f.size - block * BlockSize)
        /\ pages * BlockSize \in Nat \ {0} /\ n \in Int
    <2>1. n = Min({pages * BlockSize, Len(content) - block * BlockSize})
      BY <1>3 DEF Length
    <2>2. QED
      BY <1>1, <1>5, <2>1, LengthIs
  <1>7. n \in Nat \ {0} /\ n <= entry.size - b * block
    <2>1. PICK p, a : p = pages * BlockSize /\ a = block * BlockSize
      OBVIOUS
    <2>2. p \in Nat \ {0} /\ a = b * block /\ n = IF p <= f.size - a THEN p ELSE f.size - a
      BY <1>4, <1>5, <1>6, <2>1
    <2>3. QED
      BY <1>3, <1>5, <2>2
  <1>8. PICK m : m = Blocks(n) /\ m \in Nat \ {0}
    BY <1>7, BlocksAre
  <1>9. f.absRead = 0 \/ f.read # NoBlock
    <2>1. ASSUME f.absRead # 0, f.read = NoBlock PROVE FALSE
      <3>1. block = MaxSize + 2
        BY <2>1, Sizes DEF ServesRead, NoBlock
      <3>2. Blocks(entry.size) <= entry.size /\ Blocks(entry.size) \in Nat
        BY <1>3, BlocksAre
      <3>3. entry.size <= MaxSize /\ MaxSize \in Nat
        BY <1>1, Sizes DEF TypeOK
      <3>4. QED
        BY <1>3, <3>1, <3>2, <3>3
    <2>2. QED
      BY <2>1
  <1>10. \A q \in 0 .. m - 1 : Path(f, block, n)[q + 1] = Nth(next, entry.first, block + q)
    <2>1. \A i \in 1 .. m : Path(f, block, n)[i] = Nth(next, entry.first, block + (i - 1))
      BY <1>1, <1>2, <1>5, <1>7, <1>8, <1>9, ServedPath
    <2>2. \A q \in 0 .. m - 1 : q + 1 \in 1 .. m /\ (q + 1) - 1 = q
      BY <1>8
    <2>3. QED
      BY <2>1, <2>2
  <1>11. PICK bytes : bytes = BytesRead(f, block, n)
    OBVIOUS
  <1>12. /\ bytes \in Seq(Byte) /\ Len(bytes) = n
         /\ \A q \in 0 .. m - 1, r \in Offset :
               BlockSize * q + r < n /\ Path(f, block, n)[q + 1] \in DataCluster =>
                  bytes[(BlockSize * q + r) + 1] = data[Path(f, block, n)[q + 1]][r]
    BY <1>1, <1>5, <1>7, <1>8, <1>11, BytesReadAre
  <1>13. ASSUME NEW i \in DOMAIN bytes PROVE Gives(bytes[i], block * BlockSize + i)
    <2>1. i \in 1 .. n
      BY <1>7, <1>12
    <2>2. PICK j \in Nat : j = i - 1 /\ j < n /\ i = j + 1
      BY <1>7, <2>1
    <2>3. PICK q \in 0 .. m - 1, r \in Offset : q = j \div BlockSize /\ r = j % BlockSize /\ j = BlockSize * q + r
      <3>1. j \div BlockSize \in 0 .. m - 1
        BY <1>7, <1>8, <2>2, InBlocks
      <3>2. j % BlockSize \in Offset /\ j = BlockSize * (j \div BlockSize) + (j % BlockSize)
        BY Divided DEF Offset
      <3>3. QED
        BY <3>1, <3>2
    <2>4. PICK l \in Nat : /\ l = b * block + j /\ l < Len(content)
                           /\ l \div BlockSize = block + q /\ l % BlockSize = r
      <3>1. PICK l \in Nat : l = b * block + j /\ l < Len(content)
        <4>1. b * block + j \in Nat /\ b * block + j < Len(content)
          BY <1>3, <1>5, <1>7, <2>2
        <4>2. QED
          BY <4>1
      <3>2. l = BlockSize * (block + q) + r
        <4>1. b * (block + q) = b * block + b * q /\ b * q \in Nat
          BY <1>4, <1>5
        <4>2. b * block + (b * q + r) = (b * block + b * q) + r
          BY <1>5, <4>1 DEF Offset
        <4>3. QED
          BY <1>4, <2>3, <3>1, <4>1, <4>2
      <3>3. block + q \in Nat /\ r \in 0 .. BlockSize - 1
        BY <1>5 DEF Offset
      <3>4. QED
        BY <3>1, <3>2, <3>3, DividedAt
    <2>5. l + 1 \in 1 .. Len(content) /\ (l + 1) - 1 = l /\ l + 1 = block * BlockSize + i
      <3>1. Len(content) \in Nat
        BY <1>3
      <3>2. l + 1 = b * block + i
        <4>1. PICK a \in Nat : a = b * block
          BY <1>5
        <4>2. l = a + j /\ i = j + 1
          BY <2>2, <2>4, <4>1
        <4>3. l + 1 = a + i
          BY <4>2
        <4>4. QED
          BY <4>1, <4>3
      <3>3. QED
        BY <1>4, <1>5, <2>4, <3>1, <3>2
    <2>6. ASSUME content[l + 1] # Blank PROVE bytes[i] = content[l + 1]
      <3>1. PICK c : c = Nth(next, entry.first, block + q)
        OBVIOUS
      <3>2. c \in DataCluster /\ data[c][r] = content[l + 1]
        BY <1>1, <2>4, <2>5, <2>6, <3>1 DEF Holds
      <3>3. Path(f, block, n)[q + 1] = c
        BY <1>10, <3>1
      <3>4. bytes[(BlockSize * q + r) + 1] = data[c][r]
        BY <1>12, <2>2, <2>3, <3>2, <3>3
      <3>5. QED
        BY <2>2, <2>3, <3>2, <3>4
    <2>7. QED
      BY <2>5, <2>6 DEF Gives
  <1>14. QED
    BY <1>6, <1>11, <1>12, <1>13

\* A read that the position of its handle serves gives the bytes that were last
\* written to those places of the file, and as many as the file has there, for
\* any size of a block and of a read (pfs_fat32_read, pfs_fuse_read).
THEOREM FileReadsServed == Spec => []ReadsGiveContents
  <1>1. IInv => ReadsGiveContents
    BY ServedBytes DEF ReadsGiveContents
  <1>2. QED
    BY <1>1, Inductive, PTL

=============================================================================
