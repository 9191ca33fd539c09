---------------------------- MODULE Viewer_proofs ----------------------------
(***************************************************************************)
(* Proofs about Viewer.  The block cache, for any size of the resource, of *)
(* the blocks and of the cache: a block is in one slot at most, a slot no  *)
(* failed read has touched holds its block, and the blocks read last stay  *)
(* in the cache.  The cursor, for any resources that do not begin with an  *)
(* empty line, any windows and any failures: it is where it says it is,    *)
(* and Find stops at the first match.                                      *)
(***************************************************************************)
EXTENDS Viewer, Induction, SequenceTheorems, FiniteSetTheorems

-----------------------------------------------------------------------------
(* Numbers. *)

LEMMA DivisionFacts ==
    ASSUME NEW o \in Nat, NEW b \in Nat \ {0}
    PROVE  /\ o \div b \in Nat
           /\ o % b \in 0 .. b - 1
           /\ o = (o \div b) * b + (o % b)
OBVIOUS

LEMMA DivisionMonotone ==
    ASSUME NEW o \in Nat, NEW p \in Nat, o <= p, NEW b \in Nat \ {0}
    PROVE  o \div b <= p \div b
BY DivisionFacts

-----------------------------------------------------------------------------
(* Sequences without repetition. *)

Once(q) == \A j, k \in 1 .. Len(q) : q[j] = q[k] => j = k

LEMMA RangeIs ==
    ASSUME NEW E, NEW q \in Seq(E)
    PROVE  Range(q) = {q[k] : k \in 1 .. Len(q)}
BY DEF Range

LEMMA RangeCounted ==
    ASSUME NEW E, NEW q \in Seq(E), Once(q)
    PROVE  Cardinality(Range(q)) = Len(q)
<1>1. q \in [1 .. Len(q) -> Range(q)]
  BY RangeIs
<1>2. q \in Bijection(1 .. Len(q), Range(q))
  BY <1>1, RangeIs DEF Once, Bijection, Injection, Surjection, IsInjective
<1> QED
  BY <1>2, FS_CountingElements DEF ExistsBijection

LEMMA PositionIs ==
    ASSUME NEW E, NEW q \in Seq(E), Once(q), NEW k \in 1 .. Len(q)
    PROVE  Position(q, q[k]) = k
<1>1. \A j \in DOMAIN q : q[j] = q[k] => j = k
  BY DEF Once
<1> QED
  BY <1>1 DEF Position

LEMMA Removed ==
    ASSUME NEW E, NEW q \in Seq(E), NEW i \in 1 .. Len(q)
    PROVE  /\ RemoveAt(q, i) \in Seq(E)
           /\ Len(RemoveAt(q, i)) = Len(q) - 1
           /\ \A j \in 1 .. i - 1 : RemoveAt(q, i)[j] = q[j]
           /\ \A j \in i .. Len(q) - 1 : RemoveAt(q, i)[j] = q[j + 1]
<1> DEFINE a == SubSeq(q, 1, i - 1)
           b == SubSeq(q, i + 1, Len(q))
<1>1. /\ a \in Seq(E) /\ Len(a) = i - 1
      /\ \A j \in 1 .. i - 1 : a[j] = q[j]
  OBVIOUS
<1>2. /\ b \in Seq(E) /\ Len(b) = Len(q) - i
      /\ \A j \in 1 .. Len(q) - i : b[j] = q[i + j]
  OBVIOUS
<1>3. RemoveAt(q, i) = a \o b
  BY DEF RemoveAt
<1> HIDE DEF a, b
<1>4. /\ a \o b \in Seq(E)
      /\ Len(a \o b) = Len(a) + Len(b)
      /\ \A j \in 1 .. Len(a) + Len(b) :
             (a \o b)[j] = IF j <= Len(a) THEN a[j] ELSE b[j - Len(a)]
  BY <1>1, <1>2, ConcatProperties
<1>5. \A j \in i .. Len(q) - 1 : (a \o b)[j] = q[j + 1]
  <2> TAKE j \in i .. Len(q) - 1
  <2>1. j \in 1 .. Len(a) + Len(b) /\ ~ (j <= Len(a))
    BY <1>1, <1>2
  <2>2. (a \o b)[j] = b[j - (i - 1)]
    BY <1>1, <1>4, <2>1
  <2>3. j - (i - 1) \in 1 .. Len(q) - i /\ i + (j - (i - 1)) = j + 1
    OBVIOUS
  <2> QED
    BY <1>2, <2>2, <2>3
<1> QED
  BY <1>1, <1>2, <1>3, <1>4, <1>5

\* What moving the element at k to the end gives.
MovedLast(q, k) == Append(RemoveAt(q, k), q[k])

LEMMA Moved ==
    ASSUME NEW E, NEW q \in Seq(E), NEW k \in 1 .. Len(q)
    PROVE  /\ MovedLast(q, k) \in Seq(E)
           /\ Len(MovedLast(q, k)) = Len(q)
           /\ \A j \in 1 .. k - 1 : MovedLast(q, k)[j] = q[j]
           /\ \A j \in k .. Len(q) - 1 : MovedLast(q, k)[j] = q[j + 1]
           /\ MovedLast(q, k)[Len(q)] = q[k]
<1> DEFINE r == RemoveAt(q, k)
<1>1. /\ r \in Seq(E) /\ Len(r) = Len(q) - 1
      /\ \A j \in 1 .. k - 1 : r[j] = q[j]
      /\ \A j \in k .. Len(q) - 1 : r[j] = q[j + 1]
  BY Removed
<1> HIDE DEF r
<1>2. /\ Append(r, q[k]) \in Seq(E)
      /\ Len(Append(r, q[k])) = Len(r) + 1
      /\ \A j \in 1 .. Len(r) : Append(r, q[k])[j] = r[j]
      /\ Append(r, q[k])[Len(r) + 1] = q[k]
  <2>1. q[k] \in E
    OBVIOUS
  <2> QED
    BY <1>1, <2>1, AppendProperties
<1>3. \A j \in 1 .. Len(q) - 1 : Append(r, q[k])[j] = r[j]
  BY <1>1, <1>2
<1>4. Len(r) + 1 = Len(q)
  BY <1>1
<1> QED
  BY <1>1, <1>2, <1>3, <1>4 DEF MovedLast, r

LEMMA MovedOnce ==
    ASSUME NEW E, NEW q \in Seq(E), NEW k \in 1 .. Len(q), Once(q)
    PROVE  /\ Once(MovedLast(q, k))
           /\ Range(MovedLast(q, k)) = Range(q)
<1> DEFINE d == MovedLast(q, k)
           at(j) == IF j < k THEN j ELSE IF j < Len(q) THEN j + 1 ELSE k
<1>1. d \in Seq(E) /\ Len(d) = Len(q)
  BY Moved
<1>2. \A j \in 1 .. Len(q) : at(j) \in 1 .. Len(q) /\ d[j] = q[at(j)]
  BY Moved
<1> HIDE DEF d
<1>3. \A i, j \in 1 .. Len(q) : at(i) = at(j) => i = j
  OBVIOUS
<1>4. \A j \in 1 .. Len(q) : \E i \in 1 .. Len(q) : at(i) = j
  <2> TAKE j \in 1 .. Len(q)
  <2>1. CASE j < k
    BY <2>1
  <2>2. CASE j = k
    <3>1. Len(q) \in 1 .. Len(q) /\ at(Len(q)) = j
      BY <2>2
    <3> QED
      BY <3>1
  <2>3. CASE j > k
    <3>1. j - 1 \in 1 .. Len(q) /\ at(j - 1) = j
      BY <2>3
    <3> QED
      BY <3>1
  <2> QED
    BY <2>1, <2>2, <2>3
<1> HIDE DEF at
<1>5. Once(d)
  BY <1>1, <1>2, <1>3 DEF Once
<1>6. Range(d) = Range(q)
  <2>1. Range(d) = {d[j] : j \in 1 .. Len(q)}
    BY <1>1, RangeIs
  <2>2. Range(q) = {q[j] : j \in 1 .. Len(q)}
    BY RangeIs
  <2>3. \A j \in 1 .. Len(q) : d[j] \in {q[i] : i \in 1 .. Len(q)}
    BY <1>2
  <2>4. \A j \in 1 .. Len(q) : \E i \in 1 .. Len(q) : q[j] = d[i]
    BY <1>2, <1>4
  <2> QED
    BY <2>1, <2>2, <2>3, <2>4
<1> QED
  BY <1>5, <1>6 DEF d
-----------------------------------------------------------------------------
(* The inductive invariant.  That the blocks read last are cached rests on  *)
(* the order of the slots and the order of the reads being the same.        *)

\* No slot is twice in the order, and the slot at a place of the order holds
\* the block at that place of the last reads.
SameAge ==
    /\ Once(order)
    /\ Len(recent) = Len(order)
    /\ \A k \in 1 .. Len(order) : block[order[k]].index = recent[k]

Inv ==
    /\ TypeOK
    /\ SameAge
    /\ CachedOnce
    /\ UntouchedIsFaithful

LEMMA BlockOfOffset ==
    ASSUME NEW o \in Offsets
    PROVE  /\ o \div BlockSize \in Indices
           /\ o % BlockSize \in 0 .. BlockSize - 1
           /\ o = (o \div BlockSize) * BlockSize + (o % BlockSize)
           /\ Length(o \div BlockSize) \in 1 .. BlockSize
<1>1. o \in Nat /\ Total - 1 \in Nat /\ o <= Total - 1
  BY TotalAssumption DEF Offsets
<1>2. /\ o \div BlockSize \in Nat
      /\ o % BlockSize \in 0 .. BlockSize - 1
      /\ o = (o \div BlockSize) * BlockSize + (o % BlockSize)
  BY <1>1, BlockSizeAssumption, DivisionFacts
<1>3. o \div BlockSize <= (Total - 1) \div BlockSize
  BY <1>1, BlockSizeAssumption, DivisionMonotone
<1>4. (Total - 1) \div BlockSize \in Nat
  BY <1>1, BlockSizeAssumption, DivisionFacts
<1>5. o \div BlockSize \in Indices
  BY <1>2, <1>3, <1>4 DEF Indices
<1> DEFINE start == (o \div BlockSize) * BlockSize
<1>6. start \in Nat
  BY <1>2, BlockSizeAssumption
<1>7. start <= o
  BY <1>1, <1>2, <1>6, BlockSizeAssumption
<1> HIDE DEF start
<1>8. Least(BlockSize, Total - start) \in 1 .. BlockSize
  BY <1>1, <1>6, <1>7, BlockSizeAssumption, TotalAssumption DEF Least
<1> QED
  BY <1>2, <1>5, <1>8 DEF Length, start

LEMMA FilledBuffer ==
    ASSUME NEW buffer \in Buffers, NEW o \in Offsets,
           NEW n \in 0 .. Length(o \div BlockSize)
    PROVE  Filled(buffer, o \div BlockSize, n) \in Buffers
<1> DEFINE i == o \div BlockSize
<1>1. i \in Nat /\ i * BlockSize \in Nat /\ n \in Nat
      /\ n <= Total - i * BlockSize
  BY BlockOfOffset, TotalAssumption, BlockSizeAssumption
     DEF Length, Least, Indices, Offsets
<1>2. \A k \in 1 .. BlockSize : k <= n => i * BlockSize + k - 1 \in Offsets
  BY <1>1, TotalAssumption, BlockSizeAssumption DEF Offsets
<1> QED
  BY <1>2 DEF Filled, Buffers

LEMMA VictimIsSlot ==
    ASSUME TypeOK
    PROVE  /\ Victim \in Slots
           /\ Invalid # {} => Victim \in Invalid
           /\ Invalid = {} => Len(order) > 0 /\ Victim = order[1]
<1>1. CASE Invalid # {}
  <2>1. \E s \in Invalid : \A t \in Invalid : t <= s
    <3> DEFINE T == {CacheBlocks - s : s \in Invalid}
    <3>1. T \in SUBSET Nat /\ T # {}
      BY <1>1, CacheBlocksAssumption DEF Invalid, Slots
    <3>2. PICK m \in T : \A n \in T : m <= n
      BY <3>1, LeastNumber, Zenon
    <3>3. PICK s \in Invalid : m = CacheBlocks - s
      BY <3>2
    <3>4. \A t \in Invalid : CacheBlocks - s <= CacheBlocks - t
      BY <3>2, <3>3
    <3> QED
      BY <3>3, <3>4, CacheBlocksAssumption DEF Invalid, Slots
  <2>2. LastInvalid \in Invalid
    BY <2>1 DEF LastInvalid
  <2> QED
    BY <1>1, <2>2 DEF Victim, Invalid
<1>2. CASE Invalid = {}
  <2>1. Range(order) = Slots
    BY <1>2 DEF TypeOK
  <2>2. 1 \in Slots
    BY CacheBlocksAssumption DEF Slots
  <2>3. Len(order) > 0 /\ order[1] \in Slots /\ Head(order) = order[1]
    BY <2>1, <2>2, RangeIs DEF TypeOK
  <2> QED
    BY <1>2, <2>3 DEF Victim
<1> QED
  BY <1>1, <1>2

LEMMA OrderCounted ==
    ASSUME TypeOK, Once(order)
    PROVE  /\ Invalid # {} => Len(order) < CacheBlocks
           /\ Invalid = {} => Len(order) = CacheBlocks
<1>1. Cardinality(Slots \ Invalid) = Len(order)
  BY RangeCounted DEF TypeOK
<1>2. IsFiniteSet(Slots) /\ Cardinality(Slots) = CacheBlocks
  BY CacheBlocksAssumption, FS_Interval DEF Slots
<1>3. Cardinality(Slots \ Invalid) <= CacheBlocks
      /\ (Slots \ Invalid # Slots => Cardinality(Slots \ Invalid) # CacheBlocks)
  BY <1>2, FS_Subset
<1>4. Invalid # {} => Slots \ Invalid # Slots
  BY DEF Invalid
<1>5. Len(order) \in Nat
  BY DEF TypeOK
<1>6. CASE Invalid # {}
  BY <1>1, <1>3, <1>4, <1>5, <1>6, CacheBlocksAssumption
<1>7. CASE Invalid = {}
  <2>1. Slots \ Invalid = Slots
    BY <1>7
  <2> QED
    BY <1>1, <1>2, <1>7, <2>1
<1> QED
  BY <1>6, <1>7

LEMMA Initially ==
    ASSUME Init
    PROVE  Inv
<1>1. PICK n \in 1 .. BlockSize :
        /\ Brings(0, n)
        /\ block = [s \in Slots |->
                       IF s = CacheBlocks THEN Received(0, n) ELSE None]
        /\ data = [s \in Slots |->
                      IF s = CacheBlocks
                      THEN Filled([k \in 1 .. BlockSize |-> None], 0, n)
                      ELSE [k \in 1 .. BlockSize |-> None]]
  BY DEF Init
<1>2. /\ order = <<CacheBlocks>> /\ answer = None
      /\ clobbered = {} /\ recent = <<0>>
  BY DEF Init
<1>3. CacheBlocks \in Slots
  BY CacheBlocksAssumption DEF Slots
<1>4. 0 \in Offsets /\ 0 \div BlockSize = 0 /\ 0 \in Indices
  <2>1. 0 \in Offsets
    BY TotalAssumption DEF Offsets
  <2>2. 0 \div BlockSize = 0
    BY BlockSizeAssumption
  <2> QED
    BY <2>1, <2>2, BlockOfOffset
<1>5. n \in 0 .. Length(0 \div BlockSize)
  BY <1>1, <1>4, BlockOfOffset DEF Brings
<1>6. [k \in 1 .. BlockSize |-> None] \in Buffers
  BY DEF Buffers
<1>7. Filled([k \in 1 .. BlockSize |-> None], 0, n) \in Buffers
  BY <1>4, <1>5, <1>6, FilledBuffer
<1>8. Received(0, n) \in Blocks /\ Received(0, n).index = 0
      /\ Received(0, n).length = n /\ Received(0, n) # None
  BY <1>4, NoneAssumption DEF Received, Blocks
<1>9. Invalid = Slots \ {CacheBlocks}
  BY <1>1, <1>8 DEF Invalid
<1>10. TypeOK
  <2>1. block \in [Slots -> Blocks \cup {None}]
    BY <1>1, <1>8
  <2>2. data \in [Slots -> Buffers]
    BY <1>1, <1>6, <1>7
  <2>3. order \in Seq(Slots) /\ Len(order) <= CacheBlocks
    BY <1>2, <1>3, CacheBlocksAssumption
  <2>4. Range(order) = Slots \ Invalid
    BY <1>2, <1>3, <1>9 DEF Range
  <2>5. recent \in Seq(Indices)
    BY <1>2, <1>4
  <2> QED
    BY <1>2, <2>1, <2>2, <2>3, <2>4, <2>5 DEF TypeOK
<1>11. SameAge
  BY <1>1, <1>2, <1>3, <1>8 DEF SameAge, Once
<1>12. CachedOnce
  BY <1>9 DEF CachedOnce
<1>13. UntouchedIsFaithful
  <2> SUFFICES ASSUME NEW s \in Slots \ Invalid,
                      NEW k \in 1 .. block[s].length
               PROVE  data[s][k] = block[s].index * BlockSize + k - 1
    BY DEF UntouchedIsFaithful
  <2>1. s = CacheBlocks /\ block[s] = Received(0, n)
    BY <1>1, <1>9
  <2>2. k \in 1 .. n /\ k \in 1 .. BlockSize
    BY <1>8, <2>1, BlockSizeAssumption
  <2>3. data[s][k] = 0 * BlockSize + k - 1
    BY <1>1, <1>3, <2>1, <2>2 DEF Filled
  <2> QED
    BY <1>8, <2>1, <2>3
<1> QED
  BY <1>10, <1>11, <1>12, <1>13 DEF Inv

(* What a use of the slot at a place of the order does to both orders. *)
LEMMA UsedTogether ==
    ASSUME TypeOK, SameAge, CachedOnce, NEW k \in 1 .. Len(order)
    PROVE  /\ order[k] \in Slots \ Invalid
           /\ Renewed(order[k]) = MovedLast(order, k)
           /\ Noted(recent[k]) = MovedLast(recent, k)
           /\ Once(recent)
<1>1. order \in Seq(Slots) /\ recent \in Seq(Indices) /\ Once(order)
      /\ Len(recent) = Len(order)
  BY DEF TypeOK, SameAge
<1>2. \A j \in 1 .. Len(order) : order[j] \in Slots \ Invalid
  <2>1. Range(order) = Slots \ Invalid
    BY DEF TypeOK
  <2> QED
    BY <1>1, <2>1, RangeIs
<1>3. Renewed(order[k]) = MovedLast(order, k)
  <2>1. order[k] \notin Invalid
    BY <1>2
  <2>2. Position(order, order[k]) = k
    BY <1>1, PositionIs
  <2> QED
    BY <2>1, <2>2 DEF Renewed, MovedLast
<1>4. Once(recent)
  <2> SUFFICES ASSUME NEW i \in 1 .. Len(order), NEW j \in 1 .. Len(order),
                      recent[i] = recent[j]
               PROVE  i = j
    BY <1>1 DEF Once
  <2>1. block[order[i]].index = block[order[j]].index
    BY DEF SameAge
  <2>2. order[i] = order[j]
    BY <1>2, <2>1 DEF CachedOnce
  <2> QED
    BY <1>1, <2>2 DEF Once
<1>5. Noted(recent[k]) = MovedLast(recent, k)
  <2>1. recent[k] \in Range(recent)
    BY <1>1, RangeIs
  <2>2. Position(recent, recent[k]) = k
    BY <1>1, <1>4, PositionIs
  <2> QED
    BY <2>1, <2>2 DEF Noted, MovedLast
<1> QED
  BY <1>2, <1>3, <1>4, <1>5

(* A block is one of the last reads exactly if it is in a slot. *)
LEMMA RecentIffHeld ==
    ASSUME TypeOK, SameAge, NEW i \in Indices
    PROVE  i \in Range(recent) <=> Holding(i) # {}
<1>1. order \in Seq(Slots) /\ recent \in Seq(Indices)
      /\ Len(recent) = Len(order) /\ Range(order) = Slots \ Invalid
  BY DEF TypeOK, SameAge
<1>2. Range(order) = {order[k] : k \in 1 .. Len(order)}
      /\ Range(recent) = {recent[k] : k \in 1 .. Len(order)}
  BY <1>1, RangeIs
<1>3. \A k \in 1 .. Len(order) : block[order[k]].index = recent[k]
  BY DEF SameAge
<1>4. ASSUME NEW k \in 1 .. Len(order), recent[k] = i
      PROVE  order[k] \in Holding(i)
  BY <1>1, <1>2, <1>3, <1>4 DEF Holding, Invalid
<1>5. ASSUME NEW s \in Holding(i)
      PROVE  \E k \in 1 .. Len(order) : recent[k] = i
  <2>1. s \in Slots \ Invalid /\ block[s].index = i
    BY DEF Holding, Invalid
  <2>2. PICK k \in 1 .. Len(order) : order[k] = s
    BY <1>1, <1>2, <2>1
  <2> QED
    BY <1>3, <2>1, <2>2
<1> QED
  BY <1>2, <1>4, <1>5

LEMMA FoundIsAnswer ==
    ASSUME NEW o \in Offsets, NEW b \in Blocks, NEW buffer \in Buffers
    PROVE  Found(o, b, buffer) \in Answers
<1>1. o \in 0 .. Total
  BY TotalAssumption DEF Offsets
<1>2. CASE o % BlockSize >= b.length
  BY <1>1, <1>2 DEF Found, Answers
<1>3. CASE ~ (o % BlockSize >= b.length)
  <2>1. (o % BlockSize) + 1 \in 1 .. BlockSize
    BY BlockOfOffset, BlockSizeAssumption
  <2>2. buffer[(o % BlockSize) + 1] \in Offsets \cup {None}
    BY <2>1 DEF Buffers
  <2> QED
    BY <1>1, <1>3, <2>2 DEF Found, Answers
<1> QED
  BY <1>2, <1>3

LEMMA HitKeeps ==
    ASSUME Inv, NEW o \in Offsets, NEW s \in Slots, Hit(o, s)
    PROVE  Inv'
<1>1. TypeOK /\ SameAge /\ CachedOnce /\ UntouchedIsFaithful
  BY DEF Inv
<1>2. /\ block' = block /\ data' = data /\ clobbered' = clobbered
      /\ Invalid' = Invalid
  BY DEF Hit, Invalid
<1>3. s \in Slots \ Invalid /\ block[s].index = o \div BlockSize
  BY DEF Hit, Holding, Invalid
<1>4. order \in Seq(Slots) /\ recent \in Seq(Indices) /\ Once(order)
      /\ Len(recent) = Len(order) /\ Range(order) = Slots \ Invalid
  BY <1>1 DEF TypeOK, SameAge
<1>5. PICK k \in 1 .. Len(order) : order[k] = s
  BY <1>3, <1>4, RangeIs
<1>6. recent[k] = o \div BlockSize
  BY <1>1, <1>3, <1>5 DEF SameAge
<1>7. order' = MovedLast(order, k) /\ recent' = MovedLast(recent, k)
  BY <1>1, <1>5, <1>6, UsedTogether DEF Hit
<1>8. TypeOK'
  <2>1. order' \in Seq(Slots) /\ Len(order') = Len(order)
        /\ recent' \in Seq(Indices)
    BY <1>4, <1>7, Moved
  <2>2. Range(order') = Slots \ Invalid
    BY <1>4, <1>7, MovedOnce
  <2>3. answer' \in Answers
    <3>1. block[s] \in Blocks /\ data[s] \in Buffers
      BY <1>1, <1>3 DEF TypeOK, Invalid
    <3> QED
      BY <3>1, FoundIsAnswer DEF Hit
  <2> QED
    BY <1>1, <1>2, <2>1, <2>2, <2>3 DEF TypeOK
<1>9. SameAge'
  <2>1. Once(order)'
    <3>1. Once(order')
      BY <1>4, <1>7, MovedOnce
    <3> QED
      BY <3>1 DEF Once
  <2>2. Len(order') = Len(order) /\ Len(recent') = Len(order)
    BY <1>4, <1>7, Moved
  <2>3. ASSUME NEW j \in 1 .. Len(order)
        PROVE  block[order'[j]].index = recent'[j]
    <3>1. \A i \in 1 .. Len(order) : block[order[i]].index = recent[i]
      BY <1>1 DEF SameAge
    <3>2. CASE j < k
      BY <1>4, <1>7, <3>1, <3>2, Moved
    <3>3. CASE j \in k .. Len(order) - 1
      <4>1. order'[j] = order[j + 1] /\ recent'[j] = recent[j + 1]
        <5>1. /\ k \in 1 .. Len(recent) /\ j \in k .. Len(recent) - 1
              /\ recent \in Seq(Indices) /\ order \in Seq(Slots)
          BY <1>4, <3>3
        <5>2. MovedLast(order, k)[j] = order[j + 1]
          BY <3>3, <5>1, Moved
        <5>3. MovedLast(recent, k)[j] = recent[j + 1]
          BY <5>1, Moved
        <5> QED
          BY <1>7, <5>2, <5>3
      <4> QED
        BY <3>1, <3>3, <4>1
    <3>4. CASE j = Len(order)
      <4>1. order'[j] = order[k] /\ recent'[j] = recent[k]
        BY <1>4, <1>7, <3>4, Moved
      <4> QED
        BY <3>1, <4>1
    <3> QED
      BY <1>4, <3>2, <3>3, <3>4
  <2> QED
    BY <1>2, <2>1, <2>2, <2>3 DEF SameAge
<1>10. CachedOnce' /\ UntouchedIsFaithful'
  BY <1>1, <1>2 DEF CachedOnce, UntouchedIsFaithful
<1> QED
  BY <1>8, <1>9, <1>10 DEF Inv

LEMMA FetchFailsKeeps ==
    ASSUME Inv, NEW o \in Offsets, NEW n \in 0 .. BlockSize, FetchFails(o, n)
    PROVE  Inv'
<1> DEFINE i == o \div BlockSize
           s == Victim
<1>1. TypeOK /\ SameAge /\ CachedOnce /\ UntouchedIsFaithful
  BY DEF Inv
<1>2. /\ block' = block /\ order' = order /\ recent' = recent
      /\ Invalid' = Invalid
  BY DEF FetchFails, Invalid
<1>3. /\ n \in 0 .. Length(i)
      /\ data' = [data EXCEPT ![s] = Filled(@, i, n)]
      /\ answer' = [offset |-> o, result |-> "failed", value |-> None]
      /\ clobbered' = IF n > 0 /\ block[s] # None
                      THEN clobbered \cup {s} ELSE clobbered
  BY DEF FetchFails
<1>4. s \in Slots
  BY <1>1, VictimIsSlot
<1> HIDE DEF s
<1>5. TypeOK'
  <2>1. Filled(data[s], i, n) \in Buffers
    BY <1>1, <1>3, <1>4, FilledBuffer DEF TypeOK
  <2>2. data' \in [Slots -> Buffers]
    BY <1>1, <1>3, <2>1 DEF TypeOK
  <2>3. answer' \in Answers
    BY <1>3, TotalAssumption DEF Answers, Offsets
  <2>4. clobbered' \subseteq Slots \ Invalid
    BY <1>1, <1>3, <1>4 DEF TypeOK, Invalid
  <2> QED
    BY <1>1, <1>2, <2>2, <2>3, <2>4 DEF TypeOK
<1>6. SameAge' /\ CachedOnce'
  BY <1>1, <1>2 DEF SameAge, Once, CachedOnce
<1>7. UntouchedIsFaithful'
  <2> SUFFICES ASSUME NEW t \in Slots \ (Invalid \cup clobbered'),
                      NEW k \in 1 .. block[t].length
               PROVE  data'[t][k] = block[t].index * BlockSize + k - 1
    BY <1>2 DEF UntouchedIsFaithful
  <2>1. t \in Slots \ (Invalid \cup clobbered)
    BY <1>3
  <2>2. data[t][k] = block[t].index * BlockSize + k - 1
    BY <1>1, <2>1 DEF UntouchedIsFaithful
  <2>3. data'[t][k] = data[t][k]
    <3>1. CASE t # s
      BY <1>1, <1>3, <3>1 DEF TypeOK
    <3>2. CASE t = s
      <4>1. n = 0
        BY <1>3, <2>1, <3>2, NoneAssumption DEF Invalid
      <4>2. data'[t] = Filled(data[t], i, n)
        BY <1>1, <1>3, <1>4, <3>2 DEF TypeOK
      <4>3. block[t] \in Blocks
        BY <1>1, <2>1 DEF TypeOK, Invalid
      <4>4. k \in 1 .. BlockSize /\ ~ (k <= n)
        BY <4>1, <4>3, BlockSizeAssumption DEF Blocks
      <4> QED
        BY <4>2, <4>4 DEF Filled
    <3> QED
      BY <3>1, <3>2
  <2> QED
    BY <2>2, <2>3
<1> QED
  BY <1>5, <1>6, <1>7 DEF Inv

(* A block that no slot holds is read into the slot least recently used: it *)
(* becomes the latest in both orders, and the oldest goes from both if the  *)
(* cache is full.                                                           *)
LEMMA FetchOrders ==
    ASSUME TypeOK, SameAge, CachedOnce,
           NEW i \in Indices, Missing(i)
    PROVE  LET q == Renewed(Victim)
               r == Noted(i)
           IN /\ q \in Seq(Slots) /\ Len(q) <= CacheBlocks
              /\ r \in Seq(Indices) /\ Len(r) = Len(q)
              /\ Once(q) /\ Range(q) = (Slots \ Invalid) \cup {Victim}
              /\ q[Len(q)] = Victim /\ r[Len(q)] = i
              /\ \A k \in 1 .. Len(q) - 1 : q[k] # Victim
              /\ \A k \in 1 .. Len(q) - 1 : block[q[k]].index = r[k]
<1> DEFINE s == Victim
           q == Renewed(s)
           r == Noted(i)
<1>1. order \in Seq(Slots) /\ recent \in Seq(Indices) /\ Once(order)
      /\ Len(recent) = Len(order) /\ Range(order) = Slots \ Invalid
      /\ \A k \in 1 .. Len(order) : block[order[k]].index = recent[k]
  BY DEF TypeOK, SameAge
<1>2. s \in Slots
  BY VictimIsSlot
<1>3. i \notin Range(recent)
  BY RecentIffHeld DEF Missing
<1>4. CASE Invalid # {}
  <2>1. s \in Invalid /\ Len(order) < CacheBlocks
    BY <1>1, <1>4, VictimIsSlot, OrderCounted
  <2>2. q = Append(order, s) /\ r = Append(recent, i)
    BY <1>1, <1>3, <2>1 DEF Renewed, Noted
  <2> HIDE DEF s, q, r
  <2>3. /\ q \in Seq(Slots) /\ Len(q) = Len(order) + 1
        /\ \A k \in 1 .. Len(order) : q[k] = order[k]
        /\ q[Len(order) + 1] = s
    BY <1>1, <1>2, <2>2, AppendProperties
  <2>4. /\ r \in Seq(Indices) /\ Len(r) = Len(order) + 1
        /\ \A k \in 1 .. Len(order) : r[k] = recent[k]
        /\ r[Len(order) + 1] = i
    BY <1>1, <2>2, AppendProperties
  <2>5. \A k \in 1 .. Len(order) : order[k] # s
    BY <1>1, <2>1, RangeIs
  <2>6. Once(q)
    BY <1>1, <2>3, <2>5 DEF Once
  <2>7. Range(q) = (Slots \ Invalid) \cup {s}
    <3>1. Range(q) = {q[k] : k \in 1 .. Len(order) + 1}
      BY <2>3, RangeIs
    <3>2. Range(order) = {order[k] : k \in 1 .. Len(order)}
      BY <1>1, RangeIs
    <3>3. Range(q) = Range(order) \cup {s}
      BY <1>1, <2>3, <3>1, <3>2
    <3> QED
      BY <1>1, <3>3
  <2>8. Len(q) <= CacheBlocks /\ Len(q) - 1 = Len(order) /\ Len(r) = Len(q)
    BY <1>1, <2>1, <2>3, <2>4, CacheBlocksAssumption
  <2> QED
    BY <1>1, <2>3, <2>4, <2>5, <2>6, <2>7, <2>8 DEF s, q, r
<1>5. CASE Invalid = {}
  <2>1. /\ Len(order) > 0 /\ s = order[1] /\ Len(order) = CacheBlocks
        /\ 1 \in 1 .. Len(order)
    BY <1>1, <1>5, VictimIsSlot, OrderCounted
  <2>2. q = MovedLast(order, 1)
    BY <2>1, UsedTogether
  <2>3. r = Append(Tail(recent), i)
    BY <1>1, <1>3, <2>1 DEF Noted
  <2> HIDE DEF s, q, r
  <2>4. /\ q \in Seq(Slots) /\ Len(q) = Len(order)
        /\ \A k \in 1 .. Len(order) - 1 : q[k] = order[k + 1]
        /\ q[Len(order)] = s
    BY <1>1, <2>1, <2>2, Moved
  <2>5. /\ Tail(recent) \in Seq(Indices) /\ Len(Tail(recent)) = Len(order) - 1
        /\ \A k \in 1 .. Len(order) - 1 : Tail(recent)[k] = recent[k + 1]
    <3>1. recent # <<>>
      BY <1>1, <2>1
    <3> QED
      BY <1>1, <3>1, HeadTailProperties
  <2>6. /\ r \in Seq(Indices) /\ Len(r) = Len(order)
        /\ \A k \in 1 .. Len(order) - 1 : r[k] = recent[k + 1]
        /\ r[Len(order)] = i
    <3> DEFINE u == Tail(recent)
    <3>1. /\ u \in Seq(Indices) /\ Len(u) = Len(order) - 1
          /\ \A k \in 1 .. Len(order) - 1 : u[k] = recent[k + 1]
          /\ r = Append(u, i)
      BY <2>3, <2>5
    <3> HIDE DEF u
    <3>2. /\ r \in Seq(Indices) /\ Len(r) = Len(u) + 1
          /\ \A k \in 1 .. Len(u) : r[k] = u[k]
          /\ r[Len(u) + 1] = i
      BY <3>1, AppendProperties
    <3>3. Len(u) + 1 = Len(order)
      BY <1>1, <3>1
    <3> QED
      BY <3>1, <3>2, <3>3
  <2>7. Once(q) /\ Range(q) = Range(order)
    BY <1>1, <2>1, <2>2, MovedOnce
  <2>8. \A k \in 1 .. Len(order) - 1 : q[k] # s
    BY <1>1, <2>1, <2>4 DEF Once
  <2>9. Range(q) = (Slots \ Invalid) \cup {s}
    BY <1>1, <1>2, <1>5, <2>7
  <2>10. \A k \in 1 .. Len(order) - 1 : block[q[k]].index = r[k]
    BY <1>1, <2>4, <2>6
  <2> QED
    BY <1>1, <2>1, <2>4, <2>6, <2>7, <2>8, <2>9, <2>10 DEF s, q, r
<1> QED
  BY <1>4, <1>5

LEMMA FetchKeeps ==
    ASSUME Inv, NEW o \in Offsets, NEW n \in 0 .. BlockSize, Fetch(o, n)
    PROVE  Inv'
<1> DEFINE i == o \div BlockSize
           s == Victim
<1>1. TypeOK /\ SameAge /\ CachedOnce /\ UntouchedIsFaithful
  BY DEF Inv
<1>2. /\ Missing(i) /\ Brings(i, n)
      /\ block' = [block EXCEPT ![s] = Received(i, n)]
      /\ data' = [data EXCEPT ![s] = Filled(@, i, n)]
      /\ order' = Renewed(s) /\ recent' = Noted(i)
      /\ answer' = Found(o, block'[s], data'[s])
      /\ clobbered' = clobbered \ {s}
  BY DEF Fetch
<1>3. i \in Indices /\ Length(i) \in 1 .. BlockSize
  BY BlockOfOffset
<1>4. n \in 1 .. Length(i) /\ n \in 1 .. BlockSize
  BY <1>2, <1>3, BlockSizeAssumption DEF Brings
<1>5. s \in Slots
  BY <1>1, VictimIsSlot
<1>6. /\ Received(i, n) \in Blocks /\ Received(i, n) # None
      /\ Received(i, n).index = i /\ Received(i, n).length = n
  BY <1>3, <1>4, NoneAssumption DEF Received, Blocks
<1>7. /\ order' \in Seq(Slots) /\ Len(order') <= CacheBlocks
      /\ recent' \in Seq(Indices) /\ Len(recent') = Len(order')
      /\ Once(order') /\ Range(order') = (Slots \ Invalid) \cup {s}
      /\ order'[Len(order')] = s /\ recent'[Len(order')] = i
      /\ \A k \in 1 .. Len(order') - 1 : order'[k] # s
      /\ \A k \in 1 .. Len(order') - 1 : block[order'[k]].index = recent'[k]
  BY <1>1, <1>2, <1>3, FetchOrders
<1> HIDE DEF i, s
<1>8. /\ block' \in [Slots -> Blocks \cup {None}]
      /\ block'[s] = Received(i, n)
      /\ \A t \in Slots : t # s => block'[t] = block[t]
  BY <1>1, <1>2, <1>5, <1>6 DEF TypeOK
<1>9. Invalid' = Invalid \ {s}
  BY <1>5, <1>6, <1>8 DEF Invalid
<1>10. /\ data' \in [Slots -> Buffers]
       /\ data'[s] = Filled(data[s], i, n)
       /\ \A t \in Slots : t # s => data'[t] = data[t]
  <2>1. data \in [Slots -> Buffers] /\ data[s] \in Buffers
    BY <1>1, <1>5 DEF TypeOK
  <2>2. Filled(data[s], i, n) \in Buffers
    BY <1>4, <2>1, FilledBuffer DEF i
  <2> QED
    BY <1>2, <1>5, <2>1, <2>2
<1>11. TypeOK'
  <2>1. Range(order') = Slots \ Invalid'
    BY <1>5, <1>7, <1>9
  <2>2. answer' \in Answers
    BY <1>2, <1>5, <1>6, <1>8, <1>10, FoundIsAnswer
  <2>3. clobbered' \subseteq Slots \ Invalid'
    BY <1>1, <1>2, <1>9 DEF TypeOK
  <2> QED
    BY <1>7, <1>8, <1>10, <2>1, <2>2, <2>3 DEF TypeOK
<1>12. SameAge'
  <2>1. Once(order)'
    BY <1>7 DEF Once
  <2>2. ASSUME NEW k \in 1 .. Len(order')
        PROVE  block'[order'[k]].index = recent'[k]
    <3>1. CASE k = Len(order')
      BY <1>6, <1>7, <1>8, <3>1
    <3>2. CASE k # Len(order')
      <4>1. k \in 1 .. Len(order') - 1
        BY <1>7, <3>2
      <4>2. order'[k] \in Slots /\ order'[k] # s
        BY <1>7, <4>1
      <4> QED
        BY <1>7, <1>8, <4>1, <4>2
    <3> QED
      BY <3>1, <3>2
  <2> QED
    BY <1>7, <2>1, <2>2 DEF SameAge
<1>13. CachedOnce'
  <2> SUFFICES ASSUME NEW t \in Slots \ Invalid', NEW u \in Slots \ Invalid',
                      block'[t].index = block'[u].index
               PROVE  t = u
    BY DEF CachedOnce
  <2>1. \A v \in Slots \ Invalid' : v # s =>
            v \in Slots \ Invalid /\ block'[v] = block[v] /\ block[v].index # i
    BY <1>2, <1>8, <1>9 DEF Missing, Holding, Invalid
  <2>2. block'[s].index = i
    BY <1>6, <1>8
  <2> QED
    BY <1>1, <2>1, <2>2 DEF CachedOnce
<1>14. UntouchedIsFaithful'
  <2> SUFFICES ASSUME NEW t \in Slots \ (Invalid' \cup clobbered'),
                      NEW k \in 1 .. block'[t].length
               PROVE  data'[t][k] = block'[t].index * BlockSize + k - 1
    BY DEF UntouchedIsFaithful
  <2>1. CASE t = s
    <3>1. block'[t].index = i /\ k \in 1 .. n
      BY <1>6, <1>8, <2>1
    <3>2. k \in 1 .. BlockSize /\ k <= n
      BY <1>4, <3>1, BlockSizeAssumption
    <3> QED
      BY <1>10, <2>1, <3>1, <3>2 DEF Filled
  <2>2. CASE t # s
    <3>1. t \in Slots \ (Invalid \cup clobbered)
      BY <1>2, <1>9, <2>2
    <3>2. block'[t] = block[t] /\ data'[t] = data[t]
      BY <1>8, <1>10, <2>2
    <3>3. \A j \in 1 .. block[t].length :
              data[t][j] = block[t].index * BlockSize + j - 1
      BY <1>1, <3>1 DEF UntouchedIsFaithful
    <3> QED
      BY <3>2, <3>3
  <2> QED
    BY <2>1, <2>2
<1> QED
  BY <1>11, <1>12, <1>13, <1>14 DEF Inv

LEMMA PastEndKeeps ==
    ASSUME Inv, NEW o \in 0 .. Total, PastEnd(o)
    PROVE  Inv'
<1>1. /\ UNCHANGED <<block, data, order, clobbered, recent>>
      /\ answer' = [offset |-> o, result |-> "end", value |-> None]
  BY DEF PastEnd, cache, ghosts
<1>2. Invalid' = Invalid
  BY <1>1 DEF Invalid
<1>3. answer' \in Answers
  BY <1>1 DEF Answers
<1>4. TypeOK'
  BY <1>1, <1>2, <1>3 DEF Inv, TypeOK
<1>5. SameAge' /\ CachedOnce' /\ UntouchedIsFaithful'
  BY <1>1, <1>2 DEF Inv, SameAge, Once, CachedOnce, UntouchedIsFaithful
<1> QED
  BY <1>4, <1>5 DEF Inv

(* The invariant holds: neither what is in the cache nor the order in which *)
(* it is given up is ever in doubt, whichever reads fail or come short.     *)
THEOREM InvHolds == Spec => []Inv
<1>1. Init => Inv
  BY Initially
<1>2. Inv /\ [Next]_vars => Inv'
  <2> SUFFICES ASSUME Inv, [Next]_vars
               PROVE  Inv'
    OBVIOUS
  <2>1. CASE UNCHANGED vars
    <3>1. UNCHANGED <<block, data, order, answer, clobbered, recent>>
      BY <2>1 DEF vars, cache, ghosts
    <3>2. Invalid' = Invalid
      BY <3>1 DEF Invalid
    <3> QED
      BY <3>1, <3>2
         DEF Inv, TypeOK, SameAge, Once, CachedOnce, UntouchedIsFaithful
  <2>2. ASSUME NEW o \in 0 .. Total, RemoteByte(o)
        PROVE  Inv'
    <3>1. CASE PastEnd(o)
      BY <3>1, PastEndKeeps
    <3>2. ASSUME o < Total
          PROVE  o \in Offsets
      BY <3>2, TotalAssumption DEF Offsets
    <3>3. ASSUME o < Total, NEW s \in Slots, Hit(o, s)
          PROVE  Inv'
      BY <3>2, <3>3, HitKeeps
    <3>4. ASSUME o < Total, NEW n \in 0 .. BlockSize, Fetch(o, n)
          PROVE  Inv'
      BY <3>2, <3>4, FetchKeeps
    <3>5. ASSUME o < Total, NEW n \in 0 .. BlockSize, FetchFails(o, n)
          PROVE  Inv'
      BY <3>2, <3>5, FetchFailsKeeps
    <3> QED
      BY <2>2, <3>1, <3>3, <3>4, <3>5 DEF RemoteByte
  <2> QED
    BY <2>1, <2>2 DEF Next
<1> QED
  BY <1>1, <1>2, PTL DEF Spec

(* Every variable keeps its type, and the order lists the valid slots.      *)
THEOREM TypeCorrect == Spec => []TypeOK
<1>1. Inv => TypeOK
  BY DEF Inv
<1> QED
  BY <1>1, InvHolds, PTL

(* remote_block never leaves a block in two slots of the cache.             *)
THEOREM BlocksCachedOnce == Spec => []CachedOnce
<1>1. Inv => CachedOnce
  BY DEF Inv
<1> QED
  BY <1>1, InvHolds, PTL

(* A slot holds the bytes of its block as long as no read into it failed.   *)
THEOREM SlotsAreFaithful == Spec => []UntouchedIsFaithful
<1>1. Inv => UntouchedIsFaithful
  BY DEF Inv
<1> QED
  BY <1>1, InvHolds, PTL

(* The blocks read last are cached, as many as there are slots.             *)
THEOREM LastReadsAreCached == Spec => []RecentIsCached
<1>1. ASSUME Inv
      PROVE  RecentIsCached
  <2>1. TypeOK /\ SameAge
    BY <1>1 DEF Inv
  <2> SUFFICES ASSUME NEW k \in DOMAIN recent
               PROVE  Holding(recent[k]) # {}
    BY DEF RecentIsCached
  <2>2. recent \in Seq(Indices) /\ k \in 1 .. Len(recent)
    BY <2>1 DEF TypeOK
  <2>3. recent[k] \in Indices /\ recent[k] \in Range(recent)
    BY <2>2, RangeIs
  <2> QED
    BY <2>1, <2>3, RecentIffHeld
<1> QED
  BY <1>1, InvHolds, PTL

-----------------------------------------------------------------------------
(* Lines of the resource. *)

\* The least and the greatest of a set of numbers.
LEMMA MinIs ==
    ASSUME NEW T \in SUBSET Nat, T # {}
    PROVE  Screen!Min(T) \in T /\ \A k \in T : Screen!Min(T) <= k
<1>1. \E m \in T : \A k \in T : m <= k
  BY LeastNumber
<1> QED BY <1>1 DEF Screen!Min

LEMMA MaxIs ==
    ASSUME NEW n \in Nat, NEW T \in SUBSET (0 .. n), T # {}
    PROVE  Screen!Max(T) \in T /\ \A k \in T : k <= Screen!Max(T)
<1>1. \E m \in T : \A k \in T : m >= k
  BY GreatestNumber
<1> DEFINE m == Screen!Max(T)
<1>2. m \in T /\ \A k \in T : m >= k
  BY <1>1 DEF Screen!Max
<1>3. \A k \in T : k \in Int
  OBVIOUS
<1> HIDE DEF m
<1>4. \A k \in T : k <= m
  BY <1>2, <1>3
<1> QED BY <1>2, <1>4 DEF m

\* What the positions that are none are told by.
LEMMA Edges ==
    /\ Screen!AtEdge \in Int /\ Screen!AtEdge < 0
    /\ Screen!Failed \in Int /\ Screen!Failed < 0 /\ Screen!AtEdge # Screen!Failed
  BY DEF Screen!AtEdge, Screen!Failed

\* What text is in any state, and that it does not begin with an empty line.
TextType == text \in Seq({Newline, Match, Other})
LineFirst == Screen!Size > 0 => ~Screen!IsNewline(0)

\* The line at b follows the one at a.
Follows(a, b) ==
    /\ a \in Screen!LineStarts /\ b \in Screen!LineStarts /\ a < b
    /\ Screen!IsNewline(b - 1)
    /\ \A i \in a .. b - 2 : ~Screen!IsNewline(i)

\* Where lines start.
LEMMA LineStartsAre ==
    ASSUME TextType
    PROVE  /\ Screen!Size \in Nat
           /\ Screen!LineStarts \subseteq 0 .. Screen!Size
           /\ \A o \in Screen!LineStarts : o = 0 \/ (o \in 1 .. Screen!Size - 1 /\ Screen!IsNewline(o - 1))
           /\ \A o \in 1 .. Screen!Size - 1 : Screen!IsNewline(o - 1) => o \in Screen!LineStarts
<1>1. Screen!Size \in Nat
  BY DEF TextType, Screen!Size
<1>2. Screen!LineStarts \subseteq 0 .. Screen!Size
  BY <1>1 DEF Screen!LineStarts
<1>3. \A o \in Screen!LineStarts : o = 0 \/ (o \in 1 .. Screen!Size - 1 /\ Screen!IsNewline(o - 1))
  BY DEF Screen!LineStarts
<1>4. \A o \in 1 .. Screen!Size - 1 : Screen!IsNewline(o - 1) => o \in Screen!LineStarts
  BY DEF Screen!LineStarts
<1> QED BY <1>1, <1>2, <1>3, <1>4

\* The next line is found, unless a read fails or there is none.
LEMMA NextLineIs ==
    ASSUME TextType, NEW from \in Screen!LineStarts, NEW bad
    PROVE  /\ \/ Screen!NextLine(from, bad) \in {Screen!AtEdge, Screen!Failed}
              \/ Screen!NextLine(from, bad) >= 0 /\ Follows(from, Screen!NextLine(from, bad))
           /\ Screen!NextLine(from, bad) = Screen!AtEdge => \A o \in Screen!LineStarts : o <= from
           /\ bad = {} => Screen!NextLine(from, bad) # Screen!Failed
<1> DEFINE stops == Screen!Stops(from .. Screen!Size - 1, bad)
           m == Screen!Min(stops)
<1>1. Screen!Size \in Nat /\ from \in Nat /\ from \in 0 .. Screen!Size
  BY LineStartsAre
<1>2. /\ stops \subseteq from .. Screen!Size - 1
      /\ \A i \in from .. Screen!Size - 1 : i \notin stops => ~Screen!IsNewline(i)
      /\ \A i \in stops : Screen!Bad(i, bad) \/ Screen!IsNewline(i)
      /\ bad = {} => \A i \in stops : ~Screen!Bad(i, bad)
  BY DEF Screen!Stops, Screen!Bad
<1>3. CASE stops = {}
  <2>1. Screen!NextLine(from, bad) = Screen!AtEdge
    BY <1>3 DEF Screen!NextLine
  <2>2. \A o \in Screen!LineStarts : o <= from
    BY <1>1, <1>2, <1>3, LineStartsAre
  <2> QED BY <2>1, <2>2, Edges
<1>4. CASE stops # {}
  <2>1. stops \in SUBSET Nat
    BY <1>1, <1>2
  <2>2. m \in stops /\ \A k \in stops : m <= k
    BY <2>1, <1>4, MinIs
  <2>3. Screen!NextLine(from, bad) = IF Screen!Bad(m, bad) THEN Screen!Failed
            ELSE IF m + 1 = Screen!Size THEN Screen!AtEdge ELSE m + 1
    BY <1>4 DEF Screen!NextLine
  <2> HIDE DEF stops, m
  <2>4. m \in from .. Screen!Size - 1 /\ \A i \in from .. m - 1 : ~Screen!IsNewline(i)
    BY <1>1, <1>2, <2>2
  <2>5. CASE Screen!Bad(m, bad)
    <3>1. Screen!NextLine(from, bad) = Screen!Failed /\ bad # {}
      BY <2>3, <2>5, <2>2, <1>2
    <3> QED BY <3>1, Edges
  <2>6. CASE ~Screen!Bad(m, bad) /\ m + 1 = Screen!Size
    <3>1. Screen!NextLine(from, bad) = Screen!AtEdge
      BY <2>3, <2>6
    <3>2. \A o \in Screen!LineStarts : o <= from
      BY <1>1, <2>4, <2>6, LineStartsAre
    <3> QED BY <3>1, <3>2, Edges
  <2>7. CASE ~Screen!Bad(m, bad) /\ m + 1 # Screen!Size
    <3>1. Screen!NextLine(from, bad) = m + 1
      BY <2>3, <2>7
    <3>2. Screen!IsNewline(m)
      BY <2>2, <2>7, <1>2
    <3>3. m + 1 \in 1 .. Screen!Size - 1 /\ (m + 1) - 1 = m /\ (m + 1) - 2 = m - 1 /\ m + 1 > from /\ m + 1 >= 0
      BY <1>1, <2>4, <2>7
    <3>4. m + 1 \in Screen!LineStarts
      BY <3>2, <3>3, LineStartsAre
    <3>5. Follows(from, m + 1)
      BY <3>2, <3>3, <3>4, <2>4 DEF Follows
    <3> QED BY <3>1, <3>3, <3>5, Edges
  <2> QED BY <2>5, <2>6, <2>7
<1> QED BY <1>3, <1>4

\* The line before a position is found, unless a read fails or there is none.
LEMMA LineBefore ==
    ASSUME TextType, LineFirst, NEW from \in 1 .. Screen!Size, NEW bad
    PROVE  /\ \/ Screen!PreviousLine(from, bad) = Screen!Failed
              \/ /\ Screen!PreviousLine(from, bad) \in Screen!LineStarts
                 /\ Screen!PreviousLine(from, bad) < from
                 /\ \A i \in Screen!PreviousLine(from, bad) .. from - 2 : ~Screen!IsNewline(i)
           /\ bad = {} => Screen!PreviousLine(from, bad) # Screen!Failed
<1> DEFINE over == Screen!OverNewline(from)
           stops == Screen!Stops(0 .. over, bad)
           m == Screen!Max(stops)
<1>1. Screen!Size \in Nat /\ from \in Nat /\ Screen!Size > 0
  BY LineStartsAre
<1>2. over \in 0 .. from - 1 /\ \A i \in over + 1 .. from - 2 : ~Screen!IsNewline(i)
  BY <1>1 DEF Screen!OverNewline
<1>3. /\ stops \subseteq 0 .. over
      /\ \A i \in 0 .. over : i \notin stops => ~Screen!IsNewline(i)
      /\ \A i \in stops : Screen!Bad(i, bad) \/ Screen!IsNewline(i)
      /\ bad = {} => \A i \in stops : ~Screen!Bad(i, bad)
  BY DEF Screen!Stops, Screen!Bad
<1>4. CASE Screen!Bad(from - 1, bad)
  BY <1>1, <1>4, Edges DEF Screen!PreviousLine, Screen!Bad
<1>5. CASE ~Screen!Bad(from - 1, bad) /\ stops = {}
  <2>1. Screen!PreviousLine(from, bad) = 0
    BY <1>1, <1>5 DEF Screen!PreviousLine
  <2>2. \A i \in 0 .. from - 2 : ~Screen!IsNewline(i)
    BY <1>1, <1>2, <1>3, <1>5
  <2>3. 0 \in Screen!LineStarts
    BY DEF Screen!LineStarts
  <2> QED BY <2>1, <2>2, <2>3, <1>1, Edges
<1>6. CASE ~Screen!Bad(from - 1, bad) /\ stops # {}
  <2>1. over \in Nat
    BY <1>1, <1>2
  <2>2. m \in stops /\ \A k \in stops : k <= m
    BY <2>1, <1>3, <1>6, MaxIs
  <2>3. Screen!PreviousLine(from, bad) = IF Screen!Bad(m, bad) THEN Screen!Failed ELSE m + 1
    BY <1>1, <1>6 DEF Screen!PreviousLine
  <2>4. over = from - 1 => ~Screen!IsNewline(from - 1) \/ from = 1
    BY <1>1 DEF Screen!OverNewline
  <2> HIDE DEF stops, m, over
  <2>5. CASE Screen!Bad(m, bad)
    BY <2>2, <2>3, <2>5, <1>3, Edges
  <2>6. CASE ~Screen!Bad(m, bad)
    <3>1. Screen!PreviousLine(from, bad) = m + 1 /\ Screen!IsNewline(m) /\ m \in 0 .. over
      BY <2>2, <2>3, <2>6, <1>3
    <3>2. m # from - 1
      <4> SUFFICES ASSUME m = from - 1 PROVE FALSE
        OBVIOUS
      <4>1. over = from - 1
        BY <3>1, <1>1, <1>2
      <4>2. from = 1
        BY <4>1, <2>4, <3>1
      <4> QED BY <4>2, <3>1, <1>1 DEF LineFirst
    <3>3. m + 1 \in 1 .. Screen!Size - 1 /\ (m + 1) - 1 = m /\ m + 1 < from
      BY <1>1, <1>2, <3>1, <3>2
    <3>4. m + 1 \in Screen!LineStarts
      BY <3>1, <3>3, LineStartsAre
    <3>5. \A i \in m + 1 .. from - 2 : ~Screen!IsNewline(i)
      BY <1>1, <1>2, <1>3, <2>2, <3>3
    <3> QED BY <3>1, <3>3, <3>4, <3>5, <1>1, Edges
  <2> QED BY <2>5, <2>6
<1> QED BY <1>4, <1>5, <1>6

----------------------------------------------------------------------------
(* Line numbers *)

Before(o) == {i \in 0 .. o - 1 : Screen!IsNewline(i)}

\* The number of a line counts the newlines before it.
LEMMA NumberIs == \A o : Screen!LineNumber(o) = Cardinality(Before(o))
  BY DEF Screen!LineNumber, Screen!Cardinality, Cardinality, Before

LEMMA NumberType ==
    ASSUME NEW o \in Nat
    PROVE  IsFiniteSet(Before(o)) /\ Screen!LineNumber(o) \in 0 .. o
<1>1. IsFiniteSet(0 .. o - 1) /\ Cardinality(0 .. o - 1) = o
  BY FS_Interval
<1>2. Before(o) \in SUBSET (0 .. o - 1)
  BY DEF Before
<1>3. IsFiniteSet(Before(o)) /\ Cardinality(Before(o)) <= o
  BY <1>1, <1>2, FS_Subset
<1> QED BY <1>3, FS_CardinalityType, NumberIs

LEMMA FirstNumber == Screen!LineNumber(0) = 0
<1>1. Before(0) = {}
  BY DEF Before
<1> QED BY <1>1, FS_EmptySet, NumberIs

\* A position further on has no lower number.
LEMMA NumberGrows ==
    ASSUME NEW a \in Nat, NEW b \in Nat, a <= b
    PROVE  Screen!LineNumber(a) <= Screen!LineNumber(b)
<1>1. Before(a) \in SUBSET Before(b)
  BY DEF Before
<1> QED BY <1>1, NumberType, FS_Subset, NumberIs

\* The numbers of two lines in a row.
LEMMA NextNumber ==
    ASSUME TextType, NEW a, NEW b, Follows(a, b)
    PROVE  Screen!LineNumber(b) = Screen!LineNumber(a) + 1
<1>1. a \in Nat /\ b \in Nat /\ a < b /\ Screen!IsNewline(b - 1) /\ \A i \in a .. b - 2 :
          ~Screen!IsNewline(i)
  BY LineStartsAre DEF Follows
<1>2. Before(b) = Before(a) \cup {b - 1}
  BY <1>1 DEF Before
<1>3. b - 1 \notin Before(a)
  BY <1>1 DEF Before
<1> QED BY <1>1, <1>2, <1>3, NumberType, FS_AddElement, NumberIs

----------------------------------------------------------------------------
(* Cursors *)

\* A cursor at the start of a line, whose number is right if it is known.
ExactCursors ==
    {c \in [offset : Screen!LineStarts, line : Int] :
        c.line # Screen!Unknown => c.line = Screen!LineNumber(c.offset)}

LEMMA StartIsExact ==
    ASSUME TextType
    PROVE  Screen!Start \in ExactCursors /\ Screen!Start.offset = 0
<1>1. 0 \in Screen!LineStarts
  BY DEF Screen!LineStarts
<1> QED BY <1>1, FirstNumber DEF Screen!Start, ExactCursors

\* A step of a line comes to the line after or before, with its number, or says
\* that there is none, and then there is none, or that a read failed.
LEMMA MovedOneLine ==
    ASSUME TextType, LineFirst, NEW c \in ExactCursors, NEW back \in BOOLEAN, NEW bad
    PROVE  /\ Screen!Moved(c, back, bad).offset \in Int
           /\ Screen!Moved(c, back, bad).offset >= 0 =>
                /\ Screen!Moved(c, back, bad) \in ExactCursors
                /\ IF back THEN Follows(Screen!Moved(c, back, bad).offset, c.offset)
                           ELSE Follows(c.offset, Screen!Moved(c, back, bad).offset)
           /\ Screen!Moved(c, back, bad).offset < 0 =>
                Screen!Moved(c, back, bad).offset \in {Screen!AtEdge, Screen!Failed}
           /\ Screen!Moved(c, back, bad).offset = Screen!AtEdge =>
                IF back THEN c.offset = 0 ELSE \A o \in Screen!LineStarts : o <= c.offset
           /\ bad = {} => Screen!Moved(c, back, bad).offset # Screen!Failed
<1>1. c.offset \in Screen!LineStarts /\ c.line \in Int /\ (c.line # Screen!Unknown =>
          c.line = Screen!LineNumber(c.offset))
  BY DEF ExactCursors
<1>2. Screen!Size \in Nat /\ Screen!LineStarts \subseteq 0 .. Screen!Size
  BY LineStartsAre
<1>3. CASE ~back
  <2> DEFINE n == Screen!NextLine(c.offset, bad)
             l == Screen!Raised(c.line)
  <2>1. Screen!Moved(c, back, bad) = [offset |-> n, line |-> l]
    BY <1>3 DEF Screen!Moved
  <2>2. /\ n \in {Screen!AtEdge, Screen!Failed} \/ (n >= 0 /\ Follows(c.offset, n))
        /\ n = Screen!AtEdge => \A o \in Screen!LineStarts : o <= c.offset
        /\ bad = {} => n # Screen!Failed
    BY <1>1, NextLineIs
  <2>3. l \in Int /\ (l # Screen!Unknown => c.line # Screen!Unknown /\ l = c.line + 1)
    BY <1>1 DEF Screen!Raised, Screen!Unknown
  <2> HIDE DEF n, l
  <2>4. Follows(c.offset, n) =>
            n \in Screen!LineStarts /\ n \in Nat /\ Screen!LineNumber(n) = Screen!LineNumber(c.offset) + 1
    BY NextNumber, <1>2 DEF Follows
  <2>5. Follows(c.offset, n) => [offset |-> n, line |-> l] \in ExactCursors
    BY <2>3, <2>4, <1>1 DEF ExactCursors
  <2> QED BY <2>1, <2>2, <2>4, <2>5, <1>2, <1>3, Edges
<1>4. CASE back
  <2> DEFINE p == Screen!PreviousLine(c.offset, bad)
             l == Screen!Lowered(c.line)
  <2>1. Screen!Moved(c, back, bad) = [offset |-> p, line |-> l]
    BY <1>4 DEF Screen!Moved
  <2>2. /\ p \in {Screen!AtEdge, Screen!Failed} \/ (p >= 0 /\ Follows(p, c.offset))
        /\ p = Screen!AtEdge => c.offset = 0
        /\ bad = {} => p # Screen!Failed
    <3>1. CASE c.offset = 0
      BY <3>1, Edges DEF Screen!PreviousLine
    <3>2. CASE c.offset # 0
      <4>1. c.offset \in 1 .. Screen!Size - 1 /\ Screen!IsNewline(c.offset - 1) /\ c.offset \in 1 .. Screen!Size
        <5>1. c.offset = 0 \/ (c.offset \in 1 .. Screen!Size - 1 /\ Screen!IsNewline(c.offset - 1))
          BY <1>1, LineStartsAre
        <5> QED BY <5>1, <3>2, <1>2
      <4>2. \/ p = Screen!Failed
            \/ p \in Screen!LineStarts /\ p < c.offset /\ \A i \in p .. c.offset - 2 : ~Screen!IsNewline(i)
        BY <4>1, LineBefore
      <4>3. bad = {} => p # Screen!Failed
        BY <4>1, LineBefore
      <4> HIDE DEF p
      <4>4. CASE p = Screen!Failed
        BY <4>3, <4>4, Edges
      <4>5. CASE p \in Screen!LineStarts /\ p < c.offset /\ \A i \in p .. c.offset - 2 :
                     ~Screen!IsNewline(i)
        <5>1. p >= 0 /\ Follows(p, c.offset)
          BY <4>1, <4>5, <1>1, <1>2 DEF Follows
        <5> QED BY <5>1, Edges
      <4> QED BY <4>2, <4>4, <4>5
    <3> QED BY <3>1, <3>2
  <2> HIDE DEF p
  <2>4. Follows(p, c.offset) =>
          p \in Screen!LineStarts /\ p \in Nat /\ Screen!LineNumber(c.offset) = Screen!LineNumber(p) + 1 /\ Screen!LineNumber(p) \in Nat
    BY NextNumber, NumberType, <1>2 DEF Follows
  <2>5. l \in Int /\ (l # Screen!Unknown => c.line # Screen!Unknown /\ l = c.line - 1)
    BY <1>1 DEF Screen!Lowered, Screen!Unknown
  <2> HIDE DEF l
  <2>6. Follows(p, c.offset) => [offset |-> p, line |-> l] \in ExactCursors
    BY <2>4, <2>5, <1>1 DEF ExactCursors
  <2> QED BY <2>1, <2>2, <2>4, <2>6, <1>2, <1>4, Edges
<1> QED BY <1>3, <1>4

\* The last line, or the first if a read failed.
LEMMA BottomIs ==
    ASSUME TextType, LineFirst, NEW bad
    PROVE  /\ Screen!Bottom(bad) \in ExactCursors
           /\ Screen!Size = 0 \/ Screen!PreviousLine(Screen!Size, bad) # Screen!Failed =>
                \A o \in Screen!LineStarts : o <= Screen!Bottom(bad).offset
           /\ Screen!Size > 0 /\ bad = {} => Screen!PreviousLine(Screen!Size, bad) # Screen!Failed
<1>1. Screen!Size \in Nat /\ 0 \in Screen!LineStarts /\ Screen!LineStarts \subseteq 0 .. Screen!Size
  BY LineStartsAre DEF Screen!LineStarts
<1>2. CASE Screen!Size = 0
  <2>1. Screen!Bottom(bad) = Screen!Start
    BY <1>2 DEF Screen!Bottom
  <2> QED BY <2>1, <1>1, <1>2, StartIsExact
<1>3. CASE Screen!Size # 0
  <2> DEFINE p == Screen!PreviousLine(Screen!Size, bad)
             m == Screen!Max({0, p})
  <2>1. Screen!Size \in 1 .. Screen!Size
    BY <1>1, <1>3
  <2>2. p = Screen!Failed \/ (p \in Screen!LineStarts /\ p < Screen!Size /\ \A i \in p .. Screen!Size - 2 :
            ~Screen!IsNewline(i))
    BY <2>1, LineBefore
  <2>3. bad = {} => p # Screen!Failed
    BY <2>1, LineBefore
  <2>4. Screen!Bottom(bad) = [offset |-> m, line |-> Screen!Unknown]
    BY <1>3 DEF Screen!Bottom
  <2> HIDE DEF p
  <2>5. m = IF p = Screen!Failed THEN 0 ELSE p
    <3>1. p \in Int
      <4>1. p \in Screen!LineStarts => p \in Int
        BY <1>1
      <4>2. Screen!Failed \in Int
        BY Edges
      <4> QED BY <2>2, <4>1, <4>2
    <3>2. \E x \in {0, p} : \A y \in {0, p} : x >= y
      BY <3>1
    <3>3. m \in {0, p} /\ \A y \in {0, p} : m >= y
      BY <3>2 DEF Screen!Max
    <3> HIDE DEF m
    <3> QED BY <3>1, <3>3, <2>2, <1>1, Edges
  <2> HIDE DEF m
  <2>6. m \in Screen!LineStarts
    BY <2>2, <2>5, <1>1
  <2>7. p # Screen!Failed => \A o \in Screen!LineStarts : o <= m
    BY <2>2, <2>5, <1>1, LineStartsAre
  <2>8. Screen!Bottom(bad) \in ExactCursors /\ Screen!Bottom(bad).offset = m
    BY <2>4, <2>6 DEF ExactCursors, Screen!Unknown
  <2> QED BY <2>3, <2>7, <2>8, <1>3 DEF p
<1> QED BY <1>2, <1>3

----------------------------------------------------------------------------
(* Several lines: remote_cursor_move counts its way *)

\* Where the count stands: the cursor, the lines it has come and the result of
\* the last read.
Counts == [cursor : ExactCursors, lines : Nat, result : Int]

\* One line further, unless a read failed or there was no line before.
Counted(b, k, back, bad) ==
    IF b.result < 0
    THEN b
    ELSE IF Screen!Moved(b.cursor, back, bad).offset < 0
    THEN [b EXCEPT !.result = Screen!Moved(b.cursor, back, bad).offset]
    ELSE [cursor |-> Screen!Moved(b.cursor, back, bad), lines |-> k, result |-> 0]

LEMMA CountedType ==
    ASSUME TextType, LineFirst, NEW b \in Counts, NEW k \in Nat, NEW back \in BOOLEAN, NEW bad
    PROVE  Counted(b, k, back, bad) \in Counts
<1> DEFINE next == Screen!Moved(b.cursor, back, bad)
<1>1. next.offset \in Int /\ (next.offset >= 0 => next \in ExactCursors)
  BY MovedOneLine DEF Counts
<1>2. Counted(b, k, back, bad) =
        IF b.result < 0 THEN b
        ELSE IF next.offset < 0 THEN [b EXCEPT !.result = next.offset]
        ELSE [cursor |-> next, lines |-> k, result |-> 0]
  BY DEF Counted
<1> HIDE DEF next
<1> QED BY <1>1, <1>2 DEF Counts

\* The function MovedBy is defined by.
LEMMA MovedByCounts ==
    ASSUME TextType, LineFirst, NEW c \in ExactCursors, NEW n \in Nat, NEW back \in BOOLEAN, NEW bad
    PROVE  \E at : /\ at[0] = [cursor |-> c, lines |-> 0, result |-> 0]
                   /\ \A k \in 1 .. n : at[k] = Counted(at[k - 1], k, back, bad)
                   /\ Screen!MovedBy(c, n, back, bad) =
                        [cursor |-> at[n].cursor, lines |-> at[n].lines,
                            ok |-> at[n].result # Screen!Failed]
<1> DEFINE base == [cursor |-> c, lines |-> 0, result |-> 0]
           Of(f) == [k \in 0 .. n |->
                       IF k = 0 THEN base
                       ELSE LET before == f[k - 1]
                                next == Screen!Moved(before.cursor, back, bad)
                            IN IF before.result < 0
                               THEN before
                               ELSE IF next.offset < 0
                               THEN [before EXCEPT !.result = next.offset]
                               ELSE [cursor |-> next, lines |-> k, result |-> 0]]
           at == CHOOSE f : f = Of(f)
           step == [k \in 1 .. n |-> [b \in Counts |-> Counted(b, k, back, bad)]]
<1>1. Screen!MovedBy(c, n, back, bad) =
        [cursor |-> at[n].cursor, lines |-> at[n].lines, ok |-> at[n].result # Screen!Failed]
  BY DEF Screen!MovedBy
<1>2. \A f : Of(f) = [k \in 0 .. n |-> IF k = 0 THEN base ELSE Counted(f[k - 1], k, back, bad)]
  BY DEF Counted
<1>3. base \in Counts
  BY DEF Counts
<1>4. step \in [1 .. n -> [Counts -> Counts]]
  <2>1. \A k \in 1 .. n : \A b \in Counts : Counted(b, k, back, bad) \in Counts
    BY CountedType
  <2> QED BY <2>1
<1>5. \A k \in 1 .. n : \A b \in Counts : step[k][b] = Counted(b, k, back, bad)
  OBVIOUS
<1> HIDE DEF base, step, Of
<1>6. PICK f \in [0 .. n -> Counts] : f[0] = base /\ \A k \in 1 .. n : f[k] = step[k][f[k - 1]]
  BY <1>3, <1>4, Iterated
<1>7. \A k \in 1 .. n : f[k] = Counted(f[k - 1], k, back, bad)
  BY <1>5, <1>6
<1>8. f = Of(f)
  <2> DEFINE g == [k \in 0 .. n |-> IF k = 0 THEN base ELSE Counted(f[k - 1], k, back, bad)]
  <2>1. \A k \in 0 .. n : f[k] = g[k]
    BY <1>6, <1>7
  <2>2. f = g
    BY <1>6, <2>1
  <2> HIDE DEF g
  <2> QED BY <2>2, <1>2 DEF g
<1>9. at = Of(at)
  BY <1>8
<1> HIDE DEF at
<1>10. at = [k \in 0 .. n |-> IF k = 0 THEN base ELSE Counted(at[k - 1], k, back, bad)]
  BY <1>2, <1>9
<1>11. at[0] = base /\ \A k \in 1 .. n : at[k] = Counted(at[k - 1], k, back, bad)
  BY <1>10
<1> QED BY <1>1, <1>11 DEF base

\* However many lines on, the cursor is exact and as far from where it was as
\* the lines that were counted; if they are too few and no read failed, there
\* is no line further on.
LEMMA MovedByIs ==
    ASSUME TextType, LineFirst, NEW c \in ExactCursors, NEW n \in Nat, NEW back \in BOOLEAN, NEW bad
    PROVE  LET m == Screen!MovedBy(c, n, back, bad)
           IN /\ m.cursor \in ExactCursors
              /\ m.lines \in 0 .. n
              /\ Screen!LineNumber(m.cursor.offset) =
                   IF back THEN Screen!LineNumber(c.offset) - m.lines
                       ELSE Screen!LineNumber(c.offset) + m.lines
              /\ m.ok /\ ~back /\ m.lines < n => \A o \in Screen!LineStarts : o <= m.cursor.offset
<1>1. PICK at : /\ at[0] = [cursor |-> c, lines |-> 0, result |-> 0]
                /\ \A k \in 1 .. n : at[k] = Counted(at[k - 1], k, back, bad)
                /\ Screen!MovedBy(c, n, back, bad) =
                     [cursor |-> at[n].cursor, lines |-> at[n].lines, ok |-> at[n].result # Screen!Failed]
  BY MovedByCounts
<1> DEFINE Good(k) ==
             /\ at[k] \in Counts
             /\ at[k].lines <= k
             /\ Screen!LineNumber(at[k].cursor.offset) =
                  IF back THEN Screen!LineNumber(c.offset) - at[k].lines
                      ELSE Screen!LineNumber(c.offset) + at[k].lines
             /\ at[k].result >= 0 => at[k].lines = k
             /\ at[k].result < 0 /\ at[k].result # Screen!Failed /\ ~back =>
                  \A o \in Screen!LineStarts : o <= at[k].cursor.offset
           G == {k \in 0 .. n : Good(k)}
<1>2. \A x \in ExactCursors :
          x.offset \in Screen!LineStarts /\ x.offset \in Nat /\ Screen!LineNumber(x.offset) \in Nat
  BY LineStartsAre, NumberType DEF ExactCursors
<1>3. Good(0)
  <2>1. at[0] \in Counts
    BY <1>1 DEF Counts
  <2> QED BY <1>1, <1>2, <2>1
<1>4. ASSUME NEW k \in 1 .. n, Good(k - 1)
      PROVE  Good(k)
  <2> DEFINE b == at[k - 1]
             next == Screen!Moved(b.cursor, back, bad)
  <2>1. /\ b \in Counts
        /\ b.cursor \in ExactCursors /\ b.lines \in Nat /\ b.result \in Int
    BY <1>4 DEF Counts
  <2>2. at[k] = Counted(b, k, back, bad)
    BY <1>1
  <2>3. at[k] \in Counts
    BY <2>1, <2>2, CountedType
  <2>4. b.lines <= k - 1
    BY <1>4
  <2>5. Screen!LineNumber(b.cursor.offset) =
          IF back THEN Screen!LineNumber(c.offset) - b.lines ELSE Screen!LineNumber(c.offset) + b.lines
    BY <1>4
  <2>6. b.result >= 0 => b.lines = k - 1
    BY <1>4
  <2>7. b.result < 0 /\ b.result # Screen!Failed /\ ~back => \A o \in Screen!LineStarts :
            o <= b.cursor.offset
    BY <1>4
  <2>8. /\ next.offset \in Int
        /\ next.offset >= 0 =>
             /\ next \in ExactCursors
             /\ IF back THEN Follows(next.offset, b.cursor.offset)
                  ELSE Follows(b.cursor.offset, next.offset)
        /\ next.offset < 0 => next.offset \in {Screen!AtEdge, Screen!Failed}
        /\ next.offset = Screen!AtEdge /\ ~back => \A o \in Screen!LineStarts : o <= b.cursor.offset
    BY <2>1, MovedOneLine
  <2>9. at[k] = IF b.result < 0 THEN b
                ELSE IF next.offset < 0 THEN [b EXCEPT !.result = next.offset]
                ELSE [cursor |-> next, lines |-> k, result |-> 0]
    BY <2>2 DEF Counted
  <2> DEFINE a == at[k]
  <2> HIDE DEF b, next, a
  <2>10. CASE b.result < 0
    <3>1. a = b
      BY <2>9, <2>10 DEF a
    <3>2. a \in Counts /\ a.lines <= k /\ ~(a.result >= 0)
      BY <3>1, <2>1, <2>4, <2>10
    <3> QED BY <3>1, <3>2, <2>5, <2>7 DEF a
  <2>11. CASE ~(b.result < 0) /\ next.offset < 0
    <3>1. a = [b EXCEPT !.result = next.offset]
      BY <2>9, <2>11 DEF a
    <3>2. a.cursor = b.cursor /\ a.lines = b.lines /\ a.result = next.offset
      BY <3>1, <2>1 DEF Counts
    <3>3. a.result < 0 /\ a.result \in Int /\ a.lines <= k
      BY <3>2, <2>1, <2>4, <2>8, <2>11
    <3>4. a.result # Screen!Failed /\ ~back => \A o \in Screen!LineStarts : o <= a.cursor.offset
      BY <3>2, <2>8, <2>11
    <3> QED BY <2>3, <2>5, <3>2, <3>3, <3>4 DEF a
  <2>12. CASE ~(b.result < 0) /\ ~(next.offset < 0)
    <3>1. a = [cursor |-> next, lines |-> k, result |-> 0]
      BY <2>9, <2>12 DEF a
    <3>2. b.lines = k - 1 /\ next \in ExactCursors
      BY <2>1, <2>6, <2>8, <2>12
    <3>3. Screen!LineNumber(next.offset) = IF back THEN Screen!LineNumber(b.cursor.offset) - 1
              ELSE Screen!LineNumber(b.cursor.offset) + 1
      <4>1. CASE back
        <5>1. Screen!LineNumber(b.cursor.offset) = Screen!LineNumber(next.offset) + 1
          BY <4>1, <2>8, <2>12, NextNumber
        <5> QED BY <4>1, <5>1, <3>2, <1>2
      <4>2. CASE ~back
        BY <4>2, <2>8, <2>12, NextNumber
      <4> QED BY <4>1, <4>2
    <3>4. Screen!LineNumber(next.offset) = IF back THEN Screen!LineNumber(c.offset) - k
              ELSE Screen!LineNumber(c.offset) + k
      BY <3>2, <3>3, <2>5, <1>2
    <3>5. a.cursor = next /\ a.lines = k /\ a.result = 0
      BY <3>1
    <3> QED BY <2>3, <3>4, <3>5 DEF a
  <2> QED BY <2>10, <2>11, <2>12
<1> HIDE DEF Good
<1>5. \A k \in 1 .. n : k - 1 \in G => k \in G
  BY <1>4
<1>6. 0 \in G
  BY <1>3
<1> HIDE DEF G
<1>7. n \in G
  BY <1>5, <1>6, UpTo
<1>8. Good(n)
  BY <1>7 DEF G
<1>9. /\ at[n].cursor \in ExactCursors /\ at[n].lines \in 0 .. n
      /\ at[n].result # Screen!Failed /\ ~back /\ at[n].lines < n => \A o \in Screen!LineStarts :
           o <= at[n].cursor.offset
  <2>1. at[n].cursor \in ExactCursors /\ at[n].lines \in Nat /\ at[n].result \in Int
    BY <1>8 DEF Good, Counts
  <2>2. at[n].result # Screen!Failed /\ ~back /\ at[n].lines < n => at[n].result < 0
    BY <1>8, <2>1 DEF Good
  <2> QED BY <1>8, <2>1, <2>2 DEF Good
<1>10. Screen!LineNumber(at[n].cursor.offset) =
         IF back THEN Screen!LineNumber(c.offset) - at[n].lines
             ELSE Screen!LineNumber(c.offset) + at[n].lines
  BY <1>8 DEF Good
<1> QED BY <1>1, <1>9, <1>10

----------------------------------------------------------------------------
(* The commands keep the view exact *)

\* A search under way, at the start of a line.
SearchType ==
    [kind : {"find", "link"}, back : BOOLEAN, at : ExactCursors,
     stage : {"here", "next", "wrap"}, pass : {0, 1},
     wrapped : BOOLEAN, turn : BOOLEAN, failed : BOOLEAN]

\* What CursorState says, with the types it needs.
ViewInv ==
    /\ cursor \in ExactCursors /\ top \in ExactCursors
    /\ row \in Nat
    /\ ~slipped => Screen!LineNumber(cursor.offset) = Screen!LineNumber(top.offset) + row

\* The inductive invariant: a search under way is at the start of a line too.
ScreenInv ==
    /\ text \in Texts
    /\ ViewInv
    /\ search # None => search \in SearchType

LEMMA TextOf ==
    ASSUME Screen!ConstantsAssumption, FirstLines, text \in Texts
    PROVE  TextType /\ LineFirst
<1>1. text \in Seq({Newline, Match, Other})
  BY DEF Screen!ConstantsAssumption
<1> QED BY <1>1 DEF TextType, LineFirst, FirstLines, Screen!Size, Screen!IsNewline

\* What depends on the resource only stays as it is.
LEMMA SameText ==
    ASSUME text' = text
    PROVE  /\ (TextType <=> TextType') /\ (LineFirst <=> LineFirst')
           /\ ExactCursors' = ExactCursors
           /\ SearchType' = SearchType
           /\ cursor' \in ExactCursors /\ top' \in ExactCursors /\ row' \in Nat
                /\ (~slipped' => Screen!LineNumber(cursor'.offset) = Screen!LineNumber(top'.offset) + row') => ViewInv'
<1>1. ExactCursors' = ExactCursors
  BY DEF ExactCursors, Screen!LineStarts, Screen!LineNumber, Screen!Size, Screen!IsNewline
<1>2. SearchType' = SearchType
  BY <1>1 DEF SearchType
<1>3. cursor' \in ExactCursors /\ top' \in ExactCursors /\ row' \in Nat
        /\ (~slipped' => Screen!LineNumber(cursor'.offset) = Screen!LineNumber(top'.offset) + row') =>
             ViewInv'
  BY <1>1 DEF ViewInv, Screen!LineNumber, Screen!IsNewline
<1> QED BY <1>1, <1>2, <1>3 DEF TextType, LineFirst, Screen!Size, Screen!IsNewline

\* Numbers of exact cursors.
LEMMA CursorNumber ==
    ASSUME TextType, NEW c \in ExactCursors
    PROVE  c.offset \in Nat /\ c.offset \in Screen!LineStarts /\ Screen!LineNumber(c.offset) \in Nat
  BY LineStartsAre, NumberType DEF ExactCursors

\* The commands, one after another.
LEMMA PlacedKeeps ==
    ASSUME TextType, text' = text, NEW c \in ExactCursors, Screen!PlaceAt(c)
    PROVE  ViewInv'
<1>1. Screen!LineNumber(c.offset) \in Nat
  BY CursorNumber
<1>2. cursor' = c /\ top' = c /\ row' = 0
  BY DEF Screen!PlaceAt
<1> QED BY <1>1, <1>2, SameText

LEMMA DownKeeps ==
    ASSUME Screen!ConstantsAssumption, TextType, LineFirst, ViewInv, text' = text,
           NEW page \in Pages, NEW bad, Screen!Down(page, bad)
    PROVE  ViewInv'
<1> DEFINE next == Screen!Moved(cursor, FALSE, bad)
           n == Screen!Shift(page)
           m == Screen!MovedBy(top, n, FALSE, bad)
<1>1. /\ next.offset >= 0 /\ cursor' = next
      /\ IF row + 1 < page
         THEN row' = row + 1 /\ UNCHANGED <<top, slipped>>
         ELSE top' = m.cursor /\ row' = page - 1 /\ slipped' = (slipped \/ ~m.ok)
  BY DEF Screen!Down
<1>2. cursor \in ExactCursors /\ top \in ExactCursors /\ row \in Nat
      /\ (~slipped => Screen!LineNumber(cursor.offset) = Screen!LineNumber(top.offset) + row)
  BY DEF ViewInv
<1>3. next.offset \in Int /\ next \in ExactCursors /\ Follows(cursor.offset, next.offset)
  BY <1>1, <1>2, MovedOneLine
<1>4. page \in Nat \ {0}
  BY DEF Screen!ConstantsAssumption
<1>5. /\ Screen!LineNumber(next.offset) = Screen!LineNumber(cursor.offset) + 1
      /\ Screen!LineNumber(cursor.offset) \in Nat /\ Screen!LineNumber(top.offset) \in Nat
      /\ next.offset \in Screen!LineStarts /\ next.offset \in Nat
  BY <1>2, <1>3, NextNumber, CursorNumber
<1> HIDE DEF next
<1>6. CASE row + 1 < page
  <2>1. ~slipped' => Screen!LineNumber(cursor'.offset) = Screen!LineNumber(top'.offset) + row'
    BY <1>1, <1>2, <1>5, <1>6
  <2> QED BY <1>1, <1>2, <1>3, <1>6, <2>1, SameText
<1>7. CASE ~(row + 1 < page)
  <2>1. n \in Nat /\ n = row + 2 - page
    BY <1>2, <1>4, <1>7 DEF Screen!Shift
  <2> HIDE DEF n
  <2>2. /\ m.cursor \in ExactCursors
        /\ m.lines \in 0 .. n
        /\ Screen!LineNumber(m.cursor.offset) = Screen!LineNumber(top.offset) + m.lines
        /\ m.ok /\ m.lines < n => \A o \in Screen!LineStarts : o <= m.cursor.offset
    BY <1>2, <2>1, MovedByIs
  <2> HIDE DEF m
  <2>3. ASSUME ~slipped, m.ok
        PROVE  m.lines = n
    <3> SUFFICES ASSUME m.lines < n
                 PROVE  FALSE
      BY <2>1, <2>2
    <3>1. next.offset <= m.cursor.offset /\ m.cursor.offset \in Nat
      BY <1>5, <2>2, <2>3, CursorNumber
    <3>2. Screen!LineNumber(next.offset) <= Screen!LineNumber(m.cursor.offset)
      BY <3>1, <1>5, NumberGrows
    <3> QED BY <3>2, <2>1, <2>2, <2>3, <1>2, <1>4, <1>5
  <2>4. ~slipped' => Screen!LineNumber(cursor'.offset) = Screen!LineNumber(top'.offset) + row'
    <3>1. ~slipped' => ~slipped /\ m.ok
      BY <1>1, <1>7, Zenon
    <3>2. top' = m.cursor /\ row' = page - 1
      BY <1>1, <1>7
    <3> SUFFICES ASSUME ~slipped'
                 PROVE  Screen!LineNumber(next.offset) = Screen!LineNumber(m.cursor.offset) + (page - 1)
      BY <1>1, <3>2
    <3>3. m.lines = n /\ Screen!LineNumber(cursor.offset) = Screen!LineNumber(top.offset) + row
      BY <3>1, <2>3, <1>2
    <3> QED BY <3>3, <1>2, <1>4, <1>5, <2>1, <2>2
  <2>5. row' \in Nat /\ top' \in ExactCursors /\ cursor' \in ExactCursors
    BY <1>1, <1>3, <1>4, <1>7, <2>2
  <2> QED BY <2>4, <2>5, SameText
<1> QED BY <1>6, <1>7

LEMMA UpKeeps ==
    ASSUME TextType, LineFirst, ViewInv, text' = text, NEW bad, Screen!Up(bad)
    PROVE  ViewInv'
<1> DEFINE next == Screen!Moved(cursor, TRUE, bad)
<1>1. /\ next.offset >= 0
      /\ IF row >= 1
         THEN cursor' = next /\ row' = row - 1 /\ UNCHANGED <<top, slipped>>
         ELSE Screen!PlaceAt(next)
  BY DEF Screen!Up
<1>2. cursor \in ExactCursors /\ top \in ExactCursors /\ row \in Nat
      /\ (~slipped => Screen!LineNumber(cursor.offset) = Screen!LineNumber(top.offset) + row)
  BY DEF ViewInv
<1>3. next.offset \in Int /\ next \in ExactCursors /\ Follows(next.offset, cursor.offset)
  BY <1>1, <1>2, MovedOneLine
<1>4. /\ Screen!LineNumber(cursor.offset) = Screen!LineNumber(next.offset) + 1
      /\ Screen!LineNumber(next.offset) \in Nat /\ Screen!LineNumber(top.offset) \in Nat
  BY <1>2, <1>3, NextNumber, CursorNumber
<1> HIDE DEF next
<1>5. CASE row >= 1
  <2>1. row' \in Nat /\ (~slipped' =>
            Screen!LineNumber(cursor'.offset) = Screen!LineNumber(top'.offset) + row')
    BY <1>1, <1>2, <1>4, <1>5
  <2> QED BY <1>1, <1>2, <1>3, <1>5, <2>1, SameText
<1>6. CASE ~(row >= 1)
  BY <1>1, <1>3, <1>6, PlacedKeeps
<1> QED BY <1>5, <1>6

LEMMA EndKeeps ==
    ASSUME Screen!ConstantsAssumption, TextType, LineFirst, text' = text,
           NEW page \in Pages, NEW bad, Screen!End(page, bad)
    PROVE  ViewInv'
<1> DEFINE c == Screen!Bottom(bad)
           n == page - 1
           up == Screen!MovedBy(c, n, TRUE, bad)
<1>1. cursor' = c /\ top' = up.cursor /\ row' = (IF up.ok THEN up.lines ELSE 0) /\ slipped' = ~up.ok
  BY DEF Screen!End
<1>2. n \in Nat
  BY DEF Screen!ConstantsAssumption
<1>3. c \in ExactCursors
  BY BottomIs
<1> HIDE DEF c, n
<1>4. /\ up.cursor \in ExactCursors /\ up.lines \in 0 .. n
      /\ Screen!LineNumber(up.cursor.offset) = Screen!LineNumber(c.offset) - up.lines
  BY <1>2, <1>3, MovedByIs
<1> HIDE DEF up
<1>5. Screen!LineNumber(c.offset) \in Nat
  BY <1>3, CursorNumber
<1>6. row' \in Nat /\ (~slipped' =>
          Screen!LineNumber(cursor'.offset) = Screen!LineNumber(top'.offset) + row')
  <2>1. ~slipped' => up.ok
    BY <1>1, Zenon
  <2>2. row' = up.lines \/ row' = 0
    BY <1>1
  <2>3. row' \in Nat
    BY <2>2, <1>2, <1>4
  <2>4. up.ok => row' = up.lines
    BY <1>1
  <2> QED BY <1>1, <1>4, <1>5, <2>1, <2>3, <2>4
<1> QED BY <1>1, <1>3, <1>4, <1>6, SameText

LEMMA PlacesKeep ==
    ASSUME Screen!ConstantsAssumption, TextType, LineFirst, ViewInv, text' = text, NEW bad,
           \/ Screen!Home
           \/ \E line \in GotoLines : Screen!GoToLine(line, bad)
           \/ \E page \in Pages, back \in BOOLEAN : Screen!Page(back, page, bad)
    PROVE  ViewInv'
<1>1. CASE Screen!Home
  BY <1>1, StartIsExact, PlacedKeeps DEF Screen!Home
<1>2. CASE \E line \in GotoLines : Screen!GoToLine(line, bad)
  <2>1. PICK line \in GotoLines : Screen!PlaceAt(Screen!MovedBy(Screen!Start, line - 1, FALSE, bad).cursor)
    BY <1>2 DEF Screen!GoToLine
  <2>2. line - 1 \in Nat /\ Screen!Start \in ExactCursors
    BY StartIsExact DEF Screen!ConstantsAssumption
  <2>3. Screen!MovedBy(Screen!Start, line - 1, FALSE, bad).cursor \in ExactCursors
    BY <2>2, MovedByIs
  <2> QED BY <2>1, <2>3, PlacedKeeps
<1>3. CASE \E page \in Pages, back \in BOOLEAN : Screen!Page(back, page, bad)
  <2>1. PICK page \in Pages, back \in BOOLEAN :
            Screen!PlaceAt(Screen!MovedBy(cursor, page, back, bad).cursor)
    BY <1>3 DEF Screen!Page
  <2>2. page \in Nat /\ cursor \in ExactCursors
    BY DEF Screen!ConstantsAssumption, ViewInv
  <2>3. Screen!MovedBy(cursor, page, back, bad).cursor \in ExactCursors
    BY <2>2, MovedByIs
  <2> QED BY <2>1, <2>3, PlacedKeeps
<1> QED BY <1>1, <1>2, <1>3

----------------------------------------------------------------------------
(* So do the searches *)

LEMMA GoOnType ==
    ASSUME text' = text, NEW s \in SearchType, Screen!GoOn(s)
    PROVE  search' \in SearchType' /\ UNCHANGED <<Screen!view, slipped>>
<1>1. [s EXCEPT !.turn = ~@] \in SearchType
  BY DEF SearchType
<1> QED BY <1>1, SameText DEF Screen!GoOn

\* A step of a search leaves the view or places it at an exact cursor.
LEMMA SearchStepLeads ==
    ASSUME TextType, LineFirst, cursor \in ExactCursors,
           search # None => search \in SearchType, Screen!SearchStep
    PROVE  text' = text /\ (UNCHANGED <<Screen!view, slipped>> \/ ViewInv')
             /\ (search' # None => search' \in SearchType')
<1>1. PICK bad \in SUBSET Screen!Blocks :
        \/ Screen!FindNext(bad) \/ Screen!FindWrap(bad) \/ Screen!LinkNext(bad)
        \/ \E beyond \in BOOLEAN : Screen!LinkHere(beyond, bad)
  BY DEF Screen!SearchStep
<1>2. text' = text
  BY <1>1 DEF Screen!FindNext, Screen!FindWrap, Screen!LinkNext, Screen!LinkHere, Screen!GoOn,
      Screen!NotFound, Screen!FoundAt
<1>3. /\ search # None /\ search \in SearchType
      /\ search.at \in ExactCursors /\ search.back \in BOOLEAN
  BY <1>1 DEF Screen!FindNext, Screen!FindWrap, Screen!LinkNext, Screen!LinkHere, SearchType
<1> DEFINE next == Screen!Moved(search.at, search.back, bad)
           Goal == (UNCHANGED <<Screen!view, slipped>> \/ ViewInv')
                     /\ (search' # None => search' \in SearchType')
<1>4. next.offset < 0 \/ next \in ExactCursors
  BY <1>3, MovedOneLine
<1>5. ASSUME NEW s \in SearchType, Screen!GoOn(s) PROVE Goal
  BY <1>2, <1>5, GoOnType
<1>6. ASSUME NEW c \in ExactCursors, Screen!FoundAt(c) PROVE Goal
  BY <1>2, <1>6, PlacedKeeps DEF Screen!FoundAt
<1>7. Screen!NotFound => Goal
  BY DEF Screen!NotFound
<1> SUFFICES Goal
  BY <1>2
<1> HIDE DEF Goal, next
<1>8. CASE Screen!FindNext(bad)
  <2> DEFINE failed == \/ search.failed \/ next.offset = Screen!Failed
                       \/ next.offset >= 0 /\ Screen!LineFails(next.offset, bad)
  <2>1. \/ Screen!GoOn([search EXCEPT !.stage = "wrap", !.failed = failed])
        \/ ~(next.offset < 0) /\ Screen!GoOn([search EXCEPT !.stage = "wrap", !.at = next])
        \/ ~(next.offset < 0) /\ Screen!FoundAt(next)
        \/ ~(next.offset < 0) /\ Screen!GoOn([search EXCEPT !.at = next, !.failed = failed])
    BY <1>8 DEF Screen!FindNext, next
  <2>2. failed \in BOOLEAN
    BY <1>3 DEF SearchType
  <2> HIDE DEF failed
  <2>3. [search EXCEPT !.stage = "wrap", !.failed = failed] \in SearchType
    BY <1>3, <2>2 DEF SearchType
  <2>4. next \in ExactCursors =>
          /\ [search EXCEPT !.stage = "wrap", !.at = next] \in SearchType
          /\ [search EXCEPT !.at = next, !.failed = failed] \in SearchType
    BY <1>3, <2>2 DEF SearchType
  <2> QED BY <2>1, <2>3, <2>4, <1>4, <1>5, <1>6
<1>9. CASE Screen!FindWrap(bad)
  <2> DEFINE c == IF search.back THEN Screen!Bottom(bad) ELSE Screen!Start
             failed == \/ search.failed \/ Screen!LineFails(c.offset, bad)
                       \/ search.back /\ Screen!PreviousLine(Screen!Size, bad) = Screen!Failed
             s == [search EXCEPT !.stage = "next", !.at = c, !.wrapped = TRUE, !.failed = failed,
                                 !.pass = Screen!NextPass(search)]
  <2>1. Screen!NotFound \/ Screen!FoundAt(c) \/ (Screen!NextPass(search) # 2 /\ Screen!GoOn(s))
    BY <1>9 DEF Screen!FindWrap
  <2>2. c \in ExactCursors
    BY BottomIs, StartIsExact
  <2>3. failed \in BOOLEAN /\ (Screen!NextPass(search) # 2 => Screen!NextPass(search) = 1)
    BY <1>3 DEF SearchType, Screen!NextPass
  <2> HIDE DEF c, failed
  <2>4. Screen!NextPass(search) # 2 => s \in SearchType
    BY <1>3, <2>2, <2>3 DEF SearchType
  <2> HIDE DEF s
  <2> QED BY <2>1, <2>2, <2>4, <1>5, <1>6, <1>7
<1>10. CASE Screen!LinkNext(bad)
  <2>1. \/ Screen!NotFound
        \/ ~(next.offset < 0) /\ Screen!FoundAt(next)
        \/ ~(next.offset < 0) /\ Screen!GoOn([search EXCEPT !.at = next])
    BY <1>10 DEF Screen!LinkNext, next
  <2>2. next \in ExactCursors => [search EXCEPT !.at = next] \in SearchType
    BY <1>3 DEF SearchType
  <2> QED BY <2>1, <2>2, <1>4, <1>5, <1>6, <1>7
<1>11. CASE \E beyond \in BOOLEAN : Screen!LinkHere(beyond, bad)
  <2>1. Screen!NotFound \/ Screen!GoOn([search EXCEPT !.stage = "next"])
    BY <1>11 DEF Screen!LinkHere
  <2>2. [search EXCEPT !.stage = "next"] \in SearchType
    BY <1>3 DEF SearchType
  <2> QED BY <2>1, <2>2, <1>5, <1>7
<1> QED BY <1>1, <1>8, <1>9, <1>10, <1>11

LEMMA ScreenStepKeeps ==
    ASSUME Screen!ConstantsAssumption, FirstLines, ScreenInv, [Screen!Next]_(Screen!vars)
    PROVE  ScreenInv'
<1>1. TextType /\ LineFirst /\ ViewInv /\ text \in Texts /\ (search # None => search \in SearchType)
  BY TextOf DEF ScreenInv
<1>2. ASSUME text' = text, UNCHANGED <<Screen!view, slipped>>
      PROVE  ViewInv'
  BY <1>1, <1>2, SameText DEF ViewInv, Screen!view
<1>3. CASE Screen!SearchStep
  <2>1. cursor \in ExactCursors
    BY <1>1 DEF ViewInv
  <2>2. text' = text /\ (UNCHANGED <<Screen!view, slipped>> \/ ViewInv')
          /\ (search' # None => search' \in SearchType')
    BY <1>1, <1>3, <2>1, SearchStepLeads
  <2>3. ViewInv'
    BY <2>2, <1>2
  <2> QED BY <2>2, <2>3, <1>1 DEF ScreenInv
<1>4. CASE UNCHANGED Screen!vars
  <2>1. text' = text /\ UNCHANGED <<Screen!view, slipped>> /\ search' = search
    BY <1>4 DEF Screen!vars
  <2> QED BY <2>1, <1>1, <1>2, SameText DEF ScreenInv
<1>5. CASE Screen!Command
  <2>1. CASE \E back \in BOOLEAN : Screen!FindStart(back) \/ Screen!LinkStart(back)
    <3>1. PICK back \in BOOLEAN : Screen!FindStart(back) \/ Screen!LinkStart(back)
      BY <2>1
    <3>2. text' = text /\ UNCHANGED <<Screen!view, slipped>>
      BY <3>1 DEF Screen!FindStart, Screen!LinkStart
    <3>3. PICK kind \in {"find", "link"}, stage \in {"here", "next"} :
              search' = Screen!NewSearch(kind, back, stage)
      BY <3>1 DEF Screen!FindStart, Screen!LinkStart
    <3>4. cursor \in ExactCursors
      BY <1>1 DEF ViewInv
    <3>5. Screen!NewSearch(kind, back, stage) \in SearchType
      BY <3>4 DEF Screen!NewSearch, SearchType
    <3>6. ViewInv'
      BY <3>2, <1>2
    <3> QED BY <3>2, <3>3, <3>5, <3>6, <1>1, SameText DEF ScreenInv
  <2>2. CASE ~(\E back \in BOOLEAN : Screen!FindStart(back) \/ Screen!LinkStart(back))
    <3>1. text' = text /\ search' = search
      BY <1>5, <2>2 DEF Screen!Command, Screen!Home, Screen!Up, Screen!GoToLine, Screen!Down, Screen!End,
          Screen!Page
    <3>2. ViewInv'
      <4>1. CASE Screen!Home
        <5>1. \E bad : TRUE
          OBVIOUS
        <5> QED BY <4>1, <3>1, <1>1, PlacesKeep
      <4>2. CASE ~Screen!Home
        <5>1. PICK bad \in SUBSET Screen!Blocks :
                \/ Screen!Up(bad)
                \/ \E line \in GotoLines : Screen!GoToLine(line, bad)
                \/ \E page \in Pages :
                       \/ Screen!Down(page, bad) \/ Screen!End(page, bad)
                       \/ \E back \in BOOLEAN : Screen!Page(back, page, bad)
          BY <1>5, <2>2, <4>2 DEF Screen!Command
        <5>2. CASE Screen!Up(bad)
          BY <5>2, <3>1, <1>1, UpKeeps
        <5>3. CASE \E line \in GotoLines : Screen!GoToLine(line, bad)
          BY <5>3, <3>1, <1>1, PlacesKeep
        <5>4. CASE \E page \in Pages : Screen!Down(page, bad) \/ Screen!End(page, bad)
          BY <5>4, <3>1, <1>1, DownKeeps, EndKeeps
        <5>5. CASE \E page \in Pages : \E back \in BOOLEAN : Screen!Page(back, page, bad)
          <6>1. \E page \in Pages, back \in BOOLEAN : Screen!Page(back, page, bad)
            BY <5>5
          <6> QED BY <6>1, <3>1, <1>1, PlacesKeep
        <5> QED BY <5>1, <5>2, <5>3, <5>4, <5>5
      <4> QED BY <4>1, <4>2
    <3> QED BY <3>1, <3>2, <1>1, SameText DEF ScreenInv
  <2> QED BY <2>1, <2>2
<1> QED BY <1>3, <1>4, <1>5 DEF Screen!Next

LEMMA ScreenInvHolds ==
    ASSUME Screen!ConstantsAssumption, FirstLines
    PROVE  Screen!Spec => []ScreenInv
<1>1. Screen!Init => ScreenInv
  <2> SUFFICES ASSUME Screen!Init
               PROVE  ScreenInv
    OBVIOUS
  <2>1. Screen!Start \in ExactCursors /\ Screen!Start.offset \in Nat /\ Screen!LineNumber(Screen!Start.offset) \in Nat
    BY TextOf, StartIsExact, CursorNumber DEF Screen!Init
  <2>2. ViewInv
    BY <2>1 DEF Screen!Init, ViewInv
  <2> QED BY <2>2 DEF Screen!Init, ScreenInv
<1>2. ScreenInv /\ [Screen!Next]_(Screen!vars) => ScreenInv'
  BY ScreenStepKeeps
<1> QED BY <1>1, <1>2, PTL DEF Screen!Spec

\* Cursor and top of the Viewer (viewer.c) are at the start of a line, with
\* the right number if they have one, and cursor_row is how far they are apart,
\* after any commands, failing reads and searches, in any windows.
THEOREM CursorsStayExact ==
    ASSUME FirstLines
    PROVE  Screen!Spec => []CursorState
<1>1. ScreenInv => CursorState
  BY DEF ScreenInv, ViewInv, ExactCursors, CursorState, Screen!CursorsAreExact, Screen!RowIsDistance
<1> QED BY <1>1, ScreenInvHolds, PartsAssumption, PTL

----------------------------------------------------------------------------
(* Find stops at the first match *)

\* The lines a pass has looked at when it has come to a, and at its end; the
\* search began at start.
Looked(i, back, wrapped, a, start) ==
    IF back THEN (IF wrapped THEN i < start \/ i >= a ELSE i >= a /\ i < start)
            ELSE (IF wrapped THEN i > start \/ i <= a ELSE i <= a /\ i > start)

LookedAtEnd(i, back, wrapped, start) ==
    IF wrapped THEN i # start ELSE IF back THEN i < start ELSE i > start

\* Which side of the start the search is on.
Side(back, wrapped, a, start) ==
    IF back THEN (IF wrapped THEN a > start ELSE a <= start)
            ELSE (IF wrapped THEN a < start ELSE a >= start)

\* If no read failed, no line the search looked at has a match.
SearchIsRight(s, start) ==
    s.kind = "find" /\ ~s.failed =>
      /\ s.stage # "here"
      /\ s.pass = IF s.wrapped THEN 1 ELSE 0
      /\ s.stage = "next" =>
           /\ Side(s.back, s.wrapped, s.at.offset, start)
           /\ \A i \in Screen!LineStarts : Looked(i, s.back, s.wrapped, s.at.offset, start) =>
                ~Screen!HasMatch(i)
      /\ s.stage = "wrap" =>
           \A i \in Screen!LineStarts : LookedAtEnd(i, s.back, s.wrapped, start) => ~Screen!HasMatch(i)

SearchInv == search # None => SearchIsRight(search, cursor.offset)

\* What FindIsNearest says of a search that ends.
Nearest ==
    IF cursor' = cursor
    THEN \A i \in Screen!LineStarts \ {cursor.offset} : ~Screen!HasMatch(i)
    ELSE {i \in Screen!Passed(search, cursor'.offset) : Screen!HasMatch(i)} = {cursor'.offset}

\* A search under way is none of the values that say there is none.
LEMMA SearchIsOne ==
    ASSUME Screen!ConstantsAssumption, TextType
    PROVE  ExactCursors \subseteq Screen!Cursors /\ SearchType \subseteq Screen!Searches /\ None \notin SearchType
<1>1. ExactCursors \subseteq Screen!Cursors
  <2> SUFFICES ASSUME NEW c \in ExactCursors
               PROVE  c \in Screen!Cursors
    OBVIOUS
  <2>1. c \in [offset : Screen!LineStarts, line : Int] /\ c.offset \in Nat
        /\ (c.line = Screen!Unknown \/ c.line \in Nat)
    BY CursorNumber DEF ExactCursors
  <2> QED BY <2>1 DEF Screen!Cursors
<1>2. SearchType \subseteq Screen!Searches
  BY <1>1 DEF SearchType, Screen!Searches
<1> QED BY <1>1, <1>2 DEF Screen!ConstantsAssumption

\* A line that could be read.
LEMMA LineRead ==
    ASSUME NEW o, NEW bad, ~Screen!LineFails(o, bad)
    PROVE  Screen!LineMatches(o, bad) <=> Screen!HasMatch(o)
  BY DEF Screen!LineMatches, Screen!HasMatch

LEMMA NothingFails == \A o : ~Screen!LineFails(o, {})
  BY DEF Screen!LineFails, Screen!Bad

\* A pass comes to the next line.
LEMMA LookedNext ==
    ASSUME TextType, NEW back \in BOOLEAN, NEW wrapped \in BOOLEAN, NEW a, NEW start \in Screen!LineStarts,
               NEW o,
           Side(back, wrapped, a, start),
           IF back THEN Follows(o, a) ELSE Follows(a, o)
    PROVE  /\ ~(wrapped /\ (IF back THEN o <= start ELSE o >= start)) =>
                /\ Side(back, wrapped, o, start)
                /\ o # start
                /\ \A i \in Screen!LineStarts :
                     Looked(i, back, wrapped, o, start) <=> Looked(i, back, wrapped, a, start) \/ i = o
           /\ wrapped /\ (IF back THEN o <= start ELSE o >= start) =>
                \A i \in Screen!LineStarts :
                  LookedAtEnd(i, back, wrapped, start) => Looked(i, back, wrapped, a, start)
<1>1. Screen!Size \in Nat /\ Screen!LineStarts \subseteq 0 .. Screen!Size
  BY LineStartsAre
<1>0. \A i \in Screen!LineStarts : i \in Nat
  BY <1>1
<1>2. CASE ~back
  <2>1. a \in Screen!LineStarts /\ o \in Screen!LineStarts /\ a < o /\ \A i \in a .. o - 2 :
            ~Screen!IsNewline(i)
    BY <1>2 DEF Follows
  <2>2. \A i \in Screen!LineStarts : i <= a \/ i >= o
    BY <2>1, <1>1, LineStartsAre
  <2> QED BY <2>1, <2>2, <1>0, <1>2 DEF Side, Looked, LookedAtEnd
<1>3. CASE back
  <2>1. a \in Screen!LineStarts /\ o \in Screen!LineStarts /\ o < a /\ \A i \in o .. a - 2 :
            ~Screen!IsNewline(i)
    BY <1>3 DEF Follows
  <2>2. \A i \in Screen!LineStarts : i <= o \/ i >= a
    BY <2>1, <1>1, LineStartsAre
  <2> QED BY <2>1, <2>2, <1>0, <1>3 DEF Side, Looked, LookedAtEnd
<1> QED BY <1>2, <1>3

\* A pass comes to the end of the resource.
LEMMA LookedAll ==
    ASSUME TextType, NEW back \in BOOLEAN, NEW wrapped \in BOOLEAN, NEW a \in Screen!LineStarts,
               NEW start \in Screen!LineStarts,
           Side(back, wrapped, a, start),
           IF back THEN a = 0 ELSE \A o \in Screen!LineStarts : o <= a
    PROVE  \A i \in Screen!LineStarts : LookedAtEnd(i, back, wrapped, start) =>
               Looked(i, back, wrapped, a, start)
<1>1. \A i \in Screen!LineStarts : i \in Nat
  BY LineStartsAre
<1> QED BY <1>1 DEF Side, Looked, LookedAtEnd

\* It begins again at the other end.
LEMMA LookedAgain ==
    ASSUME TextType, NEW back \in BOOLEAN, NEW c \in Screen!LineStarts, NEW start \in Screen!LineStarts,
               c # start,
           IF back THEN \A o \in Screen!LineStarts : o <= c ELSE c = 0
    PROVE  /\ Side(back, TRUE, c, start)
           /\ \A i \in Screen!LineStarts : Looked(i, back, TRUE, c, start) <=>
                LookedAtEnd(i, back, FALSE, start) \/ i = c
<1>1. \A i \in Screen!LineStarts : i \in Nat
  BY LineStartsAre
<1> QED BY <1>1 DEF Side, Looked, LookedAtEnd

\* And ends where it began.
LEMMA LookedOver ==
    ASSUME TextType, NEW back \in BOOLEAN, NEW start \in Screen!LineStarts,
           IF back THEN \A o \in Screen!LineStarts : o <= start ELSE start = 0
    PROVE  \A i \in Screen!LineStarts : LookedAtEnd(i, back, FALSE, start) <=> i # start
<1>1. \A i \in Screen!LineStarts : i \in Nat
  BY LineStartsAre
<1> QED BY <1>1 DEF LookedAtEnd

\* What was looked at stays so in a step that leaves the cursor alone.
LEMMA SameLines ==
    ASSUME text' = text, cursor' = cursor, search' # None => SearchIsRight(search', cursor.offset)
    PROVE  SearchInv'
<1>1. Screen!LineStarts' = Screen!LineStarts /\ \A i : Screen!HasMatch(i)' <=> Screen!HasMatch(i)
  BY DEF Screen!LineStarts, Screen!HasMatch, Screen!LineOf, Screen!Size, Screen!IsNewline
<1> SUFFICES ASSUME search' # None
             PROVE  SearchIsRight(search, cursor.offset)'
  BY DEF SearchInv
<1> QED BY <1>1 DEF SearchIsRight, Looked, LookedAtEnd, Side

\* The lines passed are those looked at and the one that was found.
LEMMA PassedIs ==
    ASSUME TextType, search.back \in BOOLEAN, cursor.offset \in Screen!LineStarts,
               NEW o \in Screen!LineStarts, Screen!HasMatch(o),
           o # cursor.offset, NEW wrapped \in BOOLEAN,
           Side(search.back, wrapped, o, cursor.offset),
           \A i \in Screen!LineStarts : i # o /\ Looked(i, search.back, wrapped, o, cursor.offset) =>
               ~Screen!HasMatch(i)
    PROVE  {i \in Screen!Passed(search, o) : Screen!HasMatch(i)} = {o}
<1>1. \A i \in Screen!LineStarts : i \in Nat
  BY LineStartsAre
<1> DEFINE start == cursor.offset
<1>3. \A i \in Screen!LineStarts : i \in Screen!Passed(search, o) <=>
          Looked(i, search.back, wrapped, o, start)
  BY <1>1 DEF Screen!Passed, Looked, Side
<1>4. Screen!Passed(search, o) \subseteq Screen!LineStarts
  BY DEF Screen!Passed
<1>5. o \in Screen!Passed(search, o)
  BY <1>1 DEF Screen!Passed, Side
<1> QED BY <1>3, <1>4, <1>5

\* Another turn changes nothing of what was looked at.
LEMMA GoOnIsRight ==
    ASSUME None \notin SearchType, NEW s \in SearchType, Screen!GoOn(s), NEW start, SearchIsRight(s, start)
    PROVE  text' = text /\ search' # None /\ cursor' = cursor /\ SearchIsRight(search', start)
<1>1. [s EXCEPT !.turn = ~@] \in SearchType
  BY DEF SearchType
<1>2. search' = [s EXCEPT !.turn = ~@] /\ text' = text /\ cursor' = cursor
  BY DEF Screen!GoOn, Screen!view
<1>3. \A f \in {"kind", "back", "at", "stage", "pass", "wrapped", "failed"} : search'[f] = s[f]
  BY <1>2 DEF SearchType
<1> QED BY <1>1, <1>2, <1>3 DEF SearchIsRight

\* A turn of the inner loop.
LEMMA FindNextIsRight ==
    ASSUME Screen!ConstantsAssumption, TextType, LineFirst, cursor \in ExactCursors, search \in SearchType,
               SearchInv,
           NEW bad, Screen!FindNext(bad)
    PROVE  /\ text' = text
           /\ search' # None => cursor' = cursor /\ SearchIsRight(search', cursor.offset)
           /\ search' = None /\ ~search.failed /\ bad = {} => Nearest
<1> DEFINE next == Screen!Moved(search.at, search.back, bad)
           o == next.offset
           a == search.at.offset
           start == cursor.offset
           failed == (search.failed \/ o = Screen!Failed) \/ (o >= 0 /\ Screen!LineFails(o, bad))
<1>0. /\ search # None /\ None \notin SearchType /\ search.kind = "find" /\ search.stage = "next"
      /\ search.back \in BOOLEAN /\ search.wrapped \in BOOLEAN /\ search.failed \in BOOLEAN
      /\ search.at \in ExactCursors /\ search.pass \in {0, 1}
  BY SearchIsOne DEF Screen!FindNext, SearchType
<1>1. /\ a \in Screen!LineStarts /\ start \in Screen!LineStarts /\ a \in Nat /\ start \in Nat
  BY <1>0, CursorNumber
<1>2. /\ o \in Int
      /\ o >= 0 => next \in ExactCursors /\ o \in Screen!LineStarts
           /\ IF search.back THEN Follows(o, a) ELSE Follows(a, o)
      /\ o < 0 => o \in {Screen!AtEdge, Screen!Failed}
      /\ o = Screen!AtEdge => IF search.back THEN a = 0 ELSE \A i \in Screen!LineStarts : i <= a
  BY <1>0, MovedOneLine, CursorNumber
<1>3. ~search.failed =>
        /\ search.pass = IF search.wrapped THEN 1 ELSE 0
        /\ Side(search.back, search.wrapped, a, start)
        /\ \A i \in Screen!LineStarts : Looked(i, search.back, search.wrapped, a, start) =>
             ~Screen!HasMatch(i)
  BY <1>0 DEF SearchInv, SearchIsRight
<1>4. IF o < 0
      THEN Screen!GoOn([search EXCEPT !.stage = "wrap", !.failed = failed])
      ELSE IF search.wrapped /\ Screen!BackAtStart(search, o)
      THEN Screen!GoOn([search EXCEPT !.stage = "wrap", !.at = next])
      ELSE IF Screen!LineMatches(o, bad)
      THEN Screen!FoundAt(next)
      ELSE Screen!GoOn([search EXCEPT !.at = next, !.failed = failed])
  BY DEF Screen!FindNext
<1>5. Screen!BackAtStart(search, o) <=> IF search.back THEN o <= start ELSE o >= start
  BY <1>0 DEF Screen!BackAtStart
<1>6. ASSUME NEW s \in SearchType, Screen!GoOn(s), SearchIsRight(s, start)
      PROVE  text' = text /\ search' # None /\ cursor' = cursor /\ SearchIsRight(search', start)
  BY <1>0, <1>6, GoOnIsRight
<1> HIDE DEF next, o, a, start, failed
<1>7. failed \in BOOLEAN /\ (failed => search.failed \/ o = Screen!Failed \/ Screen!LineFails(o, bad))
      /\ (~failed => ~search.failed /\ o # Screen!Failed /\ (o >= 0 => ~Screen!LineFails(o, bad)))
  BY <1>0 DEF failed
<1>8. CASE o < 0
  <2> DEFINE s == [search EXCEPT !.stage = "wrap", !.failed = failed]
  <2>1. s \in SearchType /\ s.kind = "find" /\ s.failed = failed /\ s.stage = "wrap"
        /\ s.back = search.back /\ s.wrapped = search.wrapped /\ s.pass = search.pass
    BY <1>0, <1>7 DEF SearchType
  <2> HIDE DEF s
  <2>2. ~failed => \A i \in Screen!LineStarts : LookedAtEnd(i, search.back, search.wrapped, start) =>
            ~Screen!HasMatch(i)
    <3> SUFFICES ASSUME ~failed
                 PROVE  \A i \in Screen!LineStarts : LookedAtEnd(i, search.back, search.wrapped, start) =>
                            ~Screen!HasMatch(i)
      OBVIOUS
    <3>1. o = Screen!AtEdge
      BY <1>2, <1>7, <1>8
    <3>2. IF search.back THEN a = 0 ELSE \A i \in Screen!LineStarts : i <= a
      BY <3>1, <1>2
    <3>3. \A i \in Screen!LineStarts :
            LookedAtEnd(i, search.back, search.wrapped, start) =>
                Looked(i, search.back, search.wrapped, a, start)
      BY <3>2, <1>0, <1>1, <1>3, <1>7, LookedAll
    <3> QED BY <3>3, <1>3, <1>7
  <2>3. SearchIsRight(s, start)
    BY <2>1, <2>2, <1>3, <1>7 DEF SearchIsRight
  <2>4. Screen!GoOn(s)
    BY <1>4, <1>8 DEF s
  <2> QED BY <2>1, <2>3, <2>4, <1>6 DEF start
<1>9. CASE ~(o < 0) /\ search.wrapped /\ Screen!BackAtStart(search, o)
  <2>0. next \in ExactCursors /\ o \in Screen!LineStarts /\ o >= 0
        /\ IF search.back THEN Follows(o, a) ELSE Follows(a, o)
    BY <1>2, <1>9
  <2> DEFINE s == [search EXCEPT !.stage = "wrap", !.at = next]
  <2>1. s \in SearchType /\ s.kind = "find" /\ s.failed = search.failed /\ s.stage = "wrap"
        /\ s.back = search.back /\ s.wrapped = search.wrapped /\ s.pass = search.pass
    BY <1>0, <2>0 DEF SearchType
  <2> HIDE DEF s
  <2>2. ~search.failed => \A i \in Screen!LineStarts :
            LookedAtEnd(i, search.back, search.wrapped, start) => ~Screen!HasMatch(i)
    <3>1. search.wrapped /\ (IF search.back THEN o <= start ELSE o >= start)
      BY <1>5, <1>9
    <3>2. ~search.failed => \A i \in Screen!LineStarts :
            LookedAtEnd(i, search.back, search.wrapped, start) =>
                Looked(i, search.back, search.wrapped, a, start)
      BY <1>0, <1>1, <1>3, <2>0, <3>1, LookedNext
    <3> QED BY <3>2, <1>3
  <2>3. SearchIsRight(s, start)
    BY <2>1, <2>2, <1>3 DEF SearchIsRight
  <2>4. Screen!GoOn(s)
    BY <1>4, <1>9 DEF s
  <2> QED BY <2>1, <2>3, <2>4, <1>6 DEF start
<1>10. ASSUME ~(o < 0), ~(search.wrapped /\ Screen!BackAtStart(search, o)), ~search.failed
       PROVE  /\ Side(search.back, search.wrapped, o, start)
              /\ o # start
              /\ \A i \in Screen!LineStarts :
                   Looked(i, search.back, search.wrapped, o, start) => ~Screen!HasMatch(i) \/ i = o
  BY <1>0, <1>1, <1>2, <1>3, <1>5, <1>10, LookedNext
<1>11. CASE ~(o < 0) /\ ~(search.wrapped /\ Screen!BackAtStart(search, o)) /\ Screen!LineMatches(o, bad)
  <2>1. Screen!FoundAt(next)
    BY <1>4, <1>11
  <2>2. search' = None /\ text' = text /\ cursor' = next /\ cursor'.offset = o
    BY <2>1 DEF Screen!FoundAt, Screen!PlaceAt, o
  <2>3. ASSUME ~search.failed
        PROVE  Nearest
    <3>1. Screen!HasMatch(o) /\ o \in Screen!LineStarts
      BY <1>2, <1>11 DEF Screen!LineMatches, Screen!HasMatch
    <3>2. o # start /\ cursor' # cursor
      BY <1>10, <1>11, <2>2, <2>3 DEF start
    <3>4. /\ Side(search.back, search.wrapped, o, start)
          /\ \A i \in Screen!LineStarts :
               i # o /\ Looked(i, search.back, search.wrapped, o, start) => ~Screen!HasMatch(i)
      BY <1>10, <1>11, <2>3
    <3>3. {i \in Screen!Passed(search, o) : Screen!HasMatch(i)} = {o}
      BY <3>1, <3>2, <3>4, <1>0, <1>1, PassedIs DEF start
    <3> QED BY <3>2, <3>3, <2>2 DEF Nearest
  <2> QED BY <2>2, <2>3
<1>12. CASE ~(o < 0) /\ ~(search.wrapped /\ Screen!BackAtStart(search, o)) /\ ~Screen!LineMatches(o, bad)
  <2>0. next \in ExactCursors /\ next.offset = o
    BY <1>2, <1>12 DEF o
  <2> DEFINE s == [search EXCEPT !.at = next, !.failed = failed]
  <2>1. s \in SearchType /\ s.kind = "find" /\ s.failed = failed /\ s.stage = "next" /\ s.at.offset = o
        /\ s.back = search.back /\ s.wrapped = search.wrapped /\ s.pass = search.pass
    BY <1>0, <1>7, <2>0 DEF SearchType
  <2> HIDE DEF s
  <2>2. ~failed =>
          /\ Side(search.back, search.wrapped, o, start)
          /\ \A i \in Screen!LineStarts : Looked(i, search.back, search.wrapped, o, start) =>
               ~Screen!HasMatch(i)
    <3> SUFFICES ASSUME ~failed
                 PROVE  /\ Side(search.back, search.wrapped, o, start)
                        /\ \A i \in Screen!LineStarts : Looked(i, search.back, search.wrapped, o, start) =>
                             ~Screen!HasMatch(i)
      OBVIOUS
    <3>1. ~Screen!HasMatch(o)
      BY <1>2, <1>7, <1>12, LineRead
    <3> QED BY <3>1, <1>7, <1>10, <1>12
  <2>3. SearchIsRight(s, start)
    BY <2>1, <2>2, <1>3, <1>7 DEF SearchIsRight
  <2>4. Screen!GoOn(s)
    BY <1>4, <1>12 DEF s
  <2> QED BY <2>1, <2>3, <2>4, <1>6 DEF start
<1> QED BY <1>8, <1>9, <1>11, <1>12

\* The end of a pass.
LEMMA FindWrapIsRight ==
    ASSUME Screen!ConstantsAssumption, TextType, LineFirst, cursor \in ExactCursors, search \in SearchType,
               SearchInv,
           NEW bad, Screen!FindWrap(bad)
    PROVE  /\ text' = text
           /\ search' # None => cursor' = cursor /\ SearchIsRight(search', cursor.offset)
           /\ search' = None /\ ~search.failed /\ bad = {} => Nearest
<1> DEFINE c == IF search.back THEN Screen!Bottom(bad) ELSE Screen!Start
           o == c.offset
           start == cursor.offset
           failed == (search.failed \/ Screen!LineFails(o, bad))
                     \/ (search.back /\ Screen!PreviousLine(Screen!Size, bad) = Screen!Failed)
<1>0. /\ search # None /\ None \notin SearchType /\ search.kind = "find" /\ search.stage = "wrap"
      /\ search.back \in BOOLEAN /\ search.wrapped \in BOOLEAN /\ search.failed \in BOOLEAN
      /\ search.at \in ExactCursors /\ search.pass \in {0, 1}
  BY SearchIsOne DEF Screen!FindWrap, SearchType
<1>1. start \in Screen!LineStarts /\ start \in Nat
  BY CursorNumber
<1>2. c \in ExactCursors /\ o \in Screen!LineStarts
  <2>1. c \in ExactCursors
    BY BottomIs, StartIsExact
  <2> HIDE DEF c
  <2> QED BY <2>1, CursorNumber
<1>3. ~(search.back /\ Screen!PreviousLine(Screen!Size, bad) = Screen!Failed) =>
        IF search.back THEN \A i \in Screen!LineStarts : i <= o ELSE o = 0
  BY BottomIs, StartIsExact
<1>4. bad = {} => ~(search.back /\ Screen!PreviousLine(Screen!Size, bad) = Screen!Failed)
  <2>1. Screen!Size = 0 => Screen!PreviousLine(Screen!Size, bad) # Screen!Failed
    BY Edges DEF Screen!PreviousLine
  <2>2. Screen!Size > 0 /\ bad = {} => Screen!PreviousLine(Screen!Size, bad) # Screen!Failed
    BY BottomIs
  <2>3. Screen!Size \in Nat
    BY LineStartsAre
  <2> QED BY <2>1, <2>2, <2>3
<1>5. ~search.failed =>
        /\ search.pass = IF search.wrapped THEN 1 ELSE 0
        /\ \A i \in Screen!LineStarts : LookedAtEnd(i, search.back, search.wrapped, start) =>
             ~Screen!HasMatch(i)
  BY <1>0 DEF SearchInv, SearchIsRight
<1>6. IF o = start
      THEN Screen!NotFound
      ELSE IF Screen!LineMatches(o, bad)
      THEN Screen!FoundAt(c)
      ELSE IF Screen!NextPass(search) = 2
      THEN Screen!NotFound
      ELSE Screen!GoOn([search EXCEPT !.stage = "next", !.at = c, !.wrapped = TRUE, !.failed = failed,
                               !.pass = Screen!NextPass(search)])
  BY DEF Screen!FindWrap
<1>7. ASSUME search.wrapped, ~search.failed
      PROVE  \A i \in Screen!LineStarts \ {start} : ~Screen!HasMatch(i)
  BY <1>5, <1>7 DEF LookedAtEnd
<1>8. failed \in BOOLEAN /\ (failed <=>
          search.failed \/ Screen!LineFails(o, bad)
            \/ (search.back /\ Screen!PreviousLine(Screen!Size, bad) = Screen!Failed))
  BY <1>0
<1> HIDE DEF c, o, start, failed
<1>9. ASSUME ~search.wrapped, ~search.failed, o # start,
             ~(search.back /\ Screen!PreviousLine(Screen!Size, bad) = Screen!Failed)
      PROVE  /\ Side(search.back, TRUE, o, start)
             /\ \A i \in Screen!LineStarts : Looked(i, search.back, TRUE, o, start) =>
                  ~Screen!HasMatch(i) \/ i = o
  <2>1. IF search.back THEN \A i \in Screen!LineStarts : i <= o ELSE o = 0
    BY <1>3, <1>9
  <2>2. /\ Side(search.back, TRUE, o, start)
        /\ \A i \in Screen!LineStarts :
             Looked(i, search.back, TRUE, o, start) <=> LookedAtEnd(i, search.back, FALSE, start) \/ i = o
    BY <2>1, <1>0, <1>1, <1>2, <1>9, LookedAgain
  <2>3. search.wrapped = FALSE
    BY <1>0, <1>9
  <2> QED BY <2>2, <2>3, <1>5, <1>9
<1>10. CASE o = start
  <2>1. search' = None /\ text' = text /\ cursor' = cursor
    BY <1>6, <1>10 DEF Screen!NotFound, Screen!view
  <2>2. ASSUME ~search.failed, bad = {}, ~search.wrapped
        PROVE  \A i \in Screen!LineStarts \ {start} : ~Screen!HasMatch(i)
    <3>1. IF search.back THEN \A i \in Screen!LineStarts : i <= start ELSE start = 0
      BY <1>3, <1>4, <1>10, <2>2
    <3>2. \A i \in Screen!LineStarts : LookedAtEnd(i, search.back, FALSE, start) <=> i # start
      BY <3>1, <1>0, <1>1, LookedOver
    <3>3. search.wrapped = FALSE
      BY <1>0, <2>2
    <3> QED BY <3>2, <3>3, <1>5, <2>2
  <2> QED BY <2>1, <2>2, <1>7 DEF Nearest, start
<1>11. CASE o # start /\ Screen!LineMatches(o, bad)
  <2>1. search' = None /\ text' = text /\ cursor' = c /\ cursor'.offset = o
    BY <1>6, <1>11 DEF Screen!FoundAt, Screen!PlaceAt, o
  <2>2. ASSUME ~search.failed, bad = {}
        PROVE  Nearest
    <3>1. Screen!HasMatch(o)
      BY <1>11 DEF Screen!LineMatches, Screen!HasMatch
    <3>2. ~search.wrapped
      BY <3>1, <1>2, <1>7, <1>11, <2>2
    <3>3. /\ Side(search.back, TRUE, o, start)
          /\ \A i \in Screen!LineStarts : i # o /\ Looked(i, search.back, TRUE, o, start) =>
               ~Screen!HasMatch(i)
      BY <3>2, <1>4, <1>9, <1>11, <2>2
    <3>4. {i \in Screen!Passed(search, o) : Screen!HasMatch(i)} = {o}
      BY <3>1, <3>3, <1>0, <1>1, <1>2, <1>11, PassedIs DEF start
    <3>5. cursor' # cursor
      BY <2>1, <1>11 DEF start
    <3> QED BY <3>4, <3>5, <2>1 DEF Nearest
  <2> QED BY <2>1, <2>2
<1>12. CASE o # start /\ ~Screen!LineMatches(o, bad) /\ Screen!NextPass(search) = 2
  <2>1. search' = None /\ text' = text /\ cursor' = cursor
    BY <1>6, <1>12 DEF Screen!NotFound, Screen!view
  <2>2. ~search.failed => search.wrapped
    BY <1>0, <1>5, <1>12 DEF Screen!NextPass
  <2> QED BY <2>1, <2>2, <1>7 DEF Nearest, start
<1>13. CASE o # start /\ ~Screen!LineMatches(o, bad) /\ Screen!NextPass(search) # 2
  <2> DEFINE s == [search EXCEPT !.stage = "next", !.at = c, !.wrapped = TRUE, !.failed = failed,
                                 !.pass = Screen!NextPass(search)]
  <2>0. c.offset = o /\ Screen!NextPass(search) = 1 /\ search.pass = 0
    BY <1>0, <1>13 DEF o, Screen!NextPass
  <2>1. s \in SearchType /\ s.kind = "find" /\ s.failed = failed /\ s.stage = "next" /\ s.at.offset = o
        /\ s.back = search.back /\ s.wrapped = TRUE /\ s.pass = 1
    BY <1>0, <1>2, <1>8, <2>0 DEF SearchType
  <2> HIDE DEF s
  <2>2. ~failed =>
          /\ Side(search.back, TRUE, o, start)
          /\ \A i \in Screen!LineStarts : Looked(i, search.back, TRUE, o, start) => ~Screen!HasMatch(i)
    <3> SUFFICES ASSUME ~failed
                 PROVE  /\ Side(search.back, TRUE, o, start)
                        /\ \A i \in Screen!LineStarts : Looked(i, search.back, TRUE, o, start) =>
                             ~Screen!HasMatch(i)
      OBVIOUS
    <3>1. ~Screen!HasMatch(o) /\ ~search.failed
          /\ ~(search.back /\ Screen!PreviousLine(Screen!Size, bad) = Screen!Failed)
      BY <1>8, <1>13, LineRead
    <3>2. ~search.wrapped
      BY <3>1, <1>5, <2>0
    <3> QED BY <3>1, <3>2, <1>9, <1>13
  <2>3. SearchIsRight(s, start)
    BY <2>1, <2>2 DEF SearchIsRight
  <2>4. Screen!GoOn(s)
    BY <1>6, <1>13 DEF s
  <2> QED BY <2>1, <2>3, <2>4, <1>0, GoOnIsRight DEF start
<1> QED BY <1>10, <1>11, <1>12, <1>13

\* Every step leaves what was looked at without a match.
LEMMA SearchStaysRight ==
    ASSUME Screen!ConstantsAssumption, FirstLines, ScreenInv, SearchInv, [Screen!Next]_(Screen!vars)
    PROVE  SearchInv'
<1>1. TextType /\ LineFirst /\ cursor \in ExactCursors /\ (search # None => search \in SearchType)
  BY TextOf DEF ScreenInv, ViewInv
<1>2. None \notin SearchType
  BY <1>1, SearchIsOne
<1>3. ASSUME text' = text, search' # None => cursor' = cursor /\ SearchIsRight(search', cursor.offset)
      PROVE  SearchInv'
  BY <1>3, SameLines DEF SearchInv
<1>4. CASE search' = None
  BY <1>4 DEF SearchInv
<1>5. CASE UNCHANGED Screen!vars
  BY <1>3, <1>5 DEF Screen!vars, Screen!view, SearchInv
<1>6. CASE \E bad : Screen!FindNext(bad) \/ Screen!FindWrap(bad)
  <2>1. PICK bad : Screen!FindNext(bad) \/ Screen!FindWrap(bad)
    BY <1>6
  <2>2. search \in SearchType
    BY <1>1, <2>1 DEF Screen!FindNext, Screen!FindWrap
  <2>3. text' = text /\ (search' # None => cursor' = cursor /\ SearchIsRight(search', cursor.offset))
    BY <1>1, <2>1, <2>2, FindNextIsRight, FindWrapIsRight
  <2> QED BY <1>3, <2>3
<1>7. CASE search' # None /\ \E bad : Screen!LinkNext(bad) \/ \E beyond \in BOOLEAN :
               Screen!LinkHere(beyond, bad)
  <2>1. PICK bad : Screen!LinkNext(bad) \/ \E beyond \in BOOLEAN : Screen!LinkHere(beyond, bad)
    BY <1>7
  <2>2. search \in SearchType /\ search.kind = "link"
    BY <1>1, <2>1 DEF Screen!LinkNext, Screen!LinkHere
  <2>3. PICK s \in {[search EXCEPT !.at = Screen!Moved(search.at, search.back, bad)],
            [search EXCEPT !.stage = "next"]} : Screen!GoOn(s)
    BY <1>7, <2>1 DEF Screen!LinkNext, Screen!LinkHere, Screen!NotFound, Screen!FoundAt
  <2>4. s.kind = "link" /\ s = [kind |-> s.kind, back |-> s.back, at |-> s.at, stage |-> s.stage,
            pass |-> s.pass,
                                wrapped |-> s.wrapped, turn |-> s.turn, failed |-> s.failed]
    BY <2>2 DEF SearchType
  <2>5. text' = text /\ cursor' = cursor /\ search'.kind = "link"
    BY <2>3, <2>4 DEF Screen!GoOn, Screen!view
  <2>6. SearchIsRight(search', cursor.offset)
    BY <2>5 DEF SearchIsRight
  <2> QED BY <1>3, <2>5, <2>6
<1>8. CASE search' # None /\ \E back \in BOOLEAN : Screen!FindStart(back) \/ Screen!LinkStart(back)
  <2>1. PICK back \in BOOLEAN : Screen!FindStart(back) \/ Screen!LinkStart(back)
    BY <1>8
  <2>2. text' = text /\ cursor' = cursor
    BY <2>1 DEF Screen!FindStart, Screen!LinkStart, Screen!view
  <2>3. cursor.offset \in Nat /\ \A i \in Screen!LineStarts : i \in Nat
    BY <1>1, CursorNumber, LineStartsAre
  <2>4. SearchIsRight(Screen!NewSearch("find", back, "next"), cursor.offset)
    BY <2>3 DEF SearchIsRight, Screen!NewSearch, Looked, Side
  <2>5. SearchIsRight(Screen!NewSearch("link", back, "here"), cursor.offset)
    BY DEF SearchIsRight, Screen!NewSearch
  <2>6. SearchIsRight(search', cursor.offset)
    BY <2>1, <2>4, <2>5 DEF Screen!FindStart, Screen!LinkStart
  <2> QED BY <1>3, <2>2, <2>6
<1>9. CASE Screen!SearchStep
  BY <1>4, <1>6, <1>7, <1>9 DEF Screen!SearchStep
<1>10. CASE Screen!Command
  <2>1. search' = None \/ (\E back \in BOOLEAN : Screen!FindStart(back) \/ Screen!LinkStart(back))
    BY <1>10 DEF Screen!Command, Screen!Home, Screen!Up, Screen!GoToLine, Screen!Down, Screen!End,
        Screen!Page
  <2> QED BY <1>4, <1>8, <2>1
<1> QED BY <1>5, <1>9, <1>10 DEF Screen!Next

LEMMA SearchEndsRight ==
    ASSUME Screen!ConstantsAssumption, FirstLines, ScreenInv, SearchInv,
           search # None, ~search.failed, Screen!FindNext({}) \/ Screen!FindWrap({}), search' = None
    PROVE  Nearest
<1>1. TextType /\ LineFirst /\ cursor \in ExactCursors /\ search \in SearchType
  BY TextOf DEF ScreenInv, ViewInv
<1> QED BY <1>1, FindNextIsRight, FindWrapIsRight

\* If no read fails, remote_cursor_find ends at the first line with a match
\* in its direction, around the end of the resource if need be, or, if it says
\* there is none, no other line than the one it began at has a match.
THEOREM FindStopsAtFirst ==
    ASSUME FirstLines
    PROVE  Screen!Spec => FindIsNearest
<1>0. Screen!ConstantsAssumption
  BY PartsAssumption
<1>1. Screen!Init => SearchInv
  BY DEF Screen!Init, SearchInv
<1>2. ScreenInv /\ SearchInv /\ [Screen!Next]_(Screen!vars) => SearchInv'
  BY <1>0, SearchStaysRight
<1>3. ScreenInv /\ SearchInv =>
        [/\ search # None /\ ~search.failed
         /\ Screen!FindNext({}) \/ Screen!FindWrap({})
         /\ search' = None
         => IF cursor' = cursor
            THEN \A i \in Screen!LineStarts \ {cursor.offset} : ~Screen!HasMatch(i)
            ELSE {i \in Screen!Passed(search, cursor'.offset) : Screen!HasMatch(i)}
                     = {cursor'.offset}]_(Screen!vars)
  BY <1>0, SearchEndsRight DEF Nearest
<1>4. Screen!Spec => []ScreenInv
  BY <1>0, ScreenInvHolds
<1> QED BY <1>1, <1>2, <1>3, <1>4, PTL DEF Screen!Spec, Screen!FindIsNearest, FindIsNearest

=============================================================================
