--------------------------- MODULE ByteArrayProofs ---------------------------
(***************************************************************************)
(* Proofs about ByteArray, for blocks of any size and any number of them:  *)
(* the pointer to the current block follows the position through every     *)
(* operation, so that no read follows a null pointer; the list of blocks   *)
(* behaves as one run of bytes (FlatBuffer), writeToFile()'s rounds        *)
(* included; and numbers, in zigzag and in the bytes of writeUint32(), are *)
(* read back as they were written.                                         *)
(***************************************************************************)
EXTENDS ByteArray, Recursion, SequenceTheorems, TLAPS

-----------------------------------------------------------------------------
(* Arithmetic of blocks                                                    *)

\* The block and the place in it, and back.
LEMMA DivMod ==
    ASSUME NEW B \in Nat \ {0}, NEW p \in Nat
    PROVE  /\ p \div B \in Nat /\ p % B \in 0 .. B - 1
           /\ p = (p \div B) * B + (p % B)
OBVIOUS

\* A position is in one block only.
LEMMA DivUnique ==
    ASSUME NEW B \in Nat \ {0}, NEW p \in Nat, NEW q \in Nat, q * B <= p, p < (q + 1) * B
    PROVE  p \div B = q
OBVIOUS

\* Whole blocks divide evenly.
LEMMA DivWhole ==
    ASSUME NEW B \in Nat \ {0}, NEW q \in Nat
    PROVE  (q * B) \div B = q
OBVIOUS

\* More blocks hold more.
LEMMA TimesMono ==
    ASSUME NEW B \in Nat \ {0}, NEW q \in Nat, NEW r \in Nat, q <= r
    PROVE  q * B \in Nat /\ q * B <= r * B
OBVIOUS

\* Rounded up, the blocks are enough.
LEMMA DivUp ==
    ASSUME NEW B \in Nat \ {0}, NEW x \in Nat
    PROVE  (x + B - 1) \div B \in Nat /\ ((x + B - 1) \div B) * B >= x
<1> DEFINE q == (x + B - 1) \div B
<1>1. x + B - 1 \in Nat
  OBVIOUS
<1>2. /\ q \in Nat /\ (x + B - 1) % B \in 0 .. B - 1
      /\ x + B - 1 = q * B + ((x + B - 1) % B)
  BY <1>1, DivMod
<1>3. q * B \in Nat
  BY <1>2
<1> HIDE DEF q
<1> QED
  BY <1>2, <1>3 DEF q

-----------------------------------------------------------------------------
(* The inductive invariant                                                 *)

\* The position and the size lie within the blocks, and m_cur is the block of
\* the position.
Within == position \in 0 .. capacity /\ bufSize \in position .. capacity
CurInv == blocks \in 1 .. MaxBlocks /\ Within /\ CursorAgrees

\* What the operations compute from m_cur, as long as it agrees.
LEMMA PlaceIs ==
    ASSUME CurInv, NEW size \in Nat
    PROVE  /\ capacity \in Nat /\ BaseSize \in Nat \ {0} /\ ReadSize \in Nat
           /\ Place(cur, size) = position + size
           /\ CurAfter(cur, size) = (position + size) \div BaseSize
<1>1. BaseSize \in Nat \ {0} /\ blocks \in Nat
  BY ByteArrayAssumption DEF CurInv
<1>2. capacity \in Nat
  BY <1>1 DEF capacity
<1>3. position \in Nat /\ bufSize \in Nat /\ ReadSize \in Nat
  BY <1>2 DEF CurInv, Within, ReadSize
<1>4. position = cur * BaseSize + (position % BaseSize)
  BY <1>1, <1>3, DivMod DEF CurInv, CursorAgrees
<1>5. Place(cur, size) = position + size
  BY <1>4 DEF Place
<1> QED
  BY <1>1, <1>2, <1>3, <1>5 DEF CurAfter

\* addCapacity() leaves m_cur with the position, and room for what is asked.
LEMMA AddCapacity ==
    ASSUME CurInv, NEW size \in Nat, Grow(size)
    PROVE  /\ CurAfterAdd(size) = cur
           /\ blocks' \in 1 .. MaxBlocks /\ capacity' \in Nat /\ capacity' >= capacity
           /\ position + size <= capacity'
<1>1. /\ BaseSize \in Nat \ {0} /\ blocks \in Nat \ {0} /\ capacity \in Nat
      /\ position \in 0 .. capacity /\ Room = capacity - position
      /\ position + size <= capacity \/ size > Room
  BY PlaceIs DEF CurInv, Within, Room
<1>2. Missing(size) \in Nat /\ Missing(size) * BaseSize >= size - Room
  <2>1. CASE size <= Room
    <3>1. Missing(size) = 0
      BY <2>1 DEF Missing
    <3> QED
      BY <3>1, <1>1, <2>1
  <2>2. CASE ~(size <= Room)
    <3>1. size - Room \in Nat
      BY <1>1, <2>2
    <3>2. Missing(size) = ((size - Room) + BaseSize - 1) \div BaseSize
      BY <2>2, <1>1 DEF Missing
    <3> QED
      BY <3>1, <3>2, <1>1, DivUp
  <2> QED
    BY <2>1, <2>2
<1>3. blocks' = blocks + Missing(size) /\ blocks' \in 1 .. MaxBlocks
  BY <1>1, <1>2, ByteArrayAssumption DEF Grow
<1>4. capacity' = capacity + Missing(size) * BaseSize /\ Missing(size) * BaseSize \in Nat
  BY <1>1, <1>2, <1>3, ByteArrayAssumption DEF capacity
<1>5. Room = 0 => cur = blocks
  <2>1. Room = 0 => position = blocks * BaseSize
    BY <1>1 DEF capacity
  <2> QED
    BY <2>1, <1>1, DivWhole DEF CurInv, CursorAgrees
<1>6. CurAfterAdd(size) = cur
  BY <1>5 DEF CurAfterAdd
<1> QED
  BY <1>1, <1>2, <1>3, <1>4, <1>6

\* setPosition() finds the block of the position.
LEMMA FollowIs ==
    ASSUME NEW v \in Nat, v <= MaxBlocks * BaseSize
    PROVE  Follow(v) = v \div BaseSize
<1>1. BaseSize \in Nat \ {0} /\ MaxBlocks \in Nat
  BY ByteArrayAssumption
<1>2. /\ v \div BaseSize \in Nat
      /\ (v \div BaseSize) * BaseSize <= v /\ v < ((v \div BaseSize) + 1) * BaseSize
  BY <1>1, DivMod
<1>3. v \div BaseSize \in 0 .. MaxBlocks
  BY <1>1, <1>2
<1>4. \A b \in 0 .. MaxBlocks : b * BaseSize <= v /\ v < (b + 1) * BaseSize => b = v \div BaseSize
  BY <1>1, DivUnique
<1> QED
  BY <1>2, <1>3, <1>4 DEF Follow

-----------------------------------------------------------------------------
(* One lemma for each operation                                            *)

\* What every operation comes down to: the position moves within the blocks,
\* which may have become more, and m_cur moves with it.
LEMMA PositionMoves ==
    ASSUME CurInv, NEW v \in Nat,
           blocks' \in 1 .. MaxBlocks, v <= capacity',
           position' = v, bufSize' \in v .. capacity', cur' = v \div BaseSize
    PROVE  CurInv'
BY DEF CurInv, Within, CursorAgrees

\* write() leaves m_cur at the position behind the bytes.
LEMMA WriteStep ==
    ASSUME CurInv, NEW bytes, BufWrite(bytes)
    PROVE  CurInv'
<1> DEFINE size == Len(bytes)
<1>1. /\ size \in Nat /\ Grow(size) /\ position' = position + size
      /\ cur' = CurAfter(CurAfterAdd(size), size) /\ bufSize' = Extended(position')
  BY ByteArrayAssumption DEF BufWrite
<1> HIDE DEF size
<1>2. /\ CurAfterAdd(size) = cur /\ blocks' \in 1 .. MaxBlocks /\ capacity' \in Nat
      /\ capacity' >= capacity /\ position + size <= capacity'
  BY <1>1, AddCapacity
<1>3. cur' = (position + size) \div BaseSize
  BY <1>1, <1>2, PlaceIs
<1>4. position + size \in Nat /\ bufSize' \in (position + size) .. capacity'
  BY <1>1, <1>2, PlaceIs DEF CurInv, Within, Extended
<1> QED
  BY <1>1, <1>2, <1>3, <1>4, PositionMoves

\* So does receiving into the buffers, fewer bytes than asked for or none included.
LEMMA ReceiveStep ==
    ASSUME CurInv, NEW bytes \in Strings \cup {<<>>}, NEW size \in Nat, BufReceive(bytes, size)
    PROVE  CurInv'
<1> DEFINE n == Len(bytes)
<1>1. n \in Nat /\ (bytes = <<>> => n = 0)
  BY ByteArrayAssumption
<1>2. /\ n <= size /\ Grow(size) /\ position' = position + n /\ bufSize' = Extended(position')
      /\ cur' = IF bytes = <<>> THEN CurAfterAdd(size) ELSE Follow(position')
  BY DEF BufReceive
<1> HIDE DEF n
<1>3. /\ CurAfterAdd(size) = cur /\ blocks' \in 1 .. MaxBlocks /\ capacity' \in Nat
      /\ capacity' >= capacity /\ position + size <= capacity'
  BY <1>2, AddCapacity
<1>4. position \in Nat /\ position + n \in Nat /\ position + n <= capacity'
  BY <1>1, <1>2, <1>3, PlaceIs DEF CurInv, Within
<1>5. capacity' <= MaxBlocks * BaseSize
  <2>1. capacity' = blocks' * BaseSize /\ blocks' \in Nat /\ blocks' <= MaxBlocks /\ MaxBlocks \in Nat
    BY <1>3, ByteArrayAssumption DEF capacity
  <2> QED
    BY <2>1, TimesMono, ByteArrayAssumption
<1>6. cur' = (position + n) \div BaseSize
  <2>1. CASE bytes = <<>>
    BY <2>1, <1>1, <1>2, <1>3, <1>4 DEF CurInv, CursorAgrees
  <2>2. CASE bytes # <<>>
    <3>1. position + n <= MaxBlocks * BaseSize
      BY <1>3, <1>4, <1>5, ByteArrayAssumption
    <3> QED
      BY <2>2, <3>1, <1>2, <1>4, FollowIs
  <2> QED
    BY <2>1, <2>2
<1>7. bufSize' \in (position + n) .. capacity'
  <2>1. bufSize \in Nat /\ bufSize <= capacity /\ capacity \in Nat /\ bufSize <= capacity'
    <3>1. bufSize \in Nat /\ bufSize <= capacity /\ capacity \in Nat
      BY <1>4, PlaceIs DEF CurInv, Within
    <3> QED
      BY <1>3, <3>1
  <2>2. bufSize' = Extended(position + n)
    BY <1>2
  <2> QED
    BY <1>3, <1>4, <2>1, <2>2 DEF Extended
<1> QED
  BY <1>2, <1>3, <1>4, <1>6, <1>7, PositionMoves

\* Reading, by read(), readUint32() or send(), moves within what was written.
LEMMA ConsumeStep ==
    ASSUME CurInv, NEW n \in 0 .. ReadSize,
           UNCHANGED <<blocks, bufSize>>, position' = position + n,
           \/ cur' = CurAfter(cur, n)
           \/ cur' = Follow(position')
           \/ n = 0 /\ cur' = cur
    PROVE  CurInv'
<1>1. /\ capacity \in Nat /\ position \in Nat /\ n \in Nat /\ BaseSize \in Nat \ {0}
      /\ position + n <= bufSize /\ bufSize <= capacity /\ bufSize \in Nat
  BY PlaceIs DEF CurInv, Within, ReadSize
<1>2. capacity' = capacity /\ capacity <= MaxBlocks * BaseSize
  BY ByteArrayAssumption DEF capacity, CurInv
<1>3. CurAfter(cur, n) = (position + n) \div BaseSize
  BY <1>1, PlaceIs
<1>4. Follow(position + n) = (position + n) \div BaseSize
  <2>1. position + n <= MaxBlocks * BaseSize
    BY <1>1, <1>2, ByteArrayAssumption
  <2> QED
    BY <2>1, <1>1, FollowIs
<1>5. cur' = (position + n) \div BaseSize
  BY <1>1, <1>3, <1>4 DEF CurInv, CursorAgrees
<1> QED
  BY <1>1, <1>2, <1>5, PositionMoves DEF CurInv

\* setPosition() leaves m_cur at the position asked for, or throws.
LEMMA SeekStep ==
    ASSUME CurInv, NEW v \in Nat, BufSetPosition(v)
    PROVE  CurInv'
<1>1. CASE v > capacity
  BY <1>1 DEF BufSetPosition, CurInv, Within, CursorAgrees, capacity
<1>2. CASE ~(v > capacity)
  <2>1. /\ position' = v /\ bufSize' = Extended(v) /\ cur' = Follow(v) /\ UNCHANGED blocks
    BY <1>2 DEF BufSetPosition
  <2>2. capacity' = capacity /\ capacity \in Nat /\ capacity <= MaxBlocks * BaseSize
    BY <2>1, PlaceIs, ByteArrayAssumption DEF capacity, CurInv
  <2>3. cur' = v \div BaseSize
    <3>1. v <= MaxBlocks * BaseSize
      BY <1>2, <2>2, ByteArrayAssumption
    <3> QED
      BY <2>1, <3>1, FollowIs
  <2>4. bufSize' \in v .. capacity'
    BY <1>2, <2>1, <2>2 DEF CurInv, Within, Extended
  <2> QED
    BY <1>2, <2>1, <2>2, <2>3, <2>4, PositionMoves DEF CurInv
<1> QED
  BY <1>1, <1>2

\* read() moves, throws, or would follow a null pointer.
LEMMA ReadStep ==
    ASSUME CurInv, NEW size \in Nat, BufRead(size)
    PROVE  CurInv'
<1>1. CASE size <= ReadSize /\ cur # Null
  <2>1. /\ UNCHANGED <<blocks, bufSize>> /\ position' = position + size /\ cur' = CurAfter(cur, size)
    BY <1>1, PlaceIs DEF BufRead
  <2> QED
    BY <1>1, <2>1, PlaceIs, ConsumeStep
<1>2. CASE ~(size <= ReadSize /\ cur # Null)
  <2>1. UNCHANGED <<blocks, position, bufSize, cur>>
    BY <1>2, PlaceIs DEF BufRead
  <2> QED
    BY <2>1 DEF CurInv, Within, CursorAgrees, capacity
<1> QED
  BY <1>1, <1>2

\* Everything else leaves the position alone, or begins again.
LEMMA OtherStep ==
    ASSUME CurInv, BufClear \/ BufToString \/ BufWriteToFile \/ UNCHANGED bufVars
    PROVE  CurInv'
<1>1. CASE BufClear
  <2>1. blocks' = 1 /\ position' = 0 /\ bufSize' = 0 /\ cur' = 0
    BY <1>1 DEF BufClear
  <2>2. capacity' = BaseSize /\ 0 \div BaseSize = 0 /\ 1 \in 1 .. MaxBlocks
    BY <2>1, ByteArrayAssumption DEF capacity
  <2> QED
    BY <2>1, <2>2, ByteArrayAssumption DEF CurInv, Within, CursorAgrees
<1>2. CASE BufToString \/ BufWriteToFile \/ UNCHANGED bufVars
  <2>1. UNCHANGED <<blocks, position, bufSize, cur>>
    BY <1>2 DEF BufToString, BufWriteToFile, bufVars
  <2> QED
    BY <2>1 DEF CurInv, Within, CursorAgrees, capacity
<1> QED
  BY <1>1, <1>2

-----------------------------------------------------------------------------
(* Theorems                                                                *)

\* A new ByteArray has one block and is at its start.
LEMMA CurInit == BufInit => CurInv
<1> SUFFICES ASSUME BufInit PROVE CurInv
  OBVIOUS
<1>1. capacity = BaseSize /\ 0 \div BaseSize = 0 /\ 1 \in 1 .. MaxBlocks
  BY ByteArrayAssumption DEF BufInit, capacity
<1> QED
  BY <1>1, ByteArrayAssumption DEF BufInit, CurInv, Within, CursorAgrees

\* Every operation preserves the invariant.
LEMMA CurNext == CurInv /\ [BufNext]_bufVars => CurInv'
<1> SUFFICES ASSUME CurInv, [BufNext]_bufVars PROVE CurInv'
  OBVIOUS
<1>1. ASSUME NEW bytes, BufWrite(bytes) PROVE CurInv'
  BY <1>1, WriteStep
<1>2. ASSUME NEW v \in Numbers, BufWriteNumber(v) PROVE CurInv'
  BY <1>2, WriteStep DEF BufWriteNumber
<1>3. ASSUME NEW bytes \in Strings \cup {<<>>}, NEW n \in ReadSizes, BufReceive(bytes, n) PROVE CurInv'
  BY <1>3, ReceiveStep, ByteArrayAssumption
<1>4. ASSUME NEW n \in ReadSizes, BufSend(n) PROVE CurInv'
  <2>1. n \in 0 .. ReadSize /\ UNCHANGED <<blocks, bufSize>> /\ position' = position + n /\ cur' = Follow(position')
    BY <1>4, PlaceIs DEF BufSend
  <2> QED
    BY <2>1, ConsumeStep
<1>5. ASSUME BufReadNumber PROVE CurInv'
  <2>1. PICK n \in 0 .. ReadSize :
            /\ UNCHANGED <<blocks, bufSize>> /\ position' = position + n
            /\ cur' = IF n = 0 THEN cur ELSE CurAfter(cur, n)
    BY <1>5 DEF BufReadNumber
  <2> QED
    BY <2>1, ConsumeStep
<1>6. ASSUME NEW n \in ReadSizes, BufRead(n) PROVE CurInv'
  BY <1>6, ReadStep, ByteArrayAssumption
<1>7. ASSUME NEW v \in 0 .. capacity + 1, BufSetPosition(v) PROVE CurInv'
  BY <1>7, SeekStep, PlaceIs
<1> QED
  BY <1>1, <1>2, <1>3, <1>4, <1>5, <1>6, <1>7, OtherStep DEF BufNext

\* The position and the size stay within the blocks, and m_cur is the block of
\* the position.
THEOREM CursorInvariant == BufSpec => []CurInv
  BY CurInit, CurNext, PTL DEF BufSpec

\* m_cur agrees with the position, for any size of the blocks.
THEOREM CursorCorrect == BufSpec => []CursorAgrees
<1>1. CurInv => CursorAgrees
  BY DEF CurInv
<1> QED
  BY <1>1, CursorInvariant, PTL

\* As long as nobody reads zero bytes, read() never follows a null pointer: at
\* the end of the last block there is nothing left to read.
NeverNull == bufLast.name # "crash"
THEOREM NoNullBlock == (0 \notin ReadSizes) /\ BufSpec => []NeverNull
<1> SUFFICES ASSUME 0 \notin ReadSizes PROVE BufSpec => []NeverNull
  OBVIOUS
<1>1. BufInit => NeverNull
  BY DEF BufInit, NeverNull
<1>2. CurInv /\ NeverNull /\ [BufNext]_bufVars => NeverNull'
  <2> SUFFICES ASSUME CurInv, NeverNull, [BufNext]_bufVars PROVE NeverNull'
    OBVIOUS
  <2>1. ASSUME NEW bytes, BufWrite(bytes) PROVE NeverNull'
    BY <2>1 DEF BufWrite, Operation, NeverNull
  <2>2. ASSUME NEW v \in Numbers, BufWriteNumber(v) PROVE NeverNull'
    BY <2>2, <2>1 DEF BufWriteNumber
  <2>3. ASSUME NEW bytes, NEW n, BufReceive(bytes, n) PROVE NeverNull'
    BY <2>3 DEF BufReceive, Operation, NeverNull
  <2>4. ASSUME NEW n \in ReadSizes, BufSend(n) PROVE NeverNull'
    BY <2>4 DEF BufSend, Operation, NeverNull
  <2>5. ASSUME BufReadNumber PROVE NeverNull'
    BY <2>5 DEF BufReadNumber, Operation, NeverNull
  <2>6. ASSUME NEW n \in ReadSizes, BufRead(n) PROVE NeverNull'
    <3>1. n > ReadSize \/ cur # Null
      <4>1. n \in Nat \ {0}
        BY ByteArrayAssumption
      <4>2. cur = Null => position >= capacity
        <5>1. position \in Nat /\ BaseSize \in Nat \ {0} /\ blocks \in Nat
          BY PlaceIs, ByteArrayAssumption DEF CurInv, Within
        <5>2. /\ cur \in Nat /\ position % BaseSize \in Nat
              /\ position = cur * BaseSize + (position % BaseSize)
          <6>1. cur = position \div BaseSize
            BY DEF CurInv, CursorAgrees
          <6>2. /\ position \div BaseSize \in Nat /\ position % BaseSize \in Nat
                /\ position = (position \div BaseSize) * BaseSize + (position % BaseSize)
            BY <5>1, DivMod
          <6> QED
            BY <6>1, <6>2
        <5>3. cur * BaseSize \in Nat
          BY <5>1, <5>2
        <5> QED
          BY <5>2, <5>3 DEF Null, capacity
      <4>3. position >= capacity => ReadSize = 0
        BY PlaceIs DEF CurInv, Within, ReadSize
      <4> QED
        BY <4>1, <4>2, <4>3, PlaceIs
    <3>2. bufLast'.name # "crash"
      BY <2>6, <3>1 DEF BufRead, Operation
    <3> QED
      BY <3>2 DEF NeverNull
  <2>7. ASSUME NEW v, BufSetPosition(v) PROVE NeverNull'
    BY <2>7 DEF BufSetPosition, Operation, NeverNull
  <2>8. ASSUME BufClear \/ BufToString \/ BufWriteToFile PROVE NeverNull'
    BY <2>8 DEF BufClear, BufToString, BufWriteToFile, Operation, NeverNull
  <2>9. ASSUME UNCHANGED bufVars PROVE NeverNull'
    BY <2>9 DEF bufVars, NeverNull
  <2> QED
    BY <2>1, <2>2, <2>3, <2>4, <2>5, <2>6, <2>7, <2>8, <2>9 DEF BufNext
<1> QED
  BY <1>1, <1>2, CursorInvariant, PTL DEF BufSpec

\* DecodeZigzag32() and DecodeZigzag64() invert the encoding, which maps the
\* signed numbers of a width onto the unsigned ones.
THEOREM ZigzagInverse ==
    ASSUME NEW H \in Nat, NEW v \in -H .. H - 1
    PROVE  EncodeZigzag(v) \in 0 .. 2 * H - 1 /\ DecodeZigzag(EncodeZigzag(v)) = v
BY DEF EncodeZigzag, DecodeZigzag
-----------------------------------------------------------------------------
(* Numbers                                                                 *)

\* The bytes of v, with those of v \div Radix in g.
Digits(v, g) == IF v < Radix THEN <<v>> ELSE <<(v % Radix) + Radix>> \o g[v \div Radix]

\* A number gets smaller with every byte.
LEMMA Smaller ==
    ASSUME NEW v \in Nat, ~(v < Radix)
    PROVE  /\ v \div Radix \in 0 .. v - 1 /\ v % Radix \in 0 .. Radix - 1
           /\ v = (v % Radix) + Radix * (v \div Radix)
<1>1. Radix \in Nat /\ Radix >= 2
  BY ByteArrayAssumption
<1>2. /\ v \div Radix \in Nat /\ v % Radix \in 0 .. Radix - 1
      /\ v = (v \div Radix) * Radix + (v % Radix)
  BY <1>1
<1> DEFINE q == v \div Radix
           d == v % Radix
<1>3. q \in Nat /\ d \in Nat /\ d \in 0 .. Radix - 1 /\ v = q * Radix + d
  BY <1>2
<1> HIDE DEF q, d
<1>4. q * Radix >= q * 2 /\ q * Radix = Radix * q
  BY <1>1, <1>3
<1>5. q < v
  BY <1>1, <1>3, <1>4
<1>6. v = d + Radix * q /\ q \in 0 .. v - 1
  BY <1>1, <1>3, <1>4, <1>5
<1> QED
  BY <1>3, <1>6 DEF q, d

\* The recursion of writeUint32()'s bytes is one that ends.
LEMMA VarintIs == \A v \in Nat : Varint[v] = Digits(v, Varint)
<1> DEFINE Upto(n, g) == \A v \in 0 .. n : g[v] = Digits(v, g)
<1>1. \A n \in Nat : \E g : Upto(n, g)
  <2> DEFINE T == {n \in Nat : \E g : Upto(n, g)}
  <2>1. 0 \in T
    <3> DEFINE g == [v \in {0} |-> <<v>>]
    <3>1. Upto(0, g)
      BY ByteArrayAssumption DEF Digits
    <3> QED
      BY <3>1
  <2>2. ASSUME NEW n \in Nat, n \in T PROVE n + 1 \in T
    <3>1. PICK g : Upto(n, g)
      BY <2>2
    <3> DEFINE h == [v \in 0 .. n + 1 |-> IF v <= n THEN g[v] ELSE Digits(v, g)]
    <3>2. ASSUME NEW v \in 0 .. n + 1 PROVE h[v] = Digits(v, h)
      <4>1. h[v] = Digits(v, g)
        BY <3>1
      <4>2. CASE v < Radix
        BY <4>1, <4>2 DEF Digits
      <4>3. CASE ~(v < Radix)
        <5>1. v \div Radix \in 0 .. n
          BY <4>3, Smaller
        <5>2. h[v \div Radix] = g[v \div Radix]
          BY <5>1
        <5> QED
          BY <4>1, <5>2 DEF Digits
      <4> QED
        BY <4>2, <4>3
    <3>3. Upto(n + 1, h)
      BY <3>2
    <3> HIDE DEF h, Upto
    <3> QED
      BY <3>3
  <2> HIDE DEF T
  <2>3. Nat \subseteq T
    BY <2>1, <2>2, InductOne
  <2> QED
    BY <2>3 DEF T
<1>2. ASSUME NEW n \in Nat, NEW m \in Nat, NEW g, NEW h, Upto(n, g), Upto(m, h)
      PROVE  \A v \in Nat : v <= n /\ v <= m => g[v] = h[v]
  <2> DEFINE T == {v \in Nat : v <= n /\ v <= m => g[v] = h[v]}
  <2>1. ASSUME NEW v \in Nat, \A w \in 0 .. v - 1 : w \in T PROVE v \in T
    <3> SUFFICES ASSUME v <= n, v <= m PROVE g[v] = h[v]
      OBVIOUS
    <3>1. g[v] = Digits(v, g) /\ h[v] = Digits(v, h)
      BY <1>2
    <3>2. CASE v < Radix
      BY <3>1, <3>2 DEF Digits
    <3>3. CASE ~(v < Radix)
      <4>1. v \div Radix \in 0 .. v - 1
        BY <3>3, Smaller
      <4>2. g[v \div Radix] = h[v \div Radix]
        BY <4>1, <2>1
      <4> QED
        BY <3>1, <4>2 DEF Digits
    <3> QED
      BY <3>2, <3>3
  <2> HIDE DEF T
  <2>2. Nat \subseteq T
    BY <2>1, Induct
  <2> QED
    BY <2>2 DEF T
<1> DEFINE Some(v) == CHOOSE g : Upto(v, g)
<1>3. \A v \in Nat : Upto(v, Some(v))
  BY <1>1
<1> DEFINE G == [v \in Nat |-> Some(v)[v]]
<1>4. ASSUME NEW v \in Nat PROVE G[v] = Digits(v, G)
  <2>1. Some(v)[v] = Digits(v, Some(v))
    BY <1>3
  <2>2. CASE v < Radix
    BY <2>1, <2>2 DEF Digits
  <2>3. CASE ~(v < Radix)
    <3> DEFINE w == v \div Radix
    <3>1. w \in Nat /\ w <= v
      BY <2>3, Smaller
    <3> HIDE DEF w
    <3>2. Some(w)[w] = Some(v)[w]
      <4> HIDE DEF Upto, Some
      <4> QED
        BY <1>2, <1>3, <3>1
    <3>3. G[w] = Some(v)[w]
      BY <3>1, <3>2
    <3> QED
      BY <2>1, <3>3 DEF Digits, w
  <2> QED
    BY <2>2, <2>3
<1>5. \E g : g = [v \in Nat |-> Digits(v, g)]
  <2>1. G = [v \in Nat |-> Digits(v, G)]
    BY <1>4
  <2> QED
    BY <2>1
<1>6. Varint = [v \in Nat |-> Digits(v, Varint)]
  BY <1>5 DEF Varint, Digits
<1> QED
  BY <1>6

LEMMA IsByte ==
    /\ Radix \in Nat /\ Radix >= 2
    /\ \A v \in Nat : v < Radix => v \in Byte /\ v + Radix \in Byte /\ (v + Radix) - Radix = v
BY ByteArrayAssumption DEF Byte

\* They are bytes, and all but the last say that it goes on.
LEMMA VarintBytesAre ==
    \A v \in Nat : /\ Varint[v] \in Seq(Byte) /\ Len(Varint[v]) \in Nat \ {0}
                   /\ Varint[v][Len(Varint[v])] < Radix
                   /\ \A k \in 1 .. Len(Varint[v]) - 1 : Varint[v][k] >= Radix
<1> DEFINE Good(s) == /\ s \in Seq(Byte) /\ Len(s) \in Nat \ {0} /\ s[Len(s)] < Radix
                      /\ \A k \in 1 .. Len(s) - 1 : s[k] >= Radix
           T == {v \in Nat : Good(Varint[v])}
<1>1. ASSUME NEW v \in Nat, \A w \in 0 .. v - 1 : w \in T PROVE v \in T
  <2>1. CASE v < Radix
    <3>1. v \in Byte
      BY <2>1, IsByte
    <3>2. PICK u : u = <<v>>
      OBVIOUS
    <3>3. Varint[v] = u
      BY <2>1, <3>2, VarintIs DEF Digits
    <3>4. u \in Seq(Byte) /\ Len(u) = 1 /\ u[1] = v
      BY <3>1, <3>2
    <3>5. Good(u)
      BY <2>1, <3>4
    <3> HIDE DEF Good
    <3> QED
      BY <3>3, <3>5
  <2>2. CASE ~(v < Radix)
    <3> DEFINE w == v \div Radix
               s == Varint[w]
               d == (v % Radix) + Radix
    <3>1. w \in 0 .. v - 1 /\ d \in Byte /\ d >= Radix
      <4>1. w \in 0 .. v - 1 /\ v % Radix \in 0 .. Radix - 1
        BY <2>2, Smaller
      <4>2. PICK x : x = v % Radix
        OBVIOUS
      <4>3. x \in Nat /\ x < Radix
        BY <4>1, <4>2, IsByte
      <4>4. x + Radix \in Byte /\ x + Radix >= Radix
        BY <4>3, IsByte
      <4> QED
        BY <4>1, <4>2, <4>4
    <3>2. Good(s)
      BY <1>1, <3>1
    <3>3. Varint[v] = <<d>> \o s
      BY <2>2, VarintIs DEF Digits
    <3> HIDE DEF s, d
    <3>4. <<d>> \in Seq(Byte) /\ Len(<<d>>) = 1 /\ <<d>>[1] = d
      BY <3>1
    <3>5. /\ <<d>> \o s \in Seq(Byte) /\ Len(<<d>> \o s) = 1 + Len(s)
          /\ \A i \in 1 .. 1 + Len(s) : (<<d>> \o s)[i] = IF i <= 1 THEN d ELSE s[i - 1]
      BY <3>2, <3>4, ConcatProperties
    <3> DEFINE u == <<d>> \o s
    <3>6. u \in Seq(Byte) /\ Len(u) = 1 + Len(s) /\ \A i \in 1 .. 1 + Len(s) : u[i] = IF i <= 1 THEN d ELSE s[i - 1]
      BY <3>5
    <3> HIDE DEF u
    <3>7. Good(u)
      <4>1. u[Len(u)] = s[Len(s)]
        BY <3>2, <3>6
      <4>2. ASSUME NEW k \in 1 .. Len(u) - 1 PROVE u[k] >= Radix
        BY <3>1, <3>2, <3>6
      <4> QED
        BY <3>2, <3>6, <4>1, <4>2
    <3> QED
      BY <3>3, <3>7 DEF u
  <2> QED
    BY <2>1, <2>2
<1> HIDE DEF T
<1>2. Nat \subseteq T
  BY <1>1, Induct
<1> QED
  BY <1>2 DEF T

\* What readUint32() makes of a byte and of those that follow.
Join(b, v) == IF b < Radix THEN b ELSE (b - Radix) + (Radix * v)

\* The fold goes through the bytes from the last one to the first.
LEMMA ReadVarintIs ==
    ASSUME NEW s \in Seq(Byte)
    PROVE  \E g : /\ ReadVarint(s) = g[1] /\ g[Len(s) + 1] = 0
                  /\ \A i \in 1 .. Len(s) : g[i] = Join(s[i], g[i + 1])
<1> DEFINE L == Len(s)
           Step(x, g) == IF x = {} THEN 0 ELSE Join(s[Min(x)], g[x \ {Min(x)}])
           From(n) == SUBSET ((L - n + 1) .. L)
<1>1. L \in Nat /\ DOMAIN s = 1 .. L
  OBVIOUS
<1> HIDE DEF L
<1>2. ASSUME NEW i \in Int, NEW x \in SUBSET (i .. L), x # {}
      PROVE  Min(x) \in x /\ x \ {Min(x)} \in SUBSET (i + 1 .. L)
  <2> DEFINE y == {m - i : m \in x}
  <2>1. y \in SUBSET Nat /\ y # {}
    <3>1. \A m \in x : m - i \in Nat
      BY <1>1, <1>2
    <3>2. \E m \in x : m - i \in y
      BY <1>2
    <3> QED
      BY <3>1, <3>2
  <2> HIDE DEF y
  <2>2. PICK n \in y : \A m \in y : n <= m
    BY <2>1, LeastNat
  <2>3. PICK m \in x : n = m - i
    BY <2>2 DEF y
  <2>4. \A k \in x : m <= k
    <3> SUFFICES ASSUME NEW k \in x PROVE m <= k
      OBVIOUS
    <3>1. k - i \in y
      BY DEF y
    <3>2. n <= k - i
      BY <2>2, <3>1
    <3> QED
      BY <1>1, <1>2, <2>3, <3>2
  <2>5. Min(x) \in x /\ \A k \in x : Min(x) <= k
    BY <2>4 DEF Min
  <2>6. ASSUME NEW k \in x \ {Min(x)} PROVE k \in i + 1 .. L
    <3>1. PICK n0 : n0 = Min(x)
      OBVIOUS
    <3>2. n0 \in i .. L /\ k \in i .. L /\ n0 <= k /\ k # n0
      BY <2>5, <3>1
    <3> QED
      BY <1>1, <3>2
  <2> QED
    BY <2>5, <2>6
<1>3. \A n \in Nat : \E g : \A x \in From(n) : g[x] = Step(x, g)
  <2> DEFINE T == {n \in Nat : \E g : \A x \in From(n) : g[x] = Step(x, g)}
  <2>1. 0 \in T
    <3> DEFINE g == [x \in {{}} |-> 0]
    <3>1. \A x \in From(0) : x = {}
      BY <1>1
    <3>2. \A x \in From(0) : g[x] = Step(x, g)
      BY <3>1
    <3> QED
      BY <3>2
  <2>2. ASSUME NEW n \in Nat, n \in T PROVE n + 1 \in T
    <3>1. PICK g : \A x \in From(n) : g[x] = Step(x, g)
      BY <2>2
    <3> DEFINE h == [x \in From(n + 1) |-> Step(x, g)]
    <3>2. ASSUME NEW x \in From(n + 1) PROVE h[x] = Step(x, h)
      <4>1. CASE x = {}
        BY <4>1
      <4>2. CASE x # {}
        <5> DEFINE y == x \ {Min(x)}
        <5>1. y \in From(n)
          <6>1. L - (n + 1) + 1 \in Int /\ L - (n + 1) + 1 + 1 = L - n + 1
            BY <1>1
          <6> QED
            BY <1>2, <3>2, <4>2, <6>1
        <5>2. From(n) \subseteq From(n + 1)
          BY <1>1
        <5>3. h[y] = g[y]
          BY <3>1, <5>1, <5>2
        <5> QED
          BY <3>2, <4>2, <5>3
      <4> QED
        BY <4>1, <4>2
    <3> HIDE DEF h, From, Step
    <3> QED
      BY <3>2
  <2> HIDE DEF T
  <2>3. Nat \subseteq T
    BY <2>1, <2>2, InductOne
  <2> QED
    BY <2>3 DEF T
<1> DEFINE All == SUBSET (1 .. L)
<1>4. \E g : g = [x \in All |-> Step(x, g)]
  <2>1. From(L) = All
    <3>1. L - L + 1 = 1
      BY <1>1
    <3> QED
      BY <3>1
  <2>2. PICK g : \A x \in All : g[x] = Step(x, g)
    <3> HIDE DEF From, Step, All
    <3> QED
      BY <1>1, <1>3, <2>1
  <2> DEFINE h == [x \in All |-> g[x]]
  <2>3. ASSUME NEW x \in All PROVE h[x] = Step(x, h)
    <3>1. CASE x = {}
      BY <2>2, <3>1
    <3>2. CASE x # {}
      <4>1. x \ {Min(x)} \in All
        OBVIOUS
      <4> QED
        BY <2>2, <3>2, <4>1
    <3> QED
      BY <3>1, <3>2
  <2>4. h = [x \in All |-> Step(x, h)]
    BY <2>3
  <2> QED
    BY <2>4
<1> DEFINE iter == CHOOSE g : g = [x \in All |-> Step(x, g)]
<1>5. ReadVarint(s) = iter[1 .. L]
  BY <1>1 DEF ReadVarint, FoldRight, MapThenFoldSet, Join
<1>6. iter = [x \in All |-> Step(x, iter)]
  BY <1>4
<1> HIDE DEF iter
<1>0. \A i \in 1 .. L + 1 : i .. L \in All
  BY <1>1
<1> DEFINE g == [i \in 1 .. L + 1 |-> iter[i .. L]]
<1>7. g[1] = iter[1 .. L] /\ g[L + 1] = 0
  <2>1. (L + 1) .. L = {} /\ {} \in All
    BY <1>1
  <2>2. iter[{}] = 0
    BY <1>6, <2>1
  <2> QED
    BY <1>1, <2>1, <2>2
<1>8. ASSUME NEW i \in 1 .. L PROVE g[i] = Join(s[i], g[i + 1])
  <2>1. i .. L \in All /\ i .. L # {} /\ (i .. L) \ {i} = (i + 1) .. L
    <3>1. i .. L \in All /\ i \in i .. L
      BY <1>0, <1>1
    <3>2. (i .. L) \ {i} = (i + 1) .. L
      BY <1>1
    <3> QED
      BY <3>1, <3>2
  <2>2. Min(i .. L) = i
    BY <1>1 DEF Min
  <2>3. iter[i .. L] = Join(s[i], iter[(i + 1) .. L])
    BY <1>6, <2>1, <2>2
  <2> QED
    BY <1>1, <2>3
<1> QED
  BY <1>5, <1>7, <1>8 DEF L

\* readUint32() and readUint64() give back the number that was written, in
\* whatever base the bytes are and however many they are.
THEOREM VarintInverse == \A v \in Nat : ReadVarint(Varint[v]) = v
<1> SUFFICES ASSUME NEW number \in Nat PROVE ReadVarint(Varint[number]) = number
  OBVIOUS
<1> DEFINE s == Varint[number]
<1>1. s \in Seq(Byte) /\ Len(s) \in Nat \ {0}
  BY VarintBytesAre
<1> HIDE DEF s
<1>2. PICK g : /\ ReadVarint(s) = g[1] /\ g[Len(s) + 1] = 0
               /\ \A i \in 1 .. Len(s) : g[i] = Join(s[i], g[i + 1])
  BY <1>1, ReadVarintIs
<1> DEFINE Ends(i, u) == Len(s) = i - 1 + Len(u) /\ \A k \in 1 .. Len(u) : s[i - 1 + k] = u[k]
           T == {v \in Nat : \A i \in 1 .. Len(s) : Ends(i, Varint[v]) => g[i] = v}
<1>3. ASSUME NEW v \in Nat, \A w \in 0 .. v - 1 : w \in T PROVE v \in T
  <2> SUFFICES ASSUME NEW i \in 1 .. Len(s), Ends(i, Varint[v]) PROVE g[i] = v
    OBVIOUS
  <2>1. g[i] = Join(s[i], g[i + 1])
    BY <1>2
  <2>2. CASE v < Radix
    <3>1. Varint[v] = <<v>> /\ Len(<<v>>) = 1 /\ <<v>>[1] = v
      BY <2>2, VarintIs DEF Digits
    <3>2. s[i - 1 + 1] = v /\ i - 1 + 1 = i
      BY <3>1
    <3> QED
      BY <2>1, <2>2, <3>2 DEF Join
  <2>3. CASE ~(v < Radix)
    <3> DEFINE w == v \div Radix
               u == Varint[w]
               d == (v % Radix) + Radix
    <3>1. /\ w \in 0 .. v - 1 /\ d \in Byte /\ d >= Radix /\ Radix \in Nat /\ d - Radix = v % Radix
          /\ v = (v % Radix) + Radix * w
      BY <2>3, Smaller, IsByte
    <3>2. u \in Seq(Byte) /\ Len(u) \in Nat \ {0}
      BY <3>1, VarintBytesAre
    <3>3. Varint[v] = <<d>> \o u
      BY <2>3, VarintIs DEF Digits
    <3> HIDE DEF u, d, w
    <3>4. <<d>> \in Seq(Byte) /\ Len(<<d>>) = 1 /\ <<d>>[1] = d
      BY <3>1
    <3>5. /\ Len(Varint[v]) = 1 + Len(u)
          /\ \A k \in 1 .. 1 + Len(u) : Varint[v][k] = IF k <= 1 THEN d ELSE u[k - 1]
      BY <3>2, <3>3, <3>4, ConcatProperties
    <3>6. s[i] = d
      <4>1. 1 \in 1 .. Len(Varint[v]) /\ i - 1 + 1 = i
        BY <3>2, <3>5
      <4> QED
        BY <3>2, <3>5, <4>1
    <3>7. i + 1 \in 1 .. Len(s) /\ Ends(i + 1, u)
      <4>1. Len(s) = i + Len(u)
        BY <3>2, <3>5
      <4>2. ASSUME NEW k \in 1 .. Len(u) PROVE s[i + 1 - 1 + k] = u[k]
        <5>1. k + 1 \in 1 .. Len(Varint[v]) /\ i - 1 + (k + 1) = i + 1 - 1 + k /\ (k + 1) - 1 = k /\ ~(k + 1 <= 1)
          BY <3>2, <3>5
        <5> QED
          BY <3>5, <5>1
      <4>3. PICK l : l = Len(u)
        OBVIOUS
      <4>4. PICK n : n = Len(s)
        OBVIOUS
      <4>5. l \in Nat \ {0} /\ n \in Nat /\ n = i + l
        BY <1>1, <3>2, <4>1, <4>3, <4>4
      <4>6. i + 1 \in 1 .. n /\ n = i + 1 - 1 + l
        BY <4>5
      <4> QED
        BY <4>2, <4>3, <4>4, <4>6
    <3>8. g[i + 1] = w
      BY <1>3, <3>1, <3>7 DEF u
    <3>9. d \in Int /\ ~(d < Radix)
      BY <3>1, IsByte DEF Byte
    <3> QED
      BY <2>1, <3>1, <3>6, <3>8, <3>9 DEF Join
  <2> QED
    BY <2>2, <2>3
<1> HIDE DEF T
<1>4. number \in T
  BY <1>3, Induct
<1>5. Ends(1, Varint[number])
  BY <1>1 DEF s
<1> QED
  BY <1>1, <1>2, <1>4, <1>5 DEF T, s

-----------------------------------------------------------------------------
(* One run of bytes                                                        *)

\* The bytes are where the blocks say.
Data == Byte \cup {Junk}
ContentOK == content \in [0 .. capacity - 1 -> Data]

\* The run of bytes, as FlatBuffer sees it.
Text == [k \in 1 .. bufSize |-> content[k - 1]]

LEMMA TextIs ==
    ASSUME CurInv, ContentOK
    PROVE  /\ position \in Nat /\ bufSize \in Nat /\ position <= bufSize /\ bufSize <= capacity
           /\ capacity \in Nat /\ ReadSize = bufSize - position
           /\ Text \in Seq(Data) /\ Len(Text) = bufSize
           /\ \A k \in 1 .. bufSize : Text[k] = content[k - 1]
<1>1. /\ position \in Nat /\ bufSize \in Nat /\ position <= bufSize /\ bufSize <= capacity
      /\ capacity \in Nat
  BY PlaceIs DEF CurInv, Within
<1>2. \A k \in 1 .. bufSize : content[k - 1] \in Data
  BY <1>1 DEF ContentOK
<1>3. Text \in [1 .. bufSize -> Data]
  BY <1>2 DEF Text
<1>4. Text \in Seq(Data) /\ Len(Text) = bufSize
  BY <1>1, <1>3
<1> QED
  BY <1>1, <1>4 DEF Text, ReadSize

\* What is read from m_cur on is what follows the position.
LEMMA BytesAre ==
    ASSUME CurInv, ContentOK, NEW n \in 0 .. ReadSize
    PROVE  /\ BytesFrom(cur, n) \in Seq(Data) /\ Len(BytesFrom(cur, n)) = n
           /\ \A k \in 1 .. n : BytesFrom(cur, n)[k] = content[position + k - 1]
<1>1. n \in Nat /\ position + n <= bufSize
  BY TextIs
<1>2. \A k \in 1 .. n : Place(cur, k - 1) = position + k - 1
  BY <1>1, PlaceIs, TextIs
<1>3. BytesFrom(cur, n) = [k \in 1 .. n |-> content[position + k - 1]]
  BY <1>2 DEF BytesFrom
<1>4. \A k \in 1 .. n : content[position + k - 1] \in Data
  BY <1>1, TextIs DEF ContentOK
<1>5. BytesFrom(cur, n) \in [1 .. n -> Data]
  BY <1>3, <1>4
<1> QED
  BY <1>1, <1>3, <1>5

\* What is written lies at the position, and nothing else has changed.
LEMMA PutIs ==
    ASSUME CurInv, ContentOK, NEW bytes \in Seq(Byte), NEW size \in Nat, Len(bytes) <= size,
           Grow(size), content' = Put(bytes, size, CurAfterAdd(size))
    PROVE  /\ ContentOK' /\ capacity' \in Nat /\ capacity <= capacity' /\ position + size <= capacity'
           /\ \A i \in 0 .. capacity' - 1 :
                  content'[i] = IF position <= i /\ i < position + Len(bytes) THEN bytes[i - position + 1]
                                ELSE IF i < capacity THEN content[i] ELSE Junk
<1>1. /\ CurAfterAdd(size) = cur /\ capacity' \in Nat /\ capacity' >= capacity
      /\ position + size <= capacity'
  BY AddCapacity
<1>2. Grown(size) = [i \in 0 .. capacity' - 1 |-> IF i < capacity THEN content[i] ELSE Junk]
  BY DEF Grown, Grow, capacity
<1> DEFINE L == Len(bytes)
           At(i, k) == i = Place(cur, k - 1)
<1>3. L \in Nat /\ L <= size /\ \A k \in 1 .. L : bytes[k] \in Byte
  OBVIOUS
<1>4. position \in Nat /\ capacity \in Nat
  BY TextIs
<1> HIDE DEF L
<1>5. ASSUME NEW i \in Int, NEW k \in 1 .. L PROVE At(i, k) <=> k = i - position + 1
  <2>1. Place(cur, k - 1) = position + (k - 1)
    BY <1>3, PlaceIs
  <2> QED
    BY <1>3, <1>4, <2>1
<1>6. content' = [i \in 0 .. capacity' - 1 |->
                     IF \E k \in 1 .. L : At(i, k) THEN bytes[CHOOSE k \in 1 .. L : At(i, k)]
                     ELSE IF i < capacity THEN content[i] ELSE Junk]
  BY <1>1, <1>2 DEF Put, L
<1> HIDE DEF At
<1>7. ASSUME NEW i \in 0 .. capacity' - 1
      PROVE  /\ content'[i] = IF position <= i /\ i < position + L THEN bytes[i - position + 1]
                              ELSE IF i < capacity THEN content[i] ELSE Junk
             /\ content'[i] \in Data
  <2>1. CASE position <= i /\ i < position + L
    <3>1. i - position + 1 \in 1 .. L
      BY <1>1, <1>3, <1>4, <2>1
    <3>2. \E k \in 1 .. L : At(i, k)
      BY <1>1, <1>5, <3>1
    <3>3. (CHOOSE k \in 1 .. L : At(i, k)) = i - position + 1
      BY <1>1, <1>5, <3>2
    <3> QED
      BY <1>3, <1>6, <2>1, <3>1, <3>2, <3>3 DEF Data
  <2>2. CASE ~(position <= i /\ i < position + L)
    <3>1. ~\E k \in 1 .. L : At(i, k)
      BY <1>1, <1>3, <1>4, <1>5, <2>2
    <3>2. content'[i] = IF i < capacity THEN content[i] ELSE Junk
      BY <1>6, <3>1
    <3>3. i < capacity => content[i] \in Data
      BY <1>1, <1>4 DEF ContentOK
    <3> QED
      BY <2>2, <3>2, <3>3 DEF Data
  <2> QED
    BY <2>1, <2>2
<1>8. ContentOK'
  BY <1>6, <1>7 DEF ContentOK
<1> QED
  BY <1>1, <1>7, <1>8 DEF L

\* The invariant, with the contents.
BufInv == CurInv /\ ContentOK

\* A write, of all the bytes there is room for or of fewer.
LEMMA WriteIs ==
    ASSUME BufInv, NEW bytes \in Seq(Byte), NEW size \in Nat, Len(bytes) <= size,
           Grow(size), content' = Put(bytes, size, CurAfterAdd(size)),
           position' = position + Len(bytes), bufSize' = Extended(position'), CurInv'
    PROVE  Text' = SubSeq(Text, 1, position) \o bytes \o SubSeq(Text, position + Len(bytes) + 1, Len(Text))
<1>1. ContentOK'
  BY PutIs DEF BufInv
<1>2. /\ Text \in Seq(Data) /\ Len(Text) = bufSize /\ \A k \in 1 .. bufSize : Text[k] = content[k - 1]
      /\ position \in Nat /\ bufSize \in Nat /\ position <= bufSize /\ bufSize <= capacity /\ capacity \in Nat
  BY TextIs DEF BufInv
<1>3. /\ Text' \in Seq(Data) /\ Len(Text') = bufSize' /\ \A k \in 1 .. bufSize' : Text'[k] = content'[k - 1]
      /\ bufSize' \in Nat /\ bufSize' <= capacity' /\ capacity' \in Nat
  <2>1. (CurInv /\ ContentOK => /\ Text \in Seq(Data) /\ Len(Text) = bufSize
                                /\ \A k \in 1 .. bufSize : Text[k] = content[k - 1]
                                /\ bufSize \in Nat /\ bufSize <= capacity /\ capacity \in Nat)'
    BY TextIs, PTL
  <2> QED
    BY <1>1, <2>1
<1>4. bytes \in Seq(Data) /\ Len(bytes) \in Nat
  BY SeqMonotonic DEF Data
<1> DEFINE L == Len(bytes)
           a == SubSeq(Text, 1, position)
           b == SubSeq(Text, position + L + 1, Len(Text))
<1>5. bufSize' = IF position + L > bufSize THEN position + L ELSE bufSize
  BY DEF Extended
<1>6. \A i \in 1 .. bufSize' : Text'[i] = IF i <= position THEN Text[i]
                                          ELSE IF i <= position + L THEN bytes[i - position] ELSE Text[i]
  <2> SUFFICES ASSUME NEW i \in 1 .. bufSize'
               PROVE  Text'[i] = IF i <= position THEN Text[i]
                                 ELSE IF i <= position + L THEN bytes[i - position] ELSE Text[i]
    OBVIOUS
  <2>1. i \in Nat /\ i - 1 \in 0 .. capacity' - 1 /\ Text'[i] = content'[i - 1]
    BY <1>3
  <2>2. content'[i - 1] = IF position <= i - 1 /\ i - 1 < position + L THEN bytes[i - 1 - position + 1]
                          ELSE IF i - 1 < capacity THEN content[i - 1] ELSE Junk
    BY <2>1, PutIs DEF BufInv
  <2>3. CASE position <= i - 1 /\ i - 1 < position + L
    <3>1. i - 1 - position + 1 = i - position /\ ~(i <= position) /\ i <= position + L
      BY <1>2, <1>4, <2>1, <2>3
    <3> QED
      BY <2>1, <2>2, <2>3, <3>1
  <2>4. CASE ~(position <= i - 1 /\ i - 1 < position + L)
    <3>1. i <= bufSize /\ i - 1 < capacity /\ (i <= position \/ ~(i <= position + L))
      BY <1>2, <1>4, <1>5, <2>1, <2>4
    <3>2. Text'[i] = content[i - 1] /\ Text[i] = content[i - 1]
      BY <1>2, <2>1, <2>2, <2>4, <3>1
    <3> QED
      BY <3>1, <3>2
  <2> QED
    BY <2>3, <2>4
<1>7. /\ a \in Seq(Data) /\ Len(a) = position /\ \A i \in 1 .. position : a[i] = Text[i]
  <2>1. \A i \in 1 .. position : Text[i] \in Data
    BY <1>2
  <2> QED
    BY <1>2, <2>1, SubSeqProperties
<1>8. /\ b \in Seq(Data) /\ Len(b) = (IF position + L + 1 <= bufSize THEN bufSize - (position + L) ELSE 0)
      /\ \A i \in 1 .. bufSize - (position + L) : b[i] = Text[position + L + i]
  <2>1. \A i \in position + L + 1 .. bufSize : Text[i] \in Data
    BY <1>2, <1>4
  <2>2. /\ b \in Seq(Data)
        /\ Len(b) = IF position + L + 1 <= bufSize THEN bufSize - (position + L + 1) + 1 ELSE 0
        /\ \A i \in 1 .. bufSize - (position + L + 1) + 1 : b[i] = Text[(position + L + 1) + i - 1]
    BY <1>2, <1>4, <2>1, SubSeqProperties
  <2>3. L \in Nat /\ Len(Text) = bufSize
    BY <1>2, <1>4
  <2> HIDE DEF b, L
  <2>4. /\ bufSize - (position + L + 1) + 1 = bufSize - (position + L)
        /\ \A i \in 1 .. bufSize - (position + L) : (position + L + 1) + i - 1 = position + L + i
    BY <1>2, <2>3
  <2> QED
    BY <2>2, <2>4
<1>9. L \in Nat /\ Len(b) \in Nat
  BY <1>4, <1>8
<1> HIDE DEF a, b
<1>10. /\ a \o bytes \in Seq(Data) /\ Len(a \o bytes) = position + L
      /\ \A i \in 1 .. position + L : (a \o bytes)[i] = IF i <= position THEN a[i] ELSE bytes[i - position]
  BY <1>4, <1>7, ConcatProperties
<1> DEFINE c == a \o bytes
<1>11. /\ c \o b \in Seq(Data) /\ Len(c \o b) = position + L + Len(b)
       /\ \A i \in 1 .. position + L + Len(b) : (c \o b)[i] = IF i <= position + L THEN c[i] ELSE b[i - (position + L)]
  <2>1. b \in Seq(Data) /\ c \in Seq(Data) /\ Len(c) = position + L
    BY <1>8, <1>10
  <2> HIDE DEF c, L
  <2>2. /\ c \o b \in Seq(Data) /\ Len(c \o b) = Len(c) + Len(b)
        /\ \A i \in 1 .. Len(c) + Len(b) : (c \o b)[i] = IF i <= Len(c) THEN c[i] ELSE b[i - Len(c)]
    BY <2>1, ConcatProperties
  <2> QED
    BY <2>1, <2>2
<1>12. Len(c \o b) = bufSize'
  <2> HIDE DEF c, L
  <2>1. PICK u : u = c \o b
    OBVIOUS
  <2>2. Len(u) = position + L + Len(b)
    BY <1>11, <2>1
  <2>3. PICK l : l = Len(b)
    OBVIOUS
  <2>4. l = IF position + L + 1 <= bufSize THEN bufSize - (position + L) ELSE 0
    BY <1>8, <2>3
  <2>5. position + L + l = bufSize'
    BY <1>2, <1>5, <1>9, <2>4
  <2> QED
    BY <2>1, <2>2, <2>3, <2>5
<1>13. ASSUME NEW i \in 1 .. bufSize' PROVE (c \o b)[i] = Text'[i]
  <2> HIDE DEF c, L
  <2>1. CASE i <= position
    BY <1>2, <1>4, <1>6, <1>7, <1>10, <1>11, <1>12, <2>1 DEF c, L
  <2>2. CASE ~(i <= position) /\ i <= position + L
    BY <1>2, <1>4, <1>6, <1>10, <1>11, <1>12, <2>2 DEF c, L
  <2>3. CASE ~(i <= position + L)
    <3>1. /\ i - (position + L) \in 1 .. bufSize - (position + L) /\ ~(i <= position)
          /\ position + L + (i - (position + L)) = i
      BY <1>2, <1>3, <1>5, <1>9, <2>3
    <3>2. (c \o b)[i] = b[i - (position + L)] /\ b[i - (position + L)] = Text[i]
      BY <1>8, <1>11, <1>12, <2>3, <3>1
    <3> QED
      BY <1>6, <2>3, <3>1, <3>2
  <2> QED
    BY <2>1, <2>2, <2>3
<1>14. Text' = c \o b
  <2> HIDE DEF c
  <2> QED
    BY <1>3, <1>11, <1>12, <1>13, SeqEqual
<1> QED
  BY <1>14 DEF a, b

\* The rest that can be read, and its beginnings.
LEMMA RestIs ==
    ASSUME BufInv, NEW n \in 0 .. ReadSize
    PROVE  /\ BytesFrom(cur, n) = SubSeq(Text, position + 1, position + n)
           /\ BytesFrom(cur, n) \in Seq(Data) /\ Len(BytesFrom(cur, n)) = n
           /\ SubSeq(SubSeq(Text, position + 1, Len(Text)), 1, n) = BytesFrom(cur, n)
           /\ SubSeq(BytesFrom(cur, n), 1, n) = BytesFrom(cur, n)
           /\ Len(SubSeq(Text, position + 1, Len(Text))) = ReadSize
<1>1. /\ Text \in Seq(Data) /\ Len(Text) = bufSize /\ \A k \in 1 .. bufSize : Text[k] = content[k - 1]
      /\ position \in Nat /\ bufSize \in Nat /\ position <= bufSize /\ ReadSize = bufSize - position
      /\ n \in Nat /\ position + n <= bufSize
  BY TextIs DEF BufInv
<1> DEFINE b == BytesFrom(cur, n)
           p == SubSeq(Text, position + 1, position + n)
           r == SubSeq(Text, position + 1, Len(Text))
           q == SubSeq(r, 1, n)
           c == SubSeq(b, 1, n)
<1>2. b \in Seq(Data) /\ Len(b) = n /\ \A k \in 1 .. n : b[k] = content[position + k - 1]
  BY BytesAre DEF BufInv
<1>3. \A i \in 1 .. bufSize : Text[i] \in Data
  BY <1>1
<1>4. /\ p \in Seq(Data) /\ Len(p) = n /\ \A i \in 1 .. n : p[i] = Text[position + i]
  <2>1. /\ p \in Seq(Data) /\ Len(p) = IF position + 1 <= position + n THEN position + n - (position + 1) + 1 ELSE 0
        /\ \A i \in 1 .. position + n - (position + 1) + 1 : p[i] = Text[position + 1 + i - 1]
    BY <1>1, <1>3, SubSeqProperties
  <2>2. /\ position + n - (position + 1) + 1 = n
        /\ \A i \in 1 .. n : position + 1 + i - 1 = position + i
    BY <1>1
  <2> HIDE DEF p
  <2> QED
    BY <1>1, <2>1, <2>2
<1>5. /\ r \in Seq(Data) /\ Len(r) = ReadSize /\ \A i \in 1 .. ReadSize : r[i] = Text[position + i]
  <2>1. /\ r \in Seq(Data) /\ Len(r) = IF position + 1 <= bufSize THEN bufSize - (position + 1) + 1 ELSE 0
        /\ \A i \in 1 .. bufSize - (position + 1) + 1 : r[i] = Text[position + 1 + i - 1]
    BY <1>1, <1>3, SubSeqProperties
  <2>2. /\ bufSize - (position + 1) + 1 = ReadSize
        /\ \A i \in 1 .. ReadSize : position + 1 + i - 1 = position + i
    BY <1>1
  <2> HIDE DEF r
  <2> QED
    BY <1>1, <2>1, <2>2
<1> HIDE DEF b, p, r
<1>6. q \in Seq(Data) /\ Len(q) = n /\ \A i \in 1 .. n : q[i] = r[i]
  <2>1. \A i \in 1 .. n : r[i] \in Data
    BY <1>1, <1>5
  <2> QED
    BY <1>1, <2>1, SubSeqProperties
<1>7. c = b
  BY <1>2, SubSeqFull
<1> HIDE DEF q
<1>8. b = p
  <2>1. \A i \in 1 .. n : b[i] = p[i]
    <3> SUFFICES ASSUME NEW i \in 1 .. n PROVE b[i] = p[i]
      OBVIOUS
    <3>1. position + i \in 1 .. bufSize
      BY <1>1
    <3>2. Text[position + i] = content[(position + i) - 1]
      BY <1>1, <3>1
    <3>3. (position + i) - 1 = position + i - 1
      BY <1>1
    <3> QED
      BY <1>2, <1>4, <3>2, <3>3
  <2> QED
    BY <1>2, <1>4, <2>1, SeqEqual
<1>9. q = b
  <2>1. \A i \in 1 .. n : q[i] = b[i]
    <3> SUFFICES ASSUME NEW i \in 1 .. n PROVE q[i] = b[i]
      OBVIOUS
    <3>1. i \in 1 .. ReadSize
      BY <1>1
    <3> QED
      BY <1>4, <1>5, <1>6, <1>8, <3>1
  <2> QED
    BY <1>2, <1>6, <2>1, SeqEqual
<1> QED
  BY <1>2, <1>5, <1>7, <1>8, <1>9 DEF b, p, q, r, c

-----------------------------------------------------------------------------
(* writeToFile()                                                           *)

\* One round, and what has been taken so far, the block, the position, what is left.
FileRound(was) ==
    LET part == FilePart(was[2], was[3], was[4]) IN
    IF was[4] = 0 THEN was
    ELSE <<was[1] \o part, was[2] + 1, was[3] + Len(part), was[4] - Len(part)>>
FileRounds(f) ==
    /\ f[0] = <<<<>>, cur, position, ReadSize>>
    /\ \A n \in Nat : n + 1 <= MaxBlocks => f[n + 1] = FileRound(f[n])

\* The rounds exist, and writeToFile() has what the last one leaves.
LEMMA FileFunction == \E f : FileRounds(f) /\ FileFrom(cur, position, ReadSize) = f[MaxBlocks][1]
<1> DEFINE N == ReadSize
           Round(was) == LET part == FilePart(was[2], was[3], was[4]) IN
                         IF was[4] = 0 THEN was
                         ELSE <<was[1] \o part, was[2] + 1, was[3] + Len(part), was[4] - Len(part)>>
           Start == <<<<>>, cur, position, N>>
           Rounds(g, n) == IF n = 0 THEN Start ELSE Round(g[n - 1])
<1>1. MaxBlocks \in Nat \ {0}
  BY ByteArrayAssumption
<1> HIDE DEF N
<1>4. \A m \in Nat : \E g : \A n \in 0 .. m : g[n] = Rounds(g, n)
  <2> DEFINE T == {m \in Nat : \E g : \A n \in 0 .. m : g[n] = Rounds(g, n)}
  <2> HIDE DEF Round, Start
  <2>1. 0 \in T
    <3> DEFINE g == [n \in {0} |-> Start]
    <3>1. \A n \in 0 .. 0 : g[n] = Rounds(g, n)
      OBVIOUS
    <3> HIDE DEF g, Rounds
    <3> QED
      BY <3>1
  <2>2. ASSUME NEW m \in Nat, m \in T PROVE m + 1 \in T
    <3>1. PICK g : \A n \in 0 .. m : g[n] = Rounds(g, n)
      BY <2>2
    <3> DEFINE h == [n \in 0 .. m + 1 |-> IF n <= m THEN g[n] ELSE Rounds(g, n)]
    <3>2. ASSUME NEW n \in 0 .. m + 1 PROVE h[n] = Rounds(h, n)
      <4>1. h[n] = Rounds(g, n)
        BY <3>1
      <4>2. n # 0 => h[n - 1] = g[n - 1]
        OBVIOUS
      <4> QED
        BY <4>1, <4>2
    <3> HIDE DEF h, Rounds
    <3> QED
      BY <3>2
  <2> HIDE DEF T
  <2>3. Nat \subseteq T
    BY <2>1, <2>2, InductOne
  <2> QED
    BY <2>3 DEF T
<1>5. \E g : g = [n \in 0 .. MaxBlocks |-> Rounds(g, n)]
  <2> HIDE DEF Round, Start
  <2>1. PICK g : \A n \in 0 .. MaxBlocks : g[n] = Rounds(g, n)
    BY <1>1, <1>4
  <2> DEFINE h == [n \in 0 .. MaxBlocks |-> g[n]]
  <2>2. ASSUME NEW n \in 0 .. MaxBlocks PROVE h[n] = Rounds(h, n)
    <3>1. n # 0 => h[n - 1] = g[n - 1]
      BY <1>1
    <3> QED
      BY <2>1, <3>1
  <2> HIDE DEF Rounds
  <2>3. h = [n \in 0 .. MaxBlocks |-> Rounds(h, n)]
    BY <2>2
  <2> QED
    BY <2>3
<1> DEFINE f == CHOOSE g : g = [n \in 0 .. MaxBlocks |-> Rounds(g, n)]
<1>6. FileFrom(cur, position, N) = f[MaxBlocks][1]
  BY DEF FileFrom
<1>7. \A n \in 0 .. MaxBlocks : f[n] = Rounds(f, n)
  <2> HIDE DEF Rounds
  <2>1. f = [n \in 0 .. MaxBlocks |-> Rounds(f, n)]
    BY <1>5
  <2> HIDE DEF f
  <2> QED
    BY <2>1
<1> HIDE DEF f
<1>8. f[0] = Start
  <2> HIDE DEF Start, Round
  <2> QED
    BY <1>1, <1>7
<1>9. ASSUME NEW n \in Nat, n + 1 <= MaxBlocks PROVE f[n + 1] = FileRound(f[n])
  <2>1. n + 1 \in 0 .. MaxBlocks /\ n + 1 # 0 /\ n + 1 - 1 = n
    BY <1>1, <1>9
  <2>2. f[n + 1] = Round(f[n])
    <3> HIDE DEF Round
    <3> QED
      BY <1>7, <2>1
  <2> QED
    BY <2>2 DEF FileRound
<1>10. FileRounds(f)
  BY <1>8, <1>9 DEF FileRounds, N
<1> QED
  BY <1>6, <1>10 DEF N

\* At the start of a block every round of writeToFile() takes a whole block, but
\* for the last one, and the rounds together all that can be read.
LEMMA FileIs ==
    ASSUME BufInv, position % BaseSize = 0
    PROVE  FileFrom(cur, position, ReadSize) = BytesFrom(cur, ReadSize)
<1> DEFINE N == ReadSize
           B == BaseSize
<1>1. /\ B \in Nat \ {0} /\ N \in Nat /\ MaxBlocks \in Nat \ {0}
      /\ position \in Nat /\ bufSize \in Nat /\ N = bufSize - position /\ bufSize <= capacity
      /\ capacity = blocks * B /\ blocks \in 1 .. MaxBlocks
  BY TextIs, ByteArrayAssumption DEF BufInv, CurInv, capacity
<1>2. N <= MaxBlocks * B
  <2>1. blocks * B <= MaxBlocks * B /\ blocks * B \in Nat
    BY <1>1, TimesMono
  <2> QED
    BY <1>1, <2>1
<1>3. cur \in Nat /\ position = cur * B
  BY <1>1, DivMod DEF BufInv, CurInv, CursorAgrees
<1> HIDE DEF N, B
<1>4. PICK f : FileRounds(f) /\ FileFrom(cur, position, N) = f[MaxBlocks][1]
  BY FileFunction DEF N
<1> DEFINE Taken(m) == [k \in 1 .. m |-> content[position + k - 1]]
           Done(was) == was[1] = Taken(N) /\ was[4] = 0
           Going(was, n) == /\ was[1] = Taken(n * B) /\ was[2] = cur + n /\ was[3] = position + n * B
                            /\ was[4] = N - n * B /\ n * B < N
<1>5. \A n \in Nat : n <= MaxBlocks => Done(f[n]) \/ Going(f[n], n)
  <2> DEFINE T == {n \in Nat : n <= MaxBlocks => Done(f[n]) \/ Going(f[n], n)}
  <2>1. 0 \in T
    <3>1. f[0] = <<<<>>, cur, position, N>>
      BY <1>4 DEF FileRounds, N
    <3>2. Taken(0) = <<>> /\ 0 * B = 0
      BY <1>1
    <3>3. /\ f[0][1] = Taken(0) /\ f[0][2] = cur /\ f[0][3] = position /\ f[0][4] = N
      BY <3>1, <3>2
    <3>4. Done(f[0]) \/ Going(f[0], 0)
      <4> HIDE DEF Taken
      <4> QED
        BY <1>1, <1>3, <3>2, <3>3
    <3> HIDE DEF Done, Going
    <3> QED
      BY <3>4
  <2>2. ASSUME NEW n \in Nat, n \in T PROVE n + 1 \in T
    <3> SUFFICES ASSUME n + 1 <= MaxBlocks PROVE Done(f[n + 1]) \/ Going(f[n + 1], n + 1)
      OBVIOUS
    <3>1. f[n + 1] = FileRound(f[n])
      BY <1>4 DEF FileRounds
    <3>2. CASE Done(f[n])
      <4>1. f[n + 1] = f[n]
        BY <3>1, <3>2 DEF FileRound
      <4> QED
        BY <3>2, <4>1
    <3>3. CASE Going(f[n], n)
      <4> DEFINE m == n * B
                 b == f[n][2]
                 p == f[n][3]
                 left == f[n][4]
                 size == IF left > B THEN B ELSE left
                 part == FilePart(b, p, left)
      <4>1. m \in Nat /\ b = cur + n /\ p = position + m /\ left = N - m /\ left > 0 /\ f[n][1] = Taken(m)
        <5>1. n * B \in Nat
          BY <1>1
        <5> HIDE DEF Taken
        <5> QED
          BY <1>1, <3>3, <5>1
      <4>2. p = (cur + n) * B /\ (n + 1) * B = m + B
        <5>1. (cur + n) * B = cur * B + n * B /\ (n + 1) * B = n * B + B
          BY <1>1, <1>3
        <5> QED
          BY <1>3, <4>1, <5>1
      <4>3. p % BaseSize = 0
        BY <1>1, <1>3, <4>2 DEF B
      <4>4. f[n + 1] = <<f[n][1] \o part, b + 1, p + Len(part), left - Len(part)>>
        BY <3>1, <4>1 DEF FileRound
      <4>5. size \in Nat /\ size <= left /\ size <= B
        BY <1>1, <4>1
      <4>6. part = [k \in 1 .. size |-> content[p + k - 1]]
        <5>1. b * B = p
          BY <4>1, <4>2
        <5>2. part = [k \in 1 .. size |-> content[(b * B) + 0 + k - 1]]
          BY <4>3, <4>5 DEF FilePart, B
        <5>3. \A k \in 1 .. size : (b * B) + 0 + k - 1 = p + k - 1
          <6> HIDE DEF b, p, size
          <6> QED
            BY <1>1, <4>1, <4>5, <5>1
        <5> HIDE DEF b, p, size, part
        <5> QED
          BY <5>2, <5>3
      <4> HIDE DEF m, b, p, left, part, size
      <4>7. /\ Taken(m) \in Seq(Data) /\ Len(Taken(m)) = m /\ part \in Seq(Data) /\ Len(part) = size
            /\ Taken(m + size) \in Seq(Data) /\ Len(Taken(m + size)) = m + size
        <5>1. \A i \in 1 .. m + size : content[position + i - 1] \in Data
          <6> SUFFICES ASSUME NEW i \in 1 .. m + size PROVE content[position + i - 1] \in Data
            OBVIOUS
          <6>1. position + i - 1 \in 0 .. capacity - 1
            BY <1>1, <4>1, <4>5
          <6> QED
            BY <6>1 DEF BufInv, ContentOK
        <5>2. \A i \in 1 .. size : content[p + i - 1] \in Data
          <6> SUFFICES ASSUME NEW i \in 1 .. size PROVE content[p + i - 1] \in Data
            OBVIOUS
          <6>1. m + i \in 1 .. m + size /\ position + (m + i) - 1 = p + i - 1
            BY <1>1, <4>1, <4>5
          <6> QED
            BY <5>1, <6>1
        <5>3. Taken(m) \in [1 .. m -> Data] /\ Taken(m + size) \in [1 .. m + size -> Data] /\ part \in [1 .. size -> Data]
          BY <4>1, <4>5, <4>6, <5>1, <5>2
        <5> HIDE DEF Taken
        <5>4. m \in Nat /\ size \in Nat /\ m + size \in Nat
          BY <4>1, <4>5
        <5>5. Taken(m) \in Seq(Data) /\ Len(Taken(m)) = m
          BY <5>3, <5>4
        <5>6. part \in Seq(Data) /\ Len(part) = size
          BY <5>3, <5>4
        <5>7. Taken(m + size) \in Seq(Data) /\ Len(Taken(m + size)) = m + size
          BY <5>3, <5>4
        <5> QED
          BY <5>5, <5>6, <5>7
      <4>8. Taken(m) \o part = Taken(m + size)
        <5> DEFINE u == Taken(m) \o part
                   v == Taken(m + size)
        <5>1. /\ u \in Seq(Data) /\ Len(u) = m + size
              /\ \A i \in 1 .. m + size : u[i] = IF i <= m THEN Taken(m)[i] ELSE part[i - m]
          <6> HIDE DEF Taken
          <6>1. /\ u \in Seq(Data) /\ Len(u) = Len(Taken(m)) + Len(part)
                /\ \A i \in 1 .. Len(Taken(m)) + Len(part) :
                       u[i] = IF i <= Len(Taken(m)) THEN Taken(m)[i] ELSE part[i - Len(Taken(m))]
            BY <4>7, ConcatProperties
          <6> HIDE DEF u
          <6> QED
            BY <4>7, <6>1
        <5>2. ASSUME NEW i \in 1 .. m + size PROVE u[i] = v[i]
          <6> HIDE DEF u
          <6>1. v[i] = content[position + i - 1]
            OBVIOUS
          <6>2. CASE i <= m
            <7>1. Taken(m)[i] = content[position + i - 1]
              BY <4>1, <4>5, <6>2
            <7> QED
              BY <5>1, <6>1, <6>2, <7>1
          <6>3. CASE ~(i <= m)
            <7>1. i - m \in 1 .. size /\ p + (i - m) - 1 = position + i - 1
              BY <1>1, <4>1, <4>5, <6>3
            <7>2. part[i - m] = content[position + i - 1]
              BY <4>6, <7>1
            <7> QED
              BY <5>1, <6>1, <6>3, <7>2
          <6> QED
            BY <6>2, <6>3
        <5>3. v \in Seq(Data) /\ Len(v) = m + size
          BY <4>7
        <5> HIDE DEF u, v
        <5>4. u = v
          BY <5>1, <5>2, <5>3, SeqEqual
        <5> QED
          BY <5>4 DEF u, v
      <4>9. f[n + 1][1] = Taken(m + size) /\ f[n + 1][2] = b + 1 /\ f[n + 1][3] = p + size /\ f[n + 1][4] = left - size
        <5> HIDE DEF Taken
        <5>1. PICK u : u = <<Taken(m + size), b + 1, p + size, left - size>>
          OBVIOUS
        <5>2. f[n + 1] = u
          BY <4>1, <4>4, <4>7, <4>8, <5>1
        <5>3. u[1] = Taken(m + size) /\ u[2] = b + 1 /\ u[3] = p + size /\ u[4] = left - size
          BY <5>1
        <5> QED
          BY <5>2, <5>3
      <4> HIDE DEF Taken
      <4>10. CASE left > B
        <5>1. size = B /\ m + B < N
          BY <1>1, <4>1, <4>10 DEF size
        <5>2. Going(f[n + 1], n + 1)
          BY <1>1, <1>3, <4>1, <4>2, <4>9, <5>1
        <5> QED
          BY <5>2
      <4>11. CASE ~(left > B)
        <5>1. size = left /\ m + size = N /\ left - size = 0
          BY <1>1, <4>1, <4>11 DEF size
        <5>2. Done(f[n + 1])
          BY <4>9, <5>1
        <5> QED
          BY <5>2
      <4> QED
        BY <4>10, <4>11
    <3> HIDE DEF Done, Going
    <3>4. Done(f[n]) \/ Going(f[n], n)
      <4>1. n <= MaxBlocks
        BY <1>1
      <4> QED
        BY <2>2, <4>1
    <3> QED
      BY <3>2, <3>3, <3>4
  <2> HIDE DEF T
  <2>3. Nat \subseteq T
    BY <2>1, <2>2, InductOne
  <2> QED
    BY <2>3 DEF T
<1>6. f[MaxBlocks][1] = Taken(N)
  <2> HIDE DEF Taken
  <2>1. ~Going(f[MaxBlocks], MaxBlocks)
    BY <1>1, <1>2
  <2> QED
    BY <1>1, <1>5, <2>1
<1>7. Taken(N) = BytesFrom(cur, N)
  <2>1. \A k \in 1 .. N : Place(cur, k - 1) = position + k - 1
    BY <1>1, PlaceIs DEF BufInv
  <2> QED
    BY <2>1 DEF BytesFrom
<1> QED
  BY <1>4, <1>6, <1>7 DEF N

\* A round takes bytes of the blocks only: it is in the block of its position
\* with no more left than there is, or it never takes anything again.
InBlocks(b, p, left) ==
    /\ b \in Nat /\ p \in Nat /\ left \in Nat
    /\ \/ left = 0
       \/ left < BaseSize /\ left <= p % BaseSize
       \/ b = p \div BaseSize /\ p + left <= capacity

LEMMA PartTypes ==
    ASSUME BufInv, NEW b, NEW p, NEW left, InBlocks(b, p, left), left # 0
    PROVE  LET part == FilePart(b, p, left) IN
           part \in Seq(Data) /\ Len(part) \in Nat /\ InBlocks(b + 1, p + Len(part), left - Len(part))
<1> DEFINE B == BaseSize
           d == p % B
           size == IF left > B THEN B ELSE left
           part == FilePart(b, p, left)
<1>1. /\ B \in Nat \ {0} /\ b \in Nat /\ p \in Nat /\ left \in Nat \ {0} /\ capacity \in Nat
      /\ d \in 0 .. B - 1
  BY TextIs, ByteArrayAssumption, DivMod DEF BufInv, InBlocks
<1>2. part = [k \in 1 .. size - d |-> content[(b * B) + d + k - 1]]
  BY DEF FilePart
<1>3. \/ left < B /\ left <= d
      \/ b = p \div B /\ p + left <= capacity
  BY <1>1 DEF InBlocks
<1>4. size \in Nat \ {0} /\ size <= left /\ size <= B /\ (left <= B => size = left) /\ (left > B => size = B)
  BY <1>1
<1> HIDE DEF B, d, size, part
<1>5. CASE size <= d
  <2>1. part = <<>>
    <3>1. 1 .. size - d = {}
      BY <1>1, <1>4, <1>5
    <3>2. part = [k \in {} |-> content[(b * B) + d + k - 1]]
      BY <1>2, <3>1
    <3> QED
      BY <3>2
  <2>2. part \in Seq(Data) /\ Len(part) = 0
    BY <2>1
  <2>3. left < B /\ left <= d
    BY <1>1, <1>4, <1>5
  <2>4. b + 1 \in Nat /\ p + Len(part) = p /\ left - Len(part) = left
    BY <1>1, <2>2
  <2>5. InBlocks(b + 1, p, left)
    BY <1>1, <2>3, <2>4 DEF InBlocks, B, d
  <2> QED
    BY <2>2, <2>4, <2>5 DEF part
<1>6. CASE size > d
  <2> DEFINE n == size - d
  <2>1. b = p \div B /\ p + left <= capacity /\ n \in Nat \ {0}
    BY <1>1, <1>3, <1>4, <1>6
  <2>2. b * B \in Nat /\ p = b * B + d
    BY <1>1, <2>1, DivMod DEF d
  <2> HIDE DEF n
  <2>3. n + d = size
    BY <1>1, <1>4 DEF n
  <2>4. \A k \in 1 .. n : content[(b * B) + d + k - 1] \in Data
    <3> SUFFICES ASSUME NEW k \in 1 .. n PROVE content[(b * B) + d + k - 1] \in Data
      OBVIOUS
    <3>1. (b * B) + d + k - 1 = p + k - 1
      BY <2>1, <2>2
    <3>2. k <= left
      BY <1>1, <1>4, <2>1, <2>3
    <3>3. p + k - 1 \in 0 .. capacity - 1
      BY <1>1, <2>1, <3>2
    <3> QED
      BY <3>1, <3>3 DEF BufInv, ContentOK
  <2>5. part \in [1 .. n -> Data]
    BY <1>2, <2>4 DEF n
  <2>6. part \in Seq(Data) /\ Len(part) = n
    BY <2>1, <2>5
  <2> DEFINE q == p + n
             rest == left - n
  <2>7. /\ q \in Nat /\ q = b * B + size /\ rest \in Nat /\ q + rest = p + left
        /\ rest = left - size + d
    BY <1>1, <1>4, <2>1, <2>2, <2>3
  <2> HIDE DEF q, rest
  <2>8. CASE size = B
    <3>1. q = (b + 1) * B /\ b + 1 \in Nat
      BY <1>1, <2>2, <2>7, <2>8
    <3>2. q \div B = b + 1
      BY <1>1, <3>1, DivWhole
    <3>3. q + rest <= capacity
      BY <2>1, <2>7
    <3> QED
      BY <2>6, <2>7, <3>1, <3>2, <3>3 DEF InBlocks, B, part, q, rest
  <2>9. CASE size # B
    <3>1. size = left /\ left < B
      BY <1>1, <1>4, <2>9
    <3>2. rest = d /\ rest < left
      BY <1>1, <1>6, <2>7, <3>1
    <3>3. q \div B = b
      <4>1. b * B <= q /\ q < (b + 1) * B
        BY <1>1, <2>2, <2>7, <3>1
      <4> QED
        BY <1>1, <2>7, <4>1, DivUnique
    <3>4. q = b * B + (q % B) /\ q % B \in 0 .. B - 1
      BY <1>1, <2>7, <3>3, DivMod
    <3>5. q % B = left
      BY <1>1, <2>2, <2>7, <3>1, <3>4
    <3>6. rest < B /\ rest <= q % B /\ b + 1 \in Nat
      BY <1>1, <2>7, <3>1, <3>2, <3>5
    <3> QED
      BY <2>6, <2>7, <3>6 DEF InBlocks, B, part, q, rest
  <2> QED
    BY <2>8, <2>9
<1> QED
  BY <1>1, <1>4, <1>5, <1>6

\* What is put into the file are bytes of the blocks, wherever the position is in
\* its block.
LEMMA FileTypes ==
    ASSUME BufInv
    PROVE  FileFrom(cur, position, ReadSize) \in Seq(Data)
<1> DEFINE Good(was) == \E out \in Seq(Data) : \E b, p, left :
                            was = <<out, b, p, left>> /\ InBlocks(b, p, left)
<1>1. PICK f : FileRounds(f) /\ FileFrom(cur, position, ReadSize) = f[MaxBlocks][1]
  BY FileFunction
<1>2. Good(f[0])
  <2>1. f[0] = <<<<>>, cur, position, ReadSize>> /\ <<>> \in Seq(Data)
    BY <1>1 DEF FileRounds
  <2>2. InBlocks(cur, position, ReadSize)
    <3>1. /\ position \in Nat /\ ReadSize \in Nat /\ BaseSize \in Nat \ {0}
          /\ cur = position \div BaseSize /\ cur \in Nat
      BY PlaceIs, TextIs, DivMod DEF BufInv, CurInv, CursorAgrees
    <3>2. position + ReadSize <= capacity
      BY TextIs DEF BufInv
    <3> QED
      BY <3>1, <3>2 DEF InBlocks
  <2> QED
    BY <2>1, <2>2
<1>3. ASSUME NEW n \in Nat, n + 1 <= MaxBlocks, Good(f[n]) PROVE Good(f[n + 1])
  <2>1. PICK out, b, p, left : out \in Seq(Data) /\ f[n] = <<out, b, p, left>> /\ InBlocks(b, p, left)
    BY <1>3
  <2>2. f[n + 1] = FileRound(f[n])
    BY <1>1, <1>3 DEF FileRounds
  <2>3. CASE left = 0
    <3>1. f[n + 1] = f[n]
      BY <2>1, <2>2, <2>3 DEF FileRound
    <3> QED
      BY <1>3, <3>1
  <2>4. CASE left # 0
    <3>1. PICK part : part = FilePart(b, p, left)
      OBVIOUS
    <3>2. part \in Seq(Data) /\ InBlocks(b + 1, p + Len(part), left - Len(part))
      BY <2>1, <2>4, <3>1, PartTypes
    <3>3. f[n + 1] = <<out \o part, b + 1, p + Len(part), left - Len(part)>>
      BY <2>1, <2>2, <2>4, <3>1 DEF FileRound
    <3>4. PICK u \in Seq(Data) : u = out \o part
      BY <2>1, <3>2, ConcatProperties
    <3> QED
      BY <3>2, <3>3, <3>4
  <2> QED
    BY <2>3, <2>4
<1> HIDE DEF Good
<1> DEFINE T == {n \in Nat : n <= MaxBlocks => Good(f[n])}
<1>4. 0 \in T
  BY <1>2
<1>5. ASSUME NEW n \in Nat, n \in T PROVE n + 1 \in T
  <2>1. n + 1 <= MaxBlocks => n <= MaxBlocks
    BY ByteArrayAssumption
  <2> QED
    BY <1>3, <1>5, <2>1
<1> HIDE DEF T
<1>6. Nat \subseteq T
  BY <1>4, <1>5, InductOne
<1>7. Good(f[MaxBlocks])
  BY <1>6, ByteArrayAssumption DEF T
<1>8. f[MaxBlocks][1] \in Seq(Data)
  BY <1>7 DEF Good
<1> QED
  BY <1>1, <1>8

-----------------------------------------------------------------------------
(* The invariant                                                           *)

\* Whatever is written has bytes, numbers included.
LEMMA BytesWritten ==
    /\ \A s \in Strings \cup {<<>>} : s \in Seq(Byte) /\ Len(s) \in Nat
    /\ \A v \in Numbers : Varint[v] \in Seq(Byte) /\ Len(Varint[v]) \in Nat
<1>1. Strings \subseteq Seq(Byte) /\ Numbers \subseteq Nat
  BY ByteArrayAssumption DEF Byte
<1>2. <<>> \in Seq(Byte) /\ Len(<<>>) = 0
  OBVIOUS
<1>3. \A s \in Strings : s \in Seq(Byte) /\ Len(s) \in Nat
  BY <1>1
<1>4. \A v \in Numbers : Varint[v] \in Seq(Byte) /\ Len(Varint[v]) \in Nat
  BY <1>1, VarintBytesAre
<1> QED
  BY <1>2, <1>3, <1>4

\* clear() keeps the first block.
LEMMA ClearStep ==
    ASSUME BufInv, BufClear
    PROVE  ContentOK'
<1>1. blocks' = 1 /\ content' = [i \in 0 .. BaseSize - 1 |-> content[i]]
  BY DEF BufClear
<1>2. BaseSize \in Nat \ {0} /\ capacity = blocks * BaseSize /\ blocks \in Nat \ {0} /\ capacity' = BaseSize
  BY <1>1, ByteArrayAssumption DEF capacity, BufInv, CurInv
<1>3. BaseSize <= capacity
  BY <1>2
<1>4. \A i \in 0 .. BaseSize - 1 : content[i] \in Data
  <2>1. PICK c : c = capacity
    OBVIOUS
  <2>2. content \in [0 .. c - 1 -> Data] /\ c \in Nat /\ BaseSize <= c
    BY <1>3, <2>1, TextIs DEF BufInv, ContentOK
  <2> QED
    BY <1>2, <2>2
<1> QED
  BY <1>1, <1>2, <1>4 DEF ContentOK

\* The bytes stay where the blocks are, in every operation.
LEMMA BufInvStep == BufInv /\ [BufNext]_bufVars => BufInv'
<1> SUFFICES ASSUME BufInv, [BufNext]_bufVars PROVE BufInv'
  OBVIOUS
<1>1. CurInv'
  BY CurNext DEF BufInv
<1>2. ASSUME NEW bytes \in Seq(Byte), BufWrite(bytes) PROVE ContentOK'
  <2>1. Len(bytes) \in Nat /\ Len(bytes) <= Len(bytes)
    OBVIOUS
  <2> QED
    BY <1>2, <2>1, PutIs DEF BufWrite, BufInv
<1>3. ASSUME NEW bytes \in Strings \cup {<<>>}, NEW n \in ReadSizes, BufReceive(bytes, n) PROVE ContentOK'
  BY <1>3, BytesWritten, PutIs, ByteArrayAssumption DEF BufReceive, BufInv
<1>4. ASSUME UNCHANGED <<blocks, content>> PROVE ContentOK'
  BY <1>4 DEF BufInv, ContentOK, capacity
<1>5. ASSUME NEW n, BufRead(n) \/ BufSend(n) \/ BufSetPosition(n) PROVE UNCHANGED <<blocks, content>>
  BY <1>5 DEF BufRead, BufSend, BufSetPosition
<1>6. ASSUME BufReadNumber \/ BufToString \/ BufWriteToFile \/ UNCHANGED bufVars
      PROVE  UNCHANGED <<blocks, content>>
  BY <1>6 DEF BufReadNumber, BufToString, BufWriteToFile, bufVars
<1>7. ASSUME NEW v \in Numbers, BufWriteNumber(v) PROVE ContentOK'
  BY <1>2, <1>7, BytesWritten DEF BufWriteNumber
<1>8. ASSUME NEW s \in Strings, BufWrite(s) PROVE ContentOK'
  BY <1>2, <1>8, BytesWritten
<1>9. ContentOK'
  BY <1>3, <1>4, <1>5, <1>6, <1>7, <1>8, ClearStep DEF BufNext
<1> QED
  BY <1>1, <1>9 DEF BufInv

\* At first there is one block that nobody has written to.
LEMMA BufInvStarts == BufInit => BufInv
<1> SUFFICES ASSUME BufInit PROVE BufInv
  OBVIOUS
<1>1. capacity = BaseSize /\ BaseSize \in Nat
  BY ByteArrayAssumption DEF BufInit, capacity
<1>2. ContentOK
  BY <1>1 DEF BufInit, ContentOK, Data
<1> QED
  BY <1>2, CurInit DEF BufInv

\* Every byte there is room for has a place, which only clear() takes away.
LEMMA BufInvHolds == BufSpec => []BufInv
  BY BufInvStarts, BufInvStep, PTL DEF BufSpec

-----------------------------------------------------------------------------
(* Types                                                                   *)

\* What is noted of the operations.
LastTypes ==
    /\ bufLast \in [name : {"write", "read", "seek", "show", "clear", "throw", "crash", "number", "torn"},
                    bytes : Seq(Data)]
    /\ wrote \in [at : Nat, number : Numbers \cup {-1}] /\ bufOps \in 0 .. MaxBufOps

\* An operation that has bytes of the blocks, or none.
LEMMA OperationTypes ==
    ASSUME LastTypes, NEW name \in {"write", "read", "seek", "show", "clear", "throw", "crash", "number", "torn"},
           NEW bytes \in Seq(Data), Operation(name, bytes), wrote' \in [at : Nat, number : Numbers \cup {-1}]
    PROVE  LastTypes'
<1>1. bufOps' \in 0 .. MaxBufOps
  BY ByteArrayAssumption DEF LastTypes, Operation
<1> QED
  BY <1>1 DEF LastTypes, Operation

\* The types of a ByteArray, whatever it is used for.
THEOREM BufTypeCorrect == BufSpec => []BufTypeOK
<1> DEFINE Wrote == [at : Nat, number : Numbers \cup {-1}]
<1>0. Nothing \in Wrote /\ <<>> \in Seq(Data) /\ Seq(Byte) \subseteq Seq(Data)
  <2>1. Byte \subseteq Data
    BY DEF Data
  <2> QED
    BY <2>1 DEF Nothing
<1>1. BufInit => LastTypes
  <2> SUFFICES ASSUME BufInit PROVE LastTypes
    OBVIOUS
  <2>1. bufLast = [name |-> "clear", bytes |-> <<>>] /\ wrote \in Wrote /\ bufOps = 0
    BY <1>0 DEF BufInit
  <2> QED
    BY <1>0, <2>1, ByteArrayAssumption DEF LastTypes
<1>2. BufInv /\ LastTypes /\ [BufNext]_bufVars => LastTypes'
  <2> SUFFICES ASSUME BufInv, LastTypes, [BufNext]_bufVars PROVE LastTypes'
    OBVIOUS
  <2>0. /\ wrote \in Wrote /\ position \in Nat /\ ReadSize \in Nat
        /\ \A n \in 0 .. ReadSize : BytesFrom(cur, n) \in Seq(Data)
    BY BytesAre, TextIs, PlaceIs DEF LastTypes, BufInv
  <2>1. ASSUME NEW bytes \in Seq(Byte), BufWrite(bytes), wrote' \in Wrote PROVE LastTypes'
    BY <1>0, <2>1, OperationTypes DEF BufWrite
  <2>2. ASSUME NEW v \in Numbers, BufWriteNumber(v) PROVE LastTypes'
    <3>1. BufWrite(Varint[v]) /\ wrote' = [at |-> position, number |-> v] /\ Varint[v] \in Seq(Byte)
      BY <2>2, BytesWritten DEF BufWriteNumber
    <3> QED
      BY <2>0, <2>1, <3>1
  <2>3. ASSUME NEW s \in Strings, BufWrite(s), wrote' = Nothing PROVE LastTypes'
    BY <1>0, <2>1, <2>3, BytesWritten
  <2>4. ASSUME NEW s \in Strings \cup {<<>>}, NEW n \in ReadSizes, BufReceive(s, n), wrote' = Nothing PROVE LastTypes'
    <3>1. s \in Seq(Data) /\ Operation("write", s)
      BY <1>0, <2>4, BytesWritten DEF BufReceive
    <3> QED
      BY <1>0, <2>4, <3>1, OperationTypes
  <2>5. ASSUME NEW n \in ReadSizes, BufSend(n) PROVE LastTypes'
    <3>1. n \in 0 .. ReadSize /\ Operation("read", BytesFrom(cur, n)) /\ wrote' = wrote
      BY <2>0, <2>5 DEF BufSend
    <3> QED
      BY <2>0, <3>1, OperationTypes
  <2>6. CASE BufReadNumber
    <3>1. PICK n \in 0 .. ReadSize, name \in {"number", "torn"} : Operation(name, BytesFrom(cur, n)) /\ wrote' = wrote
      BY <2>6 DEF BufReadNumber
    <3> QED
      BY <2>0, <3>1, OperationTypes
  <2>7. ASSUME NEW n \in ReadSizes, BufRead(n) PROVE LastTypes'
    <3>1. CASE Operation("throw", <<>>) \/ Operation("crash", <<>>)
      <4>1. wrote' = wrote
        BY <2>7 DEF BufRead
      <4> QED
        BY <1>0, <2>0, <3>1, <4>1, OperationTypes
    <3>2. CASE n \in 0 .. ReadSize /\ Operation("read", BytesFrom(cur, n))
      <4>1. wrote' = wrote
        BY <2>7 DEF BufRead
      <4> QED
        BY <2>0, <3>2, <4>1, OperationTypes
    <3>3. n \in Nat
      BY ByteArrayAssumption
    <3> QED
      BY <2>0, <2>7, <3>1, <3>2, <3>3 DEF BufRead
  <2>8. ASSUME NEW v, BufSetPosition(v) PROVE LastTypes'
    <3>1. wrote' = wrote /\ (Operation("throw", <<>>) \/ Operation("seek", <<>>))
      BY <2>8 DEF BufSetPosition
    <3> QED
      BY <1>0, <2>0, <3>1, OperationTypes
  <2>9. CASE BufClear
    BY <1>0, <2>9, OperationTypes DEF BufClear
  <2>10. CASE BufToString
    <3>1. ReadSize \in 0 .. ReadSize /\ Operation("show", BytesFrom(cur, ReadSize)) /\ wrote' = wrote
      BY <2>0, <2>10 DEF BufToString
    <3> QED
      BY <2>0, <3>1, OperationTypes
  <2>11. CASE BufWriteToFile
    <3>1. Operation("show", FileFrom(cur, position, ReadSize)) /\ wrote' = wrote
      BY <2>11 DEF BufWriteToFile
    <3> QED
      BY <2>0, <3>1, FileTypes, OperationTypes
  <2>12. CASE UNCHANGED bufVars
    BY <2>12 DEF bufVars, LastTypes
  <2> QED
    BY <2>2, <2>3, <2>4, <2>5, <2>6, <2>7, <2>8, <2>9, <2>10, <2>11, <2>12 DEF BufNext
<1>3. BufInv /\ LastTypes => BufTypeOK
  <2> SUFFICES ASSUME BufInv, LastTypes PROVE BufTypeOK
    OBVIOUS
  <2>1. cur \in 0 .. Null
    <3>1. /\ BaseSize \in Nat \ {0} /\ blocks \in Nat /\ position \in Nat /\ position <= blocks * BaseSize
          /\ cur = position \div BaseSize
      BY TextIs, ByteArrayAssumption DEF BufInv, CurInv, CursorAgrees, capacity
    <3>2. cur \in Nat /\ cur * BaseSize <= blocks * BaseSize
      BY <3>1, DivMod
    <3>3. cur <= blocks
      BY <3>1, <3>2
    <3> QED
      BY <3>1, <3>2, <3>3 DEF Null
  <2> QED
    BY <2>1 DEF BufInv, CurInv, Within, ContentOK, LastTypes, BufTypeOK, Data
<1> QED
  BY <1>1, <1>2, <1>3, BufInvHolds, PTL DEF BufSpec

-----------------------------------------------------------------------------
(* Refinement: one lemma for each operation                                *)

\* A step of the run of bytes.
FlatStep == Flat!FlatNext \/ UNCHANGED Flat!flatVars

\* The first state.
LEMMA FlatStarts == BufInit => Flat!FlatInit
<1> SUFFICES ASSUME BufInit PROVE Flat!FlatInit
  OBVIOUS
<1>1. [k \in 1 .. bufSize |-> content[k - 1]] = <<>>
  BY DEF BufInit
<1> QED
  BY <1>1 DEF BufInit, Flat!FlatInit, Flat!Op

\* Writing: bytes replace what follows the position.
LEMMA FlatWrites ==
    ASSUME BufInv, NEW bytes \in Seq(Byte), NEW size \in Nat, Len(bytes) <= size,
           Grow(size), content' = Put(bytes, size, CurAfterAdd(size)),
           position' = position + Len(bytes), bufSize' = Extended(position'), CurInv',
           Operation("write", bytes)
    PROVE  FlatStep
<1>1. bufLast' = [name |-> "write", bytes |-> bytes] /\ bufLast'.bytes = bytes
  BY DEF Operation
<1>2. Text' = SubSeq(Text, 1, position) \o bytes \o SubSeq(Text, position + Len(bytes) + 1, Len(Text))
  BY WriteIs
<1>3. Flat!FlatWrite(bufLast'.bytes)
  BY <1>1, <1>2 DEF Flat!FlatWrite, Flat!Op, Text
<1> QED
  BY <1>3 DEF FlatStep, Flat!FlatNext

\* Reading: n bytes from the position on, which moves behind them.
LEMMA FlatReads ==
    ASSUME BufInv, NEW n \in 0 .. ReadSize, NEW name \in {"read", "number", "torn"},
           Operation(name, BytesFrom(cur, n)), position' = position + n,
           UNCHANGED <<blocks, content, bufSize>>
    PROVE  FlatStep
<1> DEFINE b == BytesFrom(cur, n)
<1>1. bufLast' = [name |-> name, bytes |-> b] /\ bufLast'.bytes = b
  BY DEF Operation
<1>2. /\ Len(b) = n /\ SubSeq(SubSeq(Text, position + 1, Len(Text)), 1, n) = b /\ SubSeq(b, 1, n) = b
      /\ Len(SubSeq(Text, position + 1, Len(Text))) = ReadSize /\ n <= ReadSize
  <2>1. n <= ReadSize
    BY TextIs DEF BufInv
  <2> QED
    BY <2>1, RestIs
<1>3. Text' = Text
  BY DEF Text
<1> HIDE DEF b
<1>4. Flat!FlatRead(bufLast'.bytes)
  BY <1>1, <1>2, <1>3 DEF Flat!FlatRead, Flat!Op, Flat!Rest, Flat!IsPrefix, Text
<1> QED
  BY <1>4 DEF FlatStep, Flat!FlatNext

\* Throwing changes nothing.
LEMMA FlatThrows ==
    ASSUME BufInv, Operation("throw", <<>>), UNCHANGED <<blocks, content, position, bufSize>>
    PROVE  FlatStep
<1>1. Text' = Text
  BY DEF Text
<1>2. Flat!FlatThrow
  BY <1>1 DEF Flat!FlatThrow, Flat!Op, Operation, Text
<1> QED
  BY <1>2 DEF FlatStep, Flat!FlatNext

\* Showing the rest leaves it there.
LEMMA FlatShows ==
    ASSUME BufInv, Operation("show", BytesFrom(cur, ReadSize)), UNCHANGED <<blocks, content, position, bufSize>>
    PROVE  FlatStep
<1>1. Text' = Text
  BY DEF Text
<1>2. ReadSize \in 0 .. ReadSize /\ Len(Text) = bufSize /\ position + ReadSize = bufSize
  BY TextIs DEF BufInv
<1>3. BytesFrom(cur, ReadSize) = SubSeq(Text, position + 1, Len(Text))
  BY <1>2, RestIs
<1>4. Flat!FlatShow
  BY <1>1, <1>3 DEF Flat!FlatShow, Flat!Op, Flat!Rest, Operation, Text
<1> QED
  BY <1>4 DEF FlatStep, Flat!FlatNext

\* setPosition(): beyond the end the bytes become more.
LEMMA FlatSeeks ==
    ASSUME BufInv, BufInv', NEW v \in Nat, BufSetPosition(v)
    PROVE  FlatStep
<1>1. CASE v > capacity
  BY <1>1, FlatThrows DEF BufSetPosition
<1>2. CASE ~(v > capacity)
  <2>1. /\ position' = v /\ bufSize' = Extended(v) /\ UNCHANGED <<blocks, content>>
        /\ bufLast' = [name |-> "seek", bytes |-> <<>>]
    BY <1>2 DEF BufSetPosition, Operation
  <2>2. CurInv' /\ ContentOK'
    BY DEF BufInv
  <2>3. /\ Text \in Seq(Data) /\ Len(Text) = bufSize /\ \A k \in 1 .. bufSize : Text[k] = content[k - 1]
        /\ bufSize \in Nat
    BY TextIs DEF BufInv
  <2>4. /\ Text' \in Seq(Data) /\ Len(Text') = bufSize' /\ \A k \in 1 .. bufSize' : Text'[k] = content'[k - 1]
        /\ bufSize' \in Nat
    <3>1. (CurInv /\ ContentOK => /\ Text \in Seq(Data) /\ Len(Text) = bufSize
                                  /\ \A k \in 1 .. bufSize : Text[k] = content[k - 1]
                                  /\ bufSize \in Nat)'
      BY TextIs, PTL
    <3> QED
      BY <2>2, <3>1
  <2>5. bufSize <= bufSize' /\ v \in 0 .. bufSize' /\ (bufSize' = bufSize \/ bufSize' = v)
    BY <2>1, <2>3 DEF Extended
  <2> DEFINE a == SubSeq(Text, 1, bufSize)
             b == SubSeq(Text', 1, bufSize)
  <2>6. a = Text
    BY <2>3, SubSeqFull
  <2>7. b \in Seq(Data) /\ Len(b) = bufSize /\ \A i \in 1 .. bufSize : b[i] = Text'[i]
    <3>1. \A i \in 1 .. bufSize : Text'[i] \in Data
      BY <2>3, <2>4, <2>5
    <3>2. PICK t : t = Text'
      OBVIOUS
    <3> QED
      BY <2>3, <3>1, <3>2, SubSeqProperties
  <2>8. b = Text
    <3> HIDE DEF b
    <3>1. \A i \in 1 .. bufSize : b[i] = Text[i]
      <4> SUFFICES ASSUME NEW i \in 1 .. bufSize PROVE b[i] = Text[i]
        OBVIOUS
      <4>1. i \in 1 .. bufSize' /\ content' = content
        BY <2>1, <2>3, <2>4, <2>5
      <4>2. Text'[i] = content[i - 1]
        BY <2>4, <4>1
      <4> QED
        BY <2>3, <2>7, <4>2
    <3> QED
      BY <2>3, <2>7, <3>1, SeqEqual
  <2>9. Flat!FlatSeek
    <3>1. SubSeq(Text, 1, Len(Text)) = SubSeq(Text', 1, Len(Text)) /\ Len(Text) <= Len(Text')
      BY <2>3, <2>4, <2>5, <2>6, <2>8
    <3>2. position' \in 0 .. Len(Text') /\ (Len(Text') = Len(Text) \/ Len(Text') = position')
      BY <2>1, <2>3, <2>4, <2>5
    <3> QED
      BY <2>1, <3>1, <3>2 DEF Flat!FlatSeek, Flat!IsPrefix, Flat!Op, Text
  <2> QED
    BY <2>9 DEF FlatStep, Flat!FlatNext
<1> QED
  BY <1>1, <1>2

\* clear() leaves nothing.
LEMMA FlatClears ==
    ASSUME BufClear
    PROVE  FlatStep
<1>1. position' = 0 /\ bufSize' = 0 /\ bufLast' = [name |-> "clear", bytes |-> <<>>]
  BY DEF BufClear, Operation
<1>2. Text' = <<>>
  BY <1>1 DEF Text
<1>3. Flat!FlatClear
  BY <1>1, <1>2 DEF Flat!FlatClear, Flat!Op, Text
<1> QED
  BY <1>3 DEF FlatStep, Flat!FlatNext

-----------------------------------------------------------------------------
(* The refinement                                                          *)

\* Every operation is one of the run of bytes.
LEMMA FlatSteps ==
    ASSUME Aligned, NeverNull', BufInv, [BufNext]_bufVars
    PROVE  [Flat!FlatNext]_(Flat!flatVars)
<1>1. BufInv' /\ CurInv'
  BY BufInvStep DEF BufInv
<1>2. ASSUME NEW bytes \in Seq(Byte), BufWrite(bytes) PROVE FlatStep
  <2>1. Len(bytes) \in Nat /\ Len(bytes) <= Len(bytes)
    OBVIOUS
  <2> QED
    BY <1>1, <1>2, <2>1, FlatWrites DEF BufWrite
<1>3. ASSUME NEW v \in Numbers, BufWriteNumber(v) PROVE FlatStep
  BY <1>2, <1>3, BytesWritten DEF BufWriteNumber
<1>4. ASSUME NEW bytes \in Strings \cup {<<>>}, NEW n \in ReadSizes, BufReceive(bytes, n)
      PROVE  FlatStep
  BY <1>1, <1>4, BytesWritten, FlatWrites, ByteArrayAssumption DEF BufReceive
<1>5. ASSUME NEW n \in ReadSizes, BufSend(n) PROVE FlatStep
  <2>1. n \in 0 .. ReadSize
    BY <1>5, TextIs DEF BufSend, BufInv
  <2> QED
    BY <1>5, <2>1, FlatReads DEF BufSend
<1>6. ASSUME BufReadNumber PROVE FlatStep
  <2>1. PICK n \in 0 .. ReadSize, name \in {"number", "torn"} :
            /\ Operation(name, BytesFrom(cur, n)) /\ position' = position + n
            /\ UNCHANGED <<blocks, content, bufSize>>
    BY <1>6 DEF BufReadNumber
  <2> QED
    BY <2>1, FlatReads
<1>7. ASSUME NEW n \in ReadSizes, BufRead(n) PROVE FlatStep
  <2>1. CASE n > ReadSize
    BY <1>7, <2>1, FlatThrows DEF BufRead
  <2>2. CASE ~(n > ReadSize)
    <3>1. n \in 0 .. ReadSize
      BY <2>2, TextIs, ByteArrayAssumption DEF BufInv
    <3>2. cur # Null
      BY <1>7, <2>2 DEF BufRead, Operation, NeverNull
    <3> QED
      BY <1>7, <2>2, <3>1, <3>2, FlatReads DEF BufRead
  <2> QED
    BY <2>1, <2>2
<1>8. ASSUME NEW v \in 0 .. capacity + 1, BufSetPosition(v) PROVE FlatStep
  BY <1>1, <1>8, FlatSeeks, PlaceIs DEF BufInv
<1>9. ASSUME BufToString PROVE FlatStep
  BY <1>9, FlatShows DEF BufToString
<1>10. ASSUME BufWriteToFile PROVE FlatStep
  BY <1>10, FileIs, FlatShows DEF BufWriteToFile
<1>11. ASSUME UNCHANGED bufVars PROVE FlatStep
  <2>1. UNCHANGED <<blocks, content, position, bufSize, bufLast>>
    BY <1>11 DEF bufVars
  <2> QED
    BY <2>1 DEF FlatStep, Flat!flatVars
<1>12. FlatStep
  <2>1. ASSUME NEW bytes \in Strings, BufWrite(bytes) PROVE FlatStep
    BY <1>2, <2>1, BytesWritten
  <2> QED
    BY <2>1, <1>3, <1>4, <1>5, <1>6, <1>7, <1>8, <1>9, <1>10, <1>11, FlatClears DEF BufNext
<1> QED
  BY <1>12 DEF FlatStep

\* A ByteArray behaves as one run of bytes with a position.
THEOREM OneRun == Aligned /\ (0 \notin ReadSizes) /\ BufSpec => BehavesFlat
<1> SUFFICES ASSUME Aligned, 0 \notin ReadSizes PROVE BufSpec => BehavesFlat
  OBVIOUS
<1>1. BufSpec => []NeverNull
  BY NoNullBlock
<1>2. Aligned /\ NeverNull' /\ BufInv /\ [BufNext]_bufVars => [Flat!FlatNext]_(Flat!flatVars)
  BY FlatSteps
<1> QED
  BY <1>1, <1>2, FlatStarts, BufInvHolds, PTL DEF BufSpec, BehavesFlat, Flat!FlatSpec

-----------------------------------------------------------------------------
(* A number reads back                                                     *)

\* The bytes of the last number are where they were written.
WroteOK ==
    wrote # Nothing =>
        LET bytes == Varint[wrote.number] IN
        /\ wrote.at \in Nat /\ wrote.number \in Numbers /\ wrote.at + Len(bytes) <= bufSize
        /\ \A k \in 1 .. Len(bytes) : content[wrote.at + k - 1] = bytes[k]

\* An operation that writes nothing leaves them there.
LEMMA WroteKept ==
    ASSUME BufInv, BufInv', WroteOK, UNCHANGED wrote, content' = content, bufSize <= bufSize'
    PROVE  WroteOK'
<1> SUFFICES ASSUME wrote # Nothing PROVE WroteOK'
  BY DEF WroteOK, Nothing
<1> DEFINE L == Len(Varint[wrote.number])
<1>1. /\ wrote.at \in Nat /\ wrote.number \in Numbers /\ wrote.at + L <= bufSize
      /\ \A k \in 1 .. L : content[wrote.at + k - 1] = Varint[wrote.number][k]
  BY DEF WroteOK
<1>2. wrote.at + L <= bufSize'
  <2>1. bufSize \in Nat /\ bufSize' \in Nat /\ L \in Nat
    <3>1. bufSize \in Nat
      BY TextIs DEF BufInv
    <3>2. bufSize' \in Nat
      <4>1. (CurInv /\ ContentOK => bufSize \in Nat)'
        BY TextIs, PTL
      <4> QED
        BY <4>1 DEF BufInv
    <3> QED
      BY <1>1, <3>1, <3>2, BytesWritten
  <2> HIDE DEF L
  <2> QED
    BY <1>1, <2>1
<1> QED
  BY <1>1, <1>2 DEF WroteOK

\* writeUint32() puts them there.
LEMMA WroteWritten ==
    ASSUME BufInv, NEW v \in Numbers, BufWriteNumber(v)
    PROVE  WroteOK'
<1> DEFINE s == Varint[v]
           L == Len(s)
<1>1. s \in Seq(Byte) /\ L \in Nat
  BY BytesWritten
<1>2. /\ Grow(L) /\ content' = Put(s, L, CurAfterAdd(L)) /\ bufSize' = Extended(position + L)
      /\ wrote' = [at |-> position, number |-> v]
  BY DEF BufWriteNumber, BufWrite
<1>3. position \in Nat /\ bufSize \in Nat /\ capacity \in Nat
  BY TextIs DEF BufInv
<1> HIDE DEF s
<1>4. /\ capacity' \in Nat /\ position + L <= capacity'
      /\ \A i \in 0 .. capacity' - 1 :
             content'[i] = IF position <= i /\ i < position + L THEN s[i - position + 1]
                           ELSE IF i < capacity THEN content[i] ELSE Junk
  BY <1>1, <1>2, PutIs DEF BufInv
<1> HIDE DEF L
<1>5. \A k \in 1 .. L : content'[position + k - 1] = s[k]
  <2> SUFFICES ASSUME NEW k \in 1 .. L PROVE content'[position + k - 1] = s[k]
    OBVIOUS
  <2> DEFINE i == position + k - 1
  <2>1. PICK c : c = capacity'
    OBVIOUS
  <2>2. c \in Nat /\ position + L <= c
    BY <1>4, <2>1
  <2>3. i \in 0 .. c - 1 /\ position <= i /\ i < position + L /\ i - position + 1 = k
    BY <1>1, <1>3, <2>2
  <2> HIDE DEF i
  <2>4. content'[i] = s[k]
    BY <1>4, <2>1, <2>3
  <2> QED
    BY <2>4 DEF i
<1>6. position + L <= bufSize'
  BY <1>1, <1>2, <1>3 DEF Extended
<1>7. wrote'.at = position /\ wrote'.number = v
  BY <1>2
<1> QED
  BY <1>3, <1>5, <1>6, <1>7 DEF WroteOK, s, L

\* The position and the size only grow while it is kept.
LEMMA WroteStep ==
    ASSUME BufInv, BufInv', WroteOK, [BufNext]_bufVars
    PROVE  WroteOK'
<1>1. position \in Nat /\ bufSize \in Nat
  BY TextIs DEF BufInv
<1>2. ASSUME wrote' = Nothing PROVE WroteOK'
  BY <1>2 DEF WroteOK
<1>3. ASSUME NEW v \in Numbers, BufWriteNumber(v) PROVE WroteOK'
  BY <1>3, WroteWritten
<1>4. ASSUME UNCHANGED <<content, bufSize, wrote>> PROVE WroteOK'
  BY <1>1, <1>4, WroteKept
<1>5. ASSUME NEW v \in 0 .. capacity + 1, BufSetPosition(v) PROVE WroteOK'
  <2>1. UNCHANGED <<content, wrote>> /\ (bufSize' = bufSize \/ bufSize' = Extended(v))
    BY <1>5 DEF BufSetPosition
  <2>2. v \in Nat
    BY PlaceIs DEF BufInv
  <2>3. bufSize <= bufSize'
    BY <1>1, <2>1, <2>2 DEF Extended
  <2> QED
    BY <2>1, <2>3, WroteKept
<1>6. ASSUME NEW n, BufRead(n) \/ BufSend(n) PROVE UNCHANGED <<content, bufSize, wrote>>
  BY <1>6 DEF BufRead, BufSend
<1>7. ASSUME BufReadNumber \/ BufToString \/ BufWriteToFile \/ UNCHANGED bufVars
      PROVE  UNCHANGED <<content, bufSize, wrote>>
  BY <1>7 DEF BufReadNumber, BufToString, BufWriteToFile, bufVars
<1>8. ASSUME BufClear PROVE wrote' = Nothing
  BY <1>8 DEF BufClear
<1> QED
  BY <1>2, <1>3, <1>4, <1>5, <1>6, <1>7, <1>8 DEF BufNext

\* readUint32() at the position of the number finds just its bytes.
LEMMA ReadBack ==
    ASSUME BufInv, WroteOK, BufReadNumber, \A v \in Numbers : Len(Varint[v]) <= VarintBytes,
           bufLast'.name = "number", wrote # Nothing, position = wrote.at
    PROVE  /\ ReadVarint(bufLast'.bytes) = wrote.number
           /\ position' = wrote.at + Len(Varint[wrote.number])
<1> DEFINE s == Varint[wrote.number]
           L == Len(s)
<1>1. /\ wrote.number \in Numbers /\ wrote.number \in Nat /\ position + L <= bufSize
      /\ \A k \in 1 .. L : content[position + k - 1] = s[k]
  BY ByteArrayAssumption DEF WroteOK
<1>2. /\ s \in Seq(Byte) /\ L \in Nat \ {0} /\ s[L] < Radix /\ \A k \in 1 .. L - 1 : s[k] >= Radix
      /\ \A k \in 1 .. L : s[k] \in Byte
  <2>1. /\ s \in Seq(Byte) /\ L \in Nat \ {0} /\ s[L] < Radix /\ \A k \in 1 .. L - 1 : s[k] >= Radix
    BY <1>1, VarintBytesAre
  <2>2. \A k \in 1 .. L : s[k] \in Byte
    BY <2>1
  <2> QED
    BY <2>1, <2>2
<1>3. L <= VarintBytes /\ VarintBytes \in Nat
  BY <1>1, ByteArrayAssumption
<1> HIDE DEF s, L
<1>4. PICK n \in 0 .. ReadSize :
         LET bytes == BytesFrom(cur, n)
             complete == n = VarintBytes \/ (n > 0 /\ bytes[n] < Radix)
         IN  /\ \A k \in 1 .. n - 1 : bytes[k] >= Radix
             /\ Operation(IF complete THEN "number" ELSE "torn", bytes)
             /\ position' = position + n /\ n <= VarintBytes
  BY DEF BufReadNumber
<1> DEFINE b == BytesFrom(cur, n)
<1>5. /\ n \in Nat /\ n <= VarintBytes /\ position' = position + n /\ bufLast'.bytes = b
      /\ n = VarintBytes \/ (n > 0 /\ b[n] < Radix)
      /\ \A k \in 1 .. n - 1 : b[k] >= Radix
  <2>1. n \in Nat
    BY TextIs DEF BufInv
  <2> QED
    BY <1>4, <2>1 DEF Operation
<1>6. b \in Seq(Data) /\ Len(b) = n /\ \A k \in 1 .. n : b[k] = content[position + k - 1]
  BY BytesAre DEF BufInv
<1> HIDE DEF b
<1>7. Radix \in Nat /\ \A x \in Byte : x \in Int
  BY IsByte DEF Byte
<1>8. ASSUME NEW k \in 1 .. n, k <= L PROVE b[k] = s[k]
  <2>1. k \in 1 .. L
    BY <1>2, <1>5, <1>8
  <2> QED
    BY <1>1, <1>6, <2>1
<1>9. ~(n > L)
  <2> SUFFICES ASSUME n > L PROVE FALSE
    OBVIOUS
  <2>1. L \in 1 .. n - 1 /\ L \in 1 .. n /\ L \in 1 .. L
    BY <1>2, <1>5
  <2>2. b[L] = s[L] /\ b[L] >= Radix /\ s[L] < Radix /\ s[L] \in Int
    BY <1>2, <1>5, <1>7, <1>8, <2>1
  <2> QED
    BY <1>7, <2>2
<1>10. ~(n < L)
  <2> SUFFICES ASSUME n < L PROVE FALSE
    OBVIOUS
  <2>1. n > 0 /\ b[n] < Radix
    BY <1>2, <1>3, <1>5
  <2>2. n \in 1 .. L - 1 /\ n \in 1 .. n /\ n \in 1 .. L /\ n <= L
    BY <1>2, <1>5, <2>1
  <2>3. b[n] = s[n] /\ s[n] >= Radix /\ s[n] \in Int
    BY <1>2, <1>7, <1>8, <2>2
  <2> QED
    BY <1>7, <2>1, <2>3
<1>11. n = L
  BY <1>2, <1>5, <1>9, <1>10
<1>12. b = s
  <2>1. s \in Seq(Data) /\ Len(s) = n
    BY <1>2, <1>11, SeqMonotonic DEF Data, L
  <2>2. \A k \in 1 .. n : b[k] = s[k]
    BY <1>8, <1>11
  <2> QED
    BY <1>6, <2>1, <2>2, SeqEqual
<1>13. ReadVarint(s) = wrote.number
  BY <1>1, VarintInverse DEF s
<1> QED
  BY <1>5, <1>11, <1>12, <1>13 DEF s, L

\* If no number needs more bytes than readUint32() reads at most, whatever was
\* written last reads back when the position returns to it.
THEOREM ReadsBack == (\A v \in Numbers : Len(Varint[v]) <= VarintBytes) /\ BufSpec => NumberReadsBack
<1> SUFFICES ASSUME \A v \in Numbers : Len(Varint[v]) <= VarintBytes PROVE BufSpec => NumberReadsBack
  OBVIOUS
<1> DEFINE A == bufLast'.name = "number" /\ wrote # Nothing /\ position = wrote.at
                => /\ ReadVarint(bufLast'.bytes) = wrote.number
                   /\ position' = wrote.at + Len(Varint[wrote.number])
<1>1. BufInit => BufInv /\ WroteOK
  BY BufInvStarts DEF BufInit, WroteOK
<1>2. BufInv /\ WroteOK /\ [BufNext]_bufVars => [A]_bufVars
  <2> SUFFICES ASSUME BufInv, WroteOK, BufNext, bufLast'.name = "number", wrote # Nothing, position = wrote.at
               PROVE  A
    OBVIOUS
  <2>1. ASSUME NEW bytes, NEW n,
               BufWrite(bytes) \/ BufWriteNumber(n) \/ BufReceive(bytes, n) \/ BufSend(n) \/ BufRead(n)
                 \/ BufSetPosition(n) \/ BufClear \/ BufToString \/ BufWriteToFile
        PROVE  bufLast'.name # "number"
    BY <2>1 DEF BufWrite, BufWriteNumber, BufReceive, BufSend, BufRead, BufSetPosition, BufClear,
       BufToString, BufWriteToFile, Operation
  <2>2. BufReadNumber
    BY <2>1 DEF BufNext
  <2> QED
    BY <2>2, ReadBack
<1>3. BufInv /\ WroteOK /\ BufInv' /\ [BufNext]_bufVars => WroteOK'
  BY WroteStep
<1> QED
  BY <1>1, <1>2, <1>3, BufInvHolds, PTL DEF BufSpec, NumberReadsBack
=============================================================================
