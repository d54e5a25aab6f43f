----------------------------- MODULE ByteArray ------------------------------
(***************************************************************************)
(* ByteArray (bytearray.cpp/.h): bytes in a list of blocks, with a         *)
(* position and a pointer m_cur to the block the position is in, which     *)
(* every operation has to carry along.  m_cur is the index of the block; a *)
(* null pointer is the index after the last one.  The steps of an          *)
(* operation follow the list from m_cur, so they are right only while      *)
(* m_cur agrees with the position.                                         *)
(* Names have the prefix Buf: the module is checked beside others.         *)
(***************************************************************************)
EXTENDS Integers, SequencesExt

CONSTANTS BaseSize,    \* m_baseSize
          Radix,       \* 0x80: a byte has seven bits for a number and one to go on
          Numbers,     \* what writeUint32() is called with
          VarintBytes, \* the bytes readUint32() reads at most
          Strings,     \* what write() is called with
          ReadSizes,   \* sizes read() is called with
          Aligned,     \* writeToFile() is called at the start of a block only
          MaxBlocks,   \* bound: blocks
          MaxBufOps    \* bound: operations

ASSUME ByteArrayAssumption ==
    /\ BaseSize \in Nat \ {0} /\ Radix \in Nat \ {0, 1} /\ Numbers \subseteq Nat
    /\ Strings \subseteq Seq(0 .. 2 * Radix - 1) /\ VarintBytes \in Nat
    /\ ReadSizes \subseteq Nat /\ Aligned \in BOOLEAN
    /\ MaxBlocks \in Nat \ {0} /\ MaxBufOps \in Nat

VARIABLES blocks,    \* how many blocks there are
          content,   \* their bytes
          position, bufSize, cur, \* m_position, m_size, m_cur
          bufLast,   \* the last operation, with the bytes it wrote or returned
          wrote,     \* history: the last number written, while nothing overwrites it
          bufOps     \* bound

bufVars == <<blocks, content, position, bufSize, cur, bufLast, wrote, bufOps>>

Junk == -1   \* what a block holds before it is written
Byte == 0 .. 2 * Radix - 1
Null == blocks
Nothing == [at |-> 0, number |-> -1]
capacity == blocks * BaseSize

BufTypeOK ==
    /\ blocks \in 1 .. MaxBlocks /\ content \in [0 .. capacity - 1 -> Byte \cup {Junk}]
    /\ position \in 0 .. capacity /\ bufSize \in position .. capacity /\ cur \in 0 .. Null
    /\ bufLast \in [name : {"write", "read", "seek", "show", "clear", "throw", "crash", "number", "torn"},
                    bytes : Seq(Byte \cup {Junk})]
    /\ wrote \in [at : Nat, number : Numbers \cup {-1}] /\ bufOps \in 0 .. MaxBufOps

BufInit ==
    /\ blocks = 1 /\ content = [i \in 0 .. BaseSize - 1 |-> Junk]
    /\ position = 0 /\ bufSize = 0 /\ cur = 0
    /\ bufLast = [name |-> "clear", bytes |-> <<>>] /\ wrote = Nothing /\ bufOps = 0

Operation(name, bytes) ==
    /\ bufOps < MaxBufOps /\ bufOps' = bufOps + 1
    /\ bufLast' = [name |-> name, bytes |-> bytes]

ReadSize == bufSize - position

-----------------------------------------------------------------------------
(* Blocks                                                                  *)

\* addCapacity(size): with no room left m_cur is the first new block.
Room == capacity - position
Missing(size) == IF size <= Room THEN 0 ELSE (size - Room + BaseSize - 1) \div BaseSize
CurAfterAdd(size) == IF Missing(size) > 0 /\ Room = 0 THEN blocks ELSE cur
Grow(size) ==
    /\ blocks + Missing(size) <= MaxBlocks
    /\ blocks' = blocks + Missing(size)
Grown(size) == [i \in 0 .. (blocks + Missing(size)) * BaseSize - 1 |->
                    IF i < capacity THEN content[i] ELSE Junk]

\* The bytes an operation touches go from the position's place in the block
\* `from` to the end of the block, and on through the blocks that follow.
Place(from, k) == (from * BaseSize) + (position % BaseSize) + k
\* Mutant of CurAfter: a block that is used up to its last byte is not left.
CurAfterStays(from, size) == (Place(from, size) - 1) \div BaseSize

\* Where that leaves m_cur: a block that is used up is left.
CurAfter(from, size) == Place(from, size) \div BaseSize

\* The blocks with size more bytes of room and these bytes at the position.
Put(bytes, size, from) ==
    [i \in DOMAIN Grown(size) |->
        IF \E k \in 1 .. Len(bytes) : i = Place(from, k - 1)
        THEN bytes[CHOOSE k \in 1 .. Len(bytes) : i = Place(from, k - 1)] ELSE Grown(size)[i]]
Extended(v) == IF v > bufSize THEN v ELSE bufSize

\* write(), and every writeF*() and write*().
BufWrite(bytes) ==
    LET size == Len(bytes)  from == CurAfterAdd(size) IN
    /\ size \in 1 .. MaxBlocks * BaseSize /\ Grow(size)
    /\ content' = Put(bytes, size, from)
    /\ position' = position + size
    /\ cur' = CurAfter(from, size)
    /\ bufSize' = Extended(position')
    /\ Operation("write", bytes)

BytesFrom(from, size) == [k \in 1 .. size |-> content[Place(from, k - 1)]]

\* read(): without a block m_cur->size is read from null.
BufRead(size) ==
    IF size > ReadSize THEN Operation("throw", <<>>) /\ UNCHANGED <<blocks, content, position, bufSize, cur, wrote>>
    ELSE IF cur = Null THEN Operation("crash", <<>>) /\ UNCHANGED <<blocks, content, position, bufSize, cur, wrote>>
    ELSE /\ Operation("read", BytesFrom(cur, size))
         /\ position' = position + size
         /\ cur' = CurAfter(cur, size)
         /\ UNCHANGED <<blocks, content, bufSize, wrote>>

\* The list is followed from the root; a full block is left.
Follow(v) == CHOOSE b \in 0 .. MaxBlocks : b * BaseSize <= v /\ v < (b + 1) * BaseSize

\* Mutant of BufSetPosition: m_size stays when the position is moved beyond it.
BufSetPositionKeepsSize(v) ==
    IF v > capacity THEN Operation("throw", <<>>) /\ UNCHANGED <<blocks, content, position, bufSize, cur, wrote>>
    ELSE /\ position' = v
         /\ cur' = Follow(v)
         /\ Operation("seek", <<>>)
         /\ UNCHANGED <<blocks, content, bufSize, wrote>>

\* Mutant of BufSetPosition: at the end of a block that block stays current.
BufSetPositionStays(v) ==
    IF v > capacity THEN Operation("throw", <<>>) /\ UNCHANGED <<blocks, content, position, bufSize, cur, wrote>>
    ELSE /\ position' = v
         /\ bufSize' = Extended(v)
         /\ cur' = IF v = 0 THEN 0 ELSE (v - 1) \div BaseSize
         /\ Operation("seek", <<>>)
         /\ UNCHANGED <<blocks, content, wrote>>

\* setPosition().
BufSetPosition(v) ==
    IF v > capacity THEN Operation("throw", <<>>) /\ UNCHANGED <<blocks, content, position, bufSize, cur, wrote>>
    ELSE /\ position' = v
         /\ bufSize' = Extended(v)
         /\ cur' = Follow(v)
         /\ Operation("seek", <<>>)
         /\ UNCHANGED <<blocks, content, wrote>>

\* SocketStream::read(): recv() into getWriteBuffers() of size bytes, of which it
\* may fill fewer, or none when it fails; then the position is set behind them.
BufReceive(bytes, size) ==
    /\ 0 < size /\ Len(bytes) <= size /\ Grow(size)
    /\ content' = Put(bytes, size, CurAfterAdd(size))
    /\ position' = position + Len(bytes)
    /\ bufSize' = Extended(position')
    /\ cur' = IF bytes = <<>> THEN CurAfterAdd(size) ELSE Follow(position')
    /\ Operation("write", bytes)

\* SocketStream::write(): send() takes n bytes of getReadBuffers().
BufSend(n) ==
    /\ n \in 1 .. ReadSize
    /\ Operation("read", BytesFrom(cur, n))
    /\ position' = position + n
    /\ cur' = Follow(position')
    /\ UNCHANGED <<blocks, content, bufSize, wrote>>

BufClear ==
    /\ blocks' = 1 /\ content' = [i \in 0 .. BaseSize - 1 |-> content[i]]
    /\ position' = 0 /\ bufSize' = 0 /\ cur' = 0 /\ wrote' = Nothing
    /\ Operation("clear", <<>>)

\* toString(), toHexString() and getReadBuffers(): nothing to read, no block needed.
BufToString ==
    /\ Operation("show", BytesFrom(cur, ReadSize))
    /\ UNCHANGED <<blocks, content, position, bufSize, cur, wrote>>

\* writeToFile(): each round takes a block's worth, less the offset in the
\* block, of what is left; b is the block, p the position, left what is left.
FilePart(b, p, left) ==
    LET diff == p % BaseSize IN
    [k \in 1 .. (IF left > BaseSize THEN BaseSize ELSE left) - diff |-> content[(b * BaseSize) + diff + k - 1]]
FileFrom(b0, p0, left0) ==
    LET f[n \in 0 .. MaxBlocks] ==  \* after n rounds: <<bytes, block, position, left>>
            IF n = 0 THEN <<<<>>, b0, p0, left0>>
            ELSE LET was == f[n - 1]
                     part == FilePart(was[2], was[3], was[4])
                 IN  IF was[4] = 0 THEN was
                     ELSE <<was[1] \o part, was[2] + 1, was[3] + Len(part), was[4] - Len(part)>>
    IN  f[MaxBlocks][1]

BufWriteToFile ==
    /\ Aligned => position % BaseSize = 0
    /\ Operation("show", FileFrom(cur, position, ReadSize))
    /\ UNCHANGED <<blocks, content, position, bufSize, cur, wrote>>

-----------------------------------------------------------------------------
(* Numbers                                                                 *)

\* writeUint32() and writeUint64(): seven bits a byte, the low ones first.
Varint[v \in Nat] ==
    IF v < Radix THEN <<v>> ELSE <<(v % Radix) + Radix>> \o Varint[v \div Radix]

\* Mutant of ReadVarint: the bit that says "to go on" is kept.
ReadVarintKeepsFlag(bytes) == FoldRight(LAMBDA b, v : b + (Radix * v), bytes, 0)

ReadVarint(bytes) == FoldRight(LAMBDA b, v : IF b < Radix THEN b ELSE (b - Radix) + (Radix * v), bytes, 0)

BufWriteNumber(v) ==
    /\ BufWrite(Varint[v])
    /\ wrote' = [at |-> position, number |-> v]

\* readUint32() and readUint64(), byte by byte until one does not go on: if the
\* bytes end before, those before it have been consumed when read() throws.
BufReadNumber ==
    \E n \in 0 .. ReadSize :
        LET bytes == BytesFrom(cur, n)
            complete == n = VarintBytes \/ (n > 0 /\ bytes[n] < Radix)
        IN
        /\ \A i \in position .. bufSize - 1 : content[i] # Junk
        /\ n <= VarintBytes /\ \A k \in 1 .. n - 1 : bytes[k] >= Radix
        /\ complete \/ n = ReadSize
        /\ Operation(IF complete THEN "number" ELSE "torn", bytes)
        /\ position' = position + n
        /\ cur' = IF n = 0 THEN cur ELSE CurAfter(cur, n)
        /\ UNCHANGED <<blocks, content, bufSize, wrote>>

\* EncodeZigzag32() and DecodeZigzag32(), and those for 64 bits.
EncodeZigzag(v) == IF v < 0 THEN 2 * (-v) - 1 ELSE 2 * v
DecodeZigzag(u) == IF u % 2 = 0 THEN u \div 2 ELSE -(u \div 2) - 1

BufNext ==
    \/ \E s \in Strings : BufWrite(s) /\ wrote' = Nothing
    \/ \E v \in Numbers : BufWriteNumber(v)
    \/ \E s \in Strings \cup {<<>>}, n \in ReadSizes : BufReceive(s, n) /\ wrote' = Nothing
    \/ \E n \in ReadSizes : BufSend(n)
    \/ BufReadNumber
    \/ \E n \in ReadSizes : BufRead(n)
    \/ \E v \in 0 .. capacity + 1 : BufSetPosition(v)
    \/ BufClear \/ BufToString \/ BufWriteToFile

BufSpec == BufInit /\ [][BufNext]_bufVars

-----------------------------------------------------------------------------
(* Properties                                                              *)

\* m_cur is the block of the position, whichever operations came before; it
\* is null exactly when there is no room left.
CursorAgrees == cur = position \div BaseSize

\* The list of blocks does not show: every read, write, seek and copy is
\* that of one run of bytes (FlatBuffer), and nothing follows a null pointer.
Flat == INSTANCE FlatBuffer WITH
    text <- [k \in 1 .. bufSize |-> content[k - 1]], at <- position, last <- bufLast
BehavesFlat == Flat!FlatSpec

\* A number that was written reads back when the position returns to it, also
\* across blocks, and leaves the position behind it.
NumberReadsBack ==
    [][bufLast'.name = "number" /\ wrote # Nothing /\ position = wrote.at
       => /\ ReadVarint(bufLast'.bytes) = wrote.number
          /\ position' = wrote.at + Len(Varint[wrote.number])]_bufVars
=============================================================================
