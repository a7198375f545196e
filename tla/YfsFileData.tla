---------------------------- MODULE YfsFileData ----------------------------
(***************************************************************************)
(* What is in the blocks: a write can be read back, extend finds the       *)
(* blocks it has counted but for one, and the block layer implements       *)
(* YfsFiles.                                                               *)
(***************************************************************************)
EXTENDS YfsFileProofs, FiniteSetTheorems

-----------------------------------------------------------------------------
(* extend runs out of blocks in one place only.                            *)

\* The free data blocks are finitely many; taking one leaves one less.
LEMMA FreeFinite == IsFiniteSet(DataBlock \ block_bitmap)
<1>1. IsFiniteSet(DataBlock)
  BY Layout, FileAssumption, FS_Interval DEF DataBlock
<1> QED
  BY <1>1, FS_Subset

LEMMA OneBlockLess ==
  ASSUME TypeOK, NEW b \in DataBlock, b \notin block_bitmap,
         block_bitmap' = block_bitmap \union {b}
  PROVE  ValidBlock \in Nat /\ ValidBlock' = ValidBlock - 1
<1> DEFINE S == DataBlock \ block_bitmap
<1>1. IsFiniteSet(S)
  BY FreeFinite
<1>2. (DataBlock \ block_bitmap') = S \ {b} /\ b \in S
  OBVIOUS
<1>3. Cardinality(S) \in Nat /\ Cardinality(S \ {b}) = Cardinality(S) - 1
  BY <1>1, <1>2, FS_CardinalityType, FS_RemoveElement
<1> QED
  BY <1>2, <1>3 DEF ValidBlock

\* The indirect block has been counted and is still to be taken, or was not counted
\* and has been taken.
TableCounted ==
  /\ pc = "extend" /\ next <= NUM_DIRECT
  /\ Blocks(size[req.inum]) < NUM_DIRECT /\ Holds(NUM_DIRECT, newsize)
TableUncounted == pc = "entries" /\ Blocks(size[req.inum]) = NUM_DIRECT

\* While extend takes blocks, what it still needs is free but for that one block.
Room ==
  pc \in {"extend", "entries"} /\ Holds(next, newsize) =>
    Blocks(newsize) - next + (IF TableCounted THEN 1 ELSE 0)
      <= ValidBlock + (IF TableUncounted THEN 1 ELSE 0)

\* Where extend is, against the blocks the file had and those it shall have.
LEMMA ExtendCounts ==
  ASSUME IInv, pc \in {"extend", "entries"}
  PROVE  /\ next \in Nat /\ NUM_DIRECT \in Nat /\ newsize \in Nat
         /\ Blocks(newsize) \in Nat /\ Blocks(size[req.inum]) \in Nat
         /\ Holds(next, newsize) => next < Blocks(newsize)
         /\ Blocks(size[req.inum]) <= next
         /\ pc = "extend" /\ next > NUM_DIRECT => Blocks(size[req.inum]) > NUM_DIRECT
         /\ pc = "entries" => NUM_DIRECT <= next
         /\ ValidBlock \in Nat
<1>1. next \in Nat /\ NUM_DIRECT \in Nat /\ newsize \in Nat /\ size[req.inum] \in Nat
  BY FileAssumption DEF IInv, TypeOK, newsize
<1>2. Blocks(newsize) \in Nat /\ Blocks(size[req.inum]) \in Nat
  BY <1>1, BlocksCount
<1>3. Holds(next, newsize) => next < Blocks(newsize)
  BY <1>1, BlocksCount
<1>4. Blocks(size[req.inum]) <= next
  <2>1. SUFFICES ASSUME next < Blocks(size[req.inum]) PROVE FALSE
    BY <1>1, <1>2
  <2>2. Holds(next, size[req.inum])
    BY <1>1, <2>1, BlocksCount
  <2> QED
    BY <1>1, <2>2 DEF IInv, Control
<1>5. pc = "extend" /\ next > NUM_DIRECT => Blocks(size[req.inum]) > NUM_DIRECT
  BY <1>1, <1>2, BlocksCount DEF IInv, Control
<1>6. pc = "entries" => NUM_DIRECT <= next
  BY DEF IInv, Control
<1>7. ValidBlock \in Nat
  BY FreeFinite, FS_CardinalityType DEF ValidBlock
<1> QED
  BY <1>1, <1>2, <1>3, <1>4, <1>5, <1>6, <1>7

\* What extend counts before it starts is what is asked for when it starts.
LEMMA CountedRoom ==
  ASSUME IInv, NEW i \in Inode, NEW p \in Nat, NEW n \in Nat, NEW w \in Int,
         WriteHandler(i, p, n, w)
  PROVE  Room'
<1> DEFINE B == Blocks(p + n)
           m == Blocks(size[i])
<1> SUFFICES ASSUME pc' = "extend"
             PROVE  (Blocks(newsize) - next + (IF TableCounted THEN 1 ELSE 0)
                       <= ValidBlock + (IF TableUncounted THEN 1 ELSE 0))'
  BY DEF Room, WriteHandler
<1>1. /\ i \in live /\ next' = m /\ UNCHANGED <<size, block_bitmap>>
      /\ req' = [inum |-> i, pos |-> p, len |-> n, word |-> w]
      /\ NeedBlock(size[i], p + n) <= ValidBlock
  BY DEF WriteHandler, inodes
<1>2. p + n \in Nat /\ size[i] \in Nat /\ NUM_DIRECT \in Nat
  BY <1>1, FileAssumption DEF IInv, TypeOK
<1>3. B \in Nat /\ m \in Nat /\ (Holds(NUM_DIRECT, p + n) <=> NUM_DIRECT < B)
  BY <1>2, BlocksCount
<1>4. ValidBlock' = ValidBlock /\ ValidBlock \in Nat
  BY <1>1, FreeFinite, FS_CardinalityType DEF ValidBlock, IInv
<1>5. newsize' = p + n /\ Blocks(newsize)' = B /\ Blocks(size[req.inum])' = m
  BY <1>1 DEF newsize, Blocks
<1>6. NeedBlock(size[i], p + n) = B - m + (IF NUM_DIRECT < B /\ m < NUM_DIRECT THEN 1 ELSE 0)
  BY <1>2, <1>3 DEF NeedBlock
<1>7. ~ TableUncounted' /\ (TableCounted' => NUM_DIRECT < B /\ m < NUM_DIRECT)
  BY <1>3, <1>5 DEF TableUncounted, TableCounted, Holds
<1> HIDE DEF B, m
<1> QED
  BY <1>1, <1>3, <1>4, <1>5, <1>6, <1>7

\* Each direct block taken is one less to take and one less that is free.
LEMMA DirectRoom == ASSUME IInv, Room, AllocDirect PROVE Room'
<1> DEFINE B == Blocks(newsize)
<1>1. PICK b \in Block : FirstFree(b) /\ block_bitmap' = block_bitmap \union {b}
  BY DEF AllocDirect
<1>2. ValidBlock \in Nat /\ ValidBlock' = ValidBlock - 1
  BY <1>1, FreeIsData, OneBlockLess DEF IInv
<1>3. /\ pc = "extend" /\ next < NUM_DIRECT /\ Holds(next, newsize)
      /\ pc' = pc /\ next' = next + 1 /\ UNCHANGED <<size, req>> /\ newsize' = newsize
  BY DEF AllocDirect, request, newsize
<1>4. next \in Nat /\ NUM_DIRECT \in Nat /\ B \in Nat /\ B' = B
  BY <1>3, ExtendCounts
<1>5. TableCounted' => TableCounted
  BY <1>3, <1>4 DEF TableCounted
<1>6. ~ TableUncounted /\ ~ TableUncounted'
  BY <1>3 DEF TableUncounted
<1> HIDE DEF B
<1>7. B - next + (IF TableCounted THEN 1 ELSE 0) <= ValidBlock
  BY <1>2, <1>3, <1>6 DEF Room, B
<1>8. B' - next' + (IF TableCounted' THEN 1 ELSE 0) <= ValidBlock'
  BY <1>2, <1>3, <1>4, <1>5, <1>7
<1>9. ValidBlock' \in Int
  BY <1>2
<1> QED
  BY <1>6, <1>8, <1>9 DEF Room, B

\* The indirect block taken is the one that was counted, or the one that was not.
LEMMA TableRoom == ASSUME IInv, Room, AllocIndirect PROVE Room'
<1> DEFINE B == Blocks(newsize)
           m == Blocks(size[req.inum])
<1>1. PICK b \in Block : FirstFree(b) /\ block_bitmap' = block_bitmap \union {b}
  BY DEF AllocIndirect
<1>2. ValidBlock \in Nat /\ ValidBlock' = ValidBlock - 1
  BY <1>1, FreeIsData, OneBlockLess DEF IInv
<1>3. /\ pc = "extend" /\ next = NUM_DIRECT /\ Holds(next, newsize)
      /\ pc' = "entries" /\ next' = next /\ UNCHANGED <<size, req>> /\ newsize' = newsize
  BY DEF AllocIndirect, request, newsize
<1>4. next \in Nat /\ B \in Nat /\ B' = B /\ m \in Nat /\ m' = m /\ m <= next
  BY <1>3, ExtendCounts
<1>5. ~ TableUncounted /\ ~ TableCounted' /\ (TableUncounted' <=> m = NUM_DIRECT)
      /\ (TableCounted <=> m < NUM_DIRECT)
  BY <1>3, <1>4 DEF TableCounted, TableUncounted
<1> HIDE DEF B, m
<1>6. B - next + (IF TableCounted THEN 1 ELSE 0) <= ValidBlock
  BY <1>2, <1>3, <1>5 DEF Room, B
<1>7. B' - next' <= ValidBlock' + (IF TableUncounted' THEN 1 ELSE 0)
  BY <1>2, <1>3, <1>4, <1>5, <1>6
<1>8. B' \in Int /\ next' \in Int
  BY <1>3, <1>4
<1> QED
  BY <1>5, <1>7, <1>8 DEF Room, B

\* So is each block of the indirect block.
LEMMA EntryRoom == ASSUME IInv, Room, AllocEntry PROVE Room'
<1> DEFINE B == Blocks(newsize)
<1>1. PICK b \in Block : FirstFree(b) /\ block_bitmap' = block_bitmap \union {b}
  BY DEF AllocEntry
<1>2. ValidBlock \in Nat /\ ValidBlock' = ValidBlock - 1
  BY <1>1, FreeIsData, OneBlockLess DEF IInv
<1>3. /\ pc = "entries" /\ Holds(next, newsize)
      /\ pc' = pc /\ next' = next + 1 /\ UNCHANGED <<size, req>> /\ newsize' = newsize
  BY DEF AllocEntry, MoreEntries, inodes, request, newsize
<1>4. next \in Nat /\ B \in Nat /\ B' = B
  BY <1>3, ExtendCounts
<1>5. ~ TableCounted /\ ~ TableCounted' /\ (TableUncounted' <=> TableUncounted)
  BY <1>3 DEF TableCounted, TableUncounted, Blocks
<1> HIDE DEF B
<1>6. B - next <= ValidBlock + (IF TableUncounted THEN 1 ELSE 0)
  BY <1>3, <1>4, <1>5 DEF Room, B
<1>7. B' - next' <= ValidBlock' + (IF TableUncounted' THEN 1 ELSE 0)
  BY <1>2, <1>3, <1>4, <1>5, <1>6
<1>8. B' \in Int /\ next' \in Int
  BY <1>3, <1>4
<1> QED
  BY <1>5, <1>7, <1>8 DEF Room, B

\* A file that had an indirect block needs none.
LEMMA HasTableRoom == ASSUME IInv, Room, HasIndirect PROVE Room'
<1>1. /\ pc = "extend" /\ next > NUM_DIRECT /\ pc' = "entries"
      /\ UNCHANGED <<next, size, block_bitmap, req>>
  BY DEF HasIndirect, inodes, request
<1>2. newsize' = newsize /\ ValidBlock' = ValidBlock
      /\ Blocks(newsize)' = Blocks(newsize)
      /\ Blocks(size[req.inum])' = Blocks(size[req.inum])
  BY <1>1 DEF newsize, ValidBlock, Blocks
<1>3. next \in Nat /\ NUM_DIRECT \in Nat /\ Blocks(size[req.inum]) \in Nat
      /\ Blocks(size[req.inum]) > NUM_DIRECT
  BY <1>1, ExtendCounts
<1>4. ~ TableCounted /\ ~ TableCounted' /\ ~ TableUncounted /\ ~ TableUncounted'
  BY <1>1, <1>2, <1>3 DEF TableCounted, TableUncounted
<1>5. Holds(next, newsize)' <=> Holds(next, newsize)
  BY <1>1, <1>2 DEF Holds
<1> QED
  BY <1>1, <1>2, <1>4, <1>5 DEF Room

LEMMA RoomKeeps == IInv /\ Room /\ [Serve]_vars => Room'
<1> SUFFICES ASSUME IInv, Room, [Serve]_vars PROVE Room'
  OBVIOUS
<1>1. CASE CreateInode \/ \E i \in Inode : FreeInode(i)
  BY <1>1 DEF CreateInode, FreeInode, Room
<1>2. CASE \E i \in Inode, n \in 0 .. MAXLEN, w \in Word :
             \E p \in 0 .. MAXEND - n : WriteHandler(i, p, n, w)
  <2>1. PICK i \in Inode, n \in 0 .. MAXLEN, w \in Word :
               \E p \in 0 .. MAXEND - n : WriteHandler(i, p, n, w)
    BY <1>2
  <2>2. PICK p \in 0 .. MAXEND - n : WriteHandler(i, p, n, w)
    BY <2>1
  <2>3. p \in Nat /\ n \in Nat /\ w \in Int
    BY FileAssumption
  <2> QED
    BY <2>2, <2>3, CountedRoom
<1>3. CASE AllocDirect \/ AllocIndirect \/ HasIndirect \/ AllocEntry
  BY <1>3, DirectRoom, TableRoom, HasTableRoom, EntryRoom
<1>4. CASE ExtendFails \/ ExtendDone \/ WriteBlock \/ WriteDone \/ Reply
  <2>1. pc' \notin {"extend", "entries"}
    BY <1>4 DEF ExtendFails, ExtendDone, WriteBlock, WriteDone, Reply
  <2> QED
    BY <2>1 DEF Room
<1>5. CASE UNCHANGED vars
  <2>1. UNCHANGED <<pc, next, req, size, block_bitmap>>
    BY <1>5 DEF vars
  <2> QED
    BY <2>1 DEF Room, TableCounted, TableUncounted, newsize, ValidBlock, Blocks, Holds
<1> QED
  BY <1>1, <1>2, <1>3, <1>4, <1>5 DEF Serve, Request, Progress, Extend

\* No block is free.
LEMMA NoneFree == ASSUME Block \subseteq block_bitmap PROVE ValidBlock = 0
<1>1. DataBlock \ block_bitmap = {}
  BY Layout
<1> QED
  BY <1>1, FS_EmptySet DEF ValidBlock

\* The count that extend makes before it takes a block is short of one block at
\* most, and only where a file with exactly its direct blocks gets an indirect
\* one: then the last block of the growth is not there.
THEOREM ExtendRunsOutAtLast == ServeSpec => []RunsOutAtLast
<1>1. Init => Room
  BY DEF Init, Idle, Room
<1>2. IInv /\ Room /\ [Serve]_vars => Room'
  BY RoomKeeps
<1>3. IInv /\ Room => RunsOutAtLast
  <2> SUFFICES ASSUME IInv, Room, Growing, Block \subseteq block_bitmap
               PROVE  /\ pc = "entries" /\ Blocks(size[req.inum]) = NUM_DIRECT
                      /\ next + 1 = Blocks(newsize)
    BY DEF RunsOutAtLast
  <2>1. pc \in {"extend", "entries"} /\ Holds(next, newsize) /\ ValidBlock = 0
    BY NoneFree DEF Growing
  <2>2. next \in Nat /\ Blocks(newsize) \in Nat /\ next < Blocks(newsize)
    BY <2>1, ExtendCounts
  <2>3. Blocks(newsize) - next + (IF TableCounted THEN 1 ELSE 0)
          <= (IF TableUncounted THEN 1 ELSE 0)
    BY <2>1, <2>2 DEF Room
  <2>4. TableUncounted /\ Blocks(newsize) - next <= 1
    BY <2>2, <2>3
  <2> QED
    BY <2>2, <2>4 DEF TableUncounted
<1> QED
  BY <1>1, <1>2, <1>3, Invariance, PTL DEF ServeSpec

-----------------------------------------------------------------------------
(* What WriteHandler has written is in the file.                           *)

\* A position is given by its place and its offset.
LEMMA PlaceAndOffset ==
  ASSUME NEW k \in Nat, NEW o \in Offset
  PROVE  (k * BLOCKSIZE + o) \div BLOCKSIZE = k /\ (k * BLOCKSIZE + o) % BLOCKSIZE = o
<1>1. BLOCKSIZE \in Nat /\ BLOCKSIZE > 0 /\ o \in Nat /\ o < BLOCKSIZE
  BY FileAssumption DEF Offset
<1> DEFINE p == k * BLOCKSIZE + o
           q == p \div BLOCKSIZE
           r == p % BLOCKSIZE
<1>2. p \in Nat
  BY <1>1
<1>3. q \in Nat /\ r \in Nat /\ r < BLOCKSIZE /\ p = q * BLOCKSIZE + r
  BY <1>1, <1>2, DivMod DEF Offset
<1>4. p = k * BLOCKSIZE + o
  OBVIOUS
<1>5. q = k
  <2> HIDE DEF p, q, r
  <2>1. ASSUME q < k PROVE FALSE
    <3>1. (q + 1) * BLOCKSIZE <= k * BLOCKSIZE
      BY <1>1, <1>3, <2>1, TimesMonotone
    <3>2. (q + 1) * BLOCKSIZE = q * BLOCKSIZE + BLOCKSIZE
          /\ q * BLOCKSIZE \in Nat /\ k * BLOCKSIZE \in Nat
      BY <1>1, <1>3
    <3> QED
      BY <1>1, <1>3, <1>4, <3>1, <3>2
  <2>2. ASSUME k < q PROVE FALSE
    <3>1. (k + 1) * BLOCKSIZE <= q * BLOCKSIZE
      BY <1>1, <1>3, <2>2, TimesMonotone
    <3>2. (k + 1) * BLOCKSIZE = k * BLOCKSIZE + BLOCKSIZE
          /\ q * BLOCKSIZE \in Nat /\ k * BLOCKSIZE \in Nat
      BY <1>1, <1>3
    <3> QED
      BY <1>1, <1>3, <1>4, <3>1, <3>2
  <2> QED
    BY <1>3, <2>1, <2>2
<1>6. r = o
  <2>1. k * BLOCKSIZE \in Nat
    BY <1>1
  <2> HIDE DEF p, q, r
  <2> QED
    BY <1>1, <1>3, <1>4, <1>5, <2>1
<1> QED
  BY <1>5, <1>6

\* An iteration of WriteHandler's loop changes the words it writes, in the file
\* it is for, and no other word of any file.
LEMMA WriteBlockWords ==
  ASSUME IInv, WriteBlock, (cursor \div BLOCKSIZE) \in Place, count' # count,
         NEW i \in live, NEW q \in Nat, q < size[i], (q \div BLOCKSIZE) \in Place
  PROVE  WordAt(i, q)' =
           IF i = req.inum /\ q \in cursor .. cursor + write_count - 1
           THEN req.word ELSE WordAt(i, q)
<1> DEFINE k == q \div BLOCKSIZE
           o == q % BLOCKSIZE
           k0 == cursor \div BLOCKSIZE
<1>1. /\ req.inum \in live /\ cursor \in Nat /\ k0 \in Place /\ k0 \in Nat
      /\ block_offset \in Offset /\ write_count \in Nat
      /\ block_offset + write_count <= BLOCKSIZE /\ block \in DataBlock
      /\ Holds(k0, size[req.inum])
      /\ data' = [data EXCEPT ![block] = [x \in Offset |->
           IF x \in block_offset .. block_offset + write_count - 1
           THEN req.word ELSE @[x]]]
  BY WriteBlockPlaces
<1>2. k \in Place /\ k \in Nat /\ o \in Offset /\ q = k * BLOCKSIZE + o /\ Holds(k, size[i])
  BY DivMod, PositionHeld DEF IInv, TypeOK
<1>3. cursor = k0 * BLOCKSIZE + block_offset
  BY <1>1, DivMod DEF block_offset
<1>4. BLOCKSIZE \in Nat /\ block_offset \in Nat /\ o \in Nat
  BY <1>1, <1>2, FileAssumption DEF Offset
<1>5. Reach(i, k) /\ Reach(req.inum, k0) /\ block = BlockAt(req.inum, k0)
  BY <1>1, <1>2 DEF Reach, block
<1>6. BlockAt(i, k)' = BlockAt(i, k) /\ BlockAt(i, k) \in DataBlock
  BY <1>2, <1>5, WriteBlockPlaces DEF IInv, Marked
<1>7. BlockAt(i, k) = block <=> i = req.inum /\ k = k0
  BY <1>1, <1>2, <1>5 DEF IInv, Apart
<1> HIDE DEF k, o, k0
<1>8. k = k0 /\ o \in block_offset .. block_offset + write_count - 1
      <=> q \in cursor .. cursor + write_count - 1
  <2>1. k0 * BLOCKSIZE \in Nat
    BY <1>1, <1>4
  <2>2. ASSUME k = k0, o \in block_offset .. block_offset + write_count - 1
        PROVE  q \in cursor .. cursor + write_count - 1
    BY <1>1, <1>2, <1>3, <1>4, <2>1, <2>2
  <2>3. ASSUME q \in cursor .. cursor + write_count - 1
        PROVE  k = k0 /\ o \in block_offset .. block_offset + write_count - 1
    <3> DEFINE x == block_offset + (q - cursor)
    <3>1. x \in Offset /\ q = k0 * BLOCKSIZE + x
      BY <1>1, <1>3, <1>4, <2>1, <2>3 DEF Offset
    <3>2. k = k0 /\ o = x
      BY <1>1, <3>1, PlaceAndOffset DEF k, o
    <3> QED
      BY <1>1, <1>4, <2>3, <3>2
  <2> QED
    BY <2>2, <2>3
<1>9. WordAt(i, q)' = data'[BlockAt(i, k)][o] /\ WordAt(i, q) = data[BlockAt(i, k)][o]
  BY <1>6 DEF WordAt, k, o
<1>10. data'[BlockAt(i, k)][o] =
         IF BlockAt(i, k) = block /\ o \in block_offset .. block_offset + write_count - 1
         THEN req.word ELSE data[BlockAt(i, k)][o]
  BY <1>1, <1>2, <1>6 DEF IInv, TypeOK
<1> QED
  BY <1>7, <1>8, <1>9, <1>10

\* The words of an iteration lie in one place.
LEMMA OnePlace ==
  ASSUME IInv, WriteBlock, NEW q \in cursor .. cursor + write_count - 1
  PROVE  q \div BLOCKSIZE = cursor \div BLOCKSIZE
<1> DEFINE k0 == cursor \div BLOCKSIZE
           x == block_offset + (q - cursor)
<1>1. /\ cursor \in Nat /\ k0 \in Nat /\ block_offset \in Offset /\ write_count \in Nat
      /\ block_offset + write_count <= BLOCKSIZE
  BY WriteBlockPlaces
<1>2. cursor = k0 * BLOCKSIZE + block_offset
  BY <1>1, DivMod DEF block_offset
<1>3. BLOCKSIZE \in Nat /\ block_offset \in Nat
  BY <1>1, FileAssumption DEF Offset
<1> HIDE DEF k0
<1>4. k0 * BLOCKSIZE \in Nat
  BY <1>1, <1>3
<1>5. x \in Offset /\ q = k0 * BLOCKSIZE + x
  BY <1>1, <1>2, <1>3, <1>4 DEF Offset
<1> HIDE DEF x
<1> QED
  BY <1>1, <1>5, PlaceAndOffset DEF k0

\* What WriteHandler has counted as written holds the word, up to the size.
Written ==
  /\ pc \notin {"write", "reply"} => count = 0
  /\ pc \in {"write", "reply"} =>
       \A q \in Nat : req.pos <= q /\ q < req.pos + count /\ q < size[req.inum] =>
         (q \div BLOCKSIZE) \in Place /\ WordAt(req.inum, q) = req.word
  /\ pc = "reply" => res \in {count, -1}

\* An iteration adds its words to those written.
LEMMA WriteBlockWrites == IInv /\ Written /\ WriteBlock => Written'
<1> SUFFICES ASSUME IInv, Written, WriteBlock PROVE Written'
  OBVIOUS
<1>1. pc = "write" /\ UNCHANGED <<live, size, direct, indirect, block_bitmap, req, next>>
  BY DEF WriteBlock, inodes
<1>2. /\ req.inum \in live /\ req.pos \in Nat /\ count \in Nat /\ cursor \in Nat
      /\ cursor = req.pos + count /\ write_count \in Nat /\ write_count > 0
  BY <1>1, WriteBlockPlaces DEF IInv, TypeOK, cursor
<1>3. CASE pc' = "reply" /\ res' = -1 /\ UNCHANGED <<data, count>>
  <2>1. \A q : WordAt(req.inum, q)' = WordAt(req.inum, q)
    BY <1>1, <1>3 DEF WordAt, BlockAt
  <2> QED
    BY <1>1, <1>3, <2>1 DEF Written
<1>4. CASE /\ (cursor \div BLOCKSIZE) \in Place
           /\ count' = count + write_count
           /\ UNCHANGED <<pc, res>>
  <2>1. ASSUME NEW q \in Nat, req.pos <= q, q < req.pos + count', q < size[req.inum]
        PROVE  (q \div BLOCKSIZE) \in Place /\ WordAt(req.inum, q)' = req.word
    <3> DEFINE wrote(i) == IF i = req.inum /\ q \in cursor .. cursor + write_count - 1
                           THEN req.word ELSE WordAt(i, q)
    <3>1. (q \div BLOCKSIZE) \in Place => WordAt(req.inum, q)' = wrote(req.inum)
      <4>1. count' # count
        BY <1>2, <1>4
      <4>2. PICK i \in live : i = req.inum
        BY <1>2
      <4>3. (q \div BLOCKSIZE) \in Place => WordAt(i, q)' = wrote(i)
        BY <1>4, <2>1, <4>1, <4>2, WriteBlockWords
      <4>4. WordAt(req.inum, q)' = WordAt(i, q)'
        BY <1>1, <4>2 DEF WordAt, BlockAt
      <4> QED
        BY <4>2, <4>3, <4>4
    <3>2. CASE q < cursor
      <4>1. (q \div BLOCKSIZE) \in Place /\ WordAt(req.inum, q) = req.word
        BY <1>1, <1>2, <2>1, <3>2 DEF Written
      <4> QED
        BY <1>2, <3>1, <3>2, <4>1
    <3>3. CASE cursor <= q
      <4>1. q \in cursor .. cursor + write_count - 1
        BY <1>2, <1>4, <2>1, <3>3
      <4>2. (q \div BLOCKSIZE) \in Place
        BY <1>4, <4>1, OnePlace
      <4> QED
        BY <3>1, <4>1, <4>2
    <3> QED
      BY <1>2, <3>2, <3>3
  <2> QED
    BY <1>1, <1>4, <2>1 DEF Written
<1> QED
  BY <1>3, <1>4, WriteBlockPlaces

\* The other steps write nothing while something counts as written.
LEMMA WrittenKeeps == IInv /\ Written /\ [Serve]_vars => Written'
<1> SUFFICES ASSUME IInv, Written, [Serve]_vars PROVE Written'
  OBVIOUS
<1>1. CASE CreateInode \/ \E i \in Inode : FreeInode(i)
  BY <1>1 DEF CreateInode, FreeInode, request, Written
<1>2. CASE \E i \in Inode, n \in 0 .. MAXLEN, w \in Word :
             \E p \in 0 .. MAXEND - n : WriteHandler(i, p, n, w)
  <2>1. PICK i \in Inode, n \in 0 .. MAXLEN, w \in Word :
               \E p \in 0 .. MAXEND - n : WriteHandler(i, p, n, w)
    BY <1>2
  <2>2. PICK p \in 0 .. MAXEND - n : WriteHandler(i, p, n, w)
    BY <2>1
  <2>3. p \in Nat /\ pc' # "reply" /\ count' = 0 /\ req'.pos = p
    BY <2>2 DEF WriteHandler, Written
  <2> QED
    BY <2>3 DEF Written
<1>3. CASE Extend
  <2>1. count' = 0 /\ pc' # "reply" /\ req' = req /\ req.pos \in Nat
    BY <1>3 DEF Extend, AllocDirect, AllocIndirect, HasIndirect, AllocEntry, ExtendFails,
       Growing, ExtendDone, request, Written, IInv, TypeOK
  <2> QED
    BY <2>1 DEF Written
<1>4. CASE WriteBlock
  BY <1>4, WriteBlockWrites
<1>5. CASE WriteDone
  <2>1. \A q : WordAt(req.inum, q)' = WordAt(req.inum, q)
    BY <1>5 DEF WriteDone, inodes, WordAt, BlockAt
  <2> QED
    BY <1>5, <2>1 DEF WriteDone, inodes, Written
<1>6. CASE Reply
  BY <1>6 DEF Reply, Written
<1>7. CASE UNCHANGED vars
  <2>1. \A q : WordAt(req.inum, q)' = WordAt(req.inum, q)
    BY <1>7 DEF vars, WordAt, BlockAt
  <2> QED
    BY <1>7, <2>1 DEF vars, Written
<1> QED
  BY <1>1, <1>2, <1>3, <1>4, <1>5, <1>6, <1>7 DEF Serve, Request, Progress

\* What WriteHandler reports as written ReadHandler returns, as far as the file
\* goes.
THEOREM WritesAreRead == ServeSpec => []WrittenIsRead
<1>1. Init => Written
  BY DEF Init, Idle, Written
<1>2. IInv /\ Written /\ [Serve]_vars => Written'
  BY WrittenKeeps
<1>3. IInv /\ Written => WrittenIsRead
  <2> SUFFICES ASSUME IInv, Written, pc = "reply", res >= 0
               PROVE  LET r == Read(req.inum, req.pos, res)
                      IN  \A k \in DOMAIN r : r[k] = req.word
    BY DEF WrittenIsRead
  <2>1. /\ req.inum \in live /\ size[req.inum] \in Nat /\ req.pos \in Nat
        /\ count \in Nat /\ res = count
    BY DEF IInv, TypeOK, Written
  <2>2. SUFFICES ASSUME NEW k \in 0 .. ReadLen(req.inum, req.pos, res) - 1
                 PROVE  WordAt(req.inum, req.pos + k) = req.word
    BY DEF Read
  <2>3. k \in Nat /\ k < res /\ req.pos + k < size[req.inum]
    BY <2>1 DEF ReadLen
  <2> QED
    BY <2>1, <2>3 DEF Written
<1> QED
  BY <1>1, <1>2, <1>3, Invariance, PTL DEF ServeSpec

-----------------------------------------------------------------------------
(* The block layer implements YfsFiles, for files no larger than the       *)
(* places a file has.                                                      *)

Capacity == (NUM_DIRECT + BLOCKSIZE) * BLOCKSIZE

\* Sizes and requests stay within a bound, extend never shrinks a file.
Fits(c) ==
  /\ \A i \in live : size[i] <= c
  /\ pc # "ready" => newsize <= c /\ req.word \in Word
  /\ pc \in {"extend", "entries"} => size[req.inum] <= newsize

\* Every word of a file has a place.
LEMMA PlaceThere ==
  ASSUME NEW n \in Nat, n <= Capacity, NEW q \in Nat, q < n
  PROVE  (q \div BLOCKSIZE) \in Place /\ (q % BLOCKSIZE) \in Offset
         /\ Holds(q \div BLOCKSIZE, n)
<1> DEFINE k == q \div BLOCKSIZE
           m == NUM_DIRECT + BLOCKSIZE
<1>1. BLOCKSIZE \in Nat /\ NUM_DIRECT \in Nat /\ m \in Nat
  BY FileAssumption
<1>2. k \in Nat /\ (q % BLOCKSIZE) \in Offset /\ Holds(k, n)
  BY DivMod, PositionHeld
<1> HIDE DEF k
<1>3. k < m
  <2>1. SUFFICES ASSUME m <= k PROVE FALSE
    BY <1>1, <1>2
  <2>2. m * BLOCKSIZE <= k * BLOCKSIZE
    BY <1>1, <1>2, <2>1, TimesMonotone
  <2>3. k * BLOCKSIZE \in Nat /\ m * BLOCKSIZE \in Nat
    BY <1>1, <1>2
  <2> QED
    BY <1>2, <2>2, <2>3 DEF Holds, Capacity
<1>4. k \in Place
  BY <1>1, <1>2, <1>3 DEF Place
<1> QED
  BY <1>2, <1>4 DEF k

\* A request that extends a file makes it longer.
LEMMA ExtendsLonger ==
  ASSUME NEW n \in Nat, NEW m \in Nat, m > BLOCKSIZE * ((n \div BLOCKSIZE) + 1)
  PROVE  n <= m
<1> DEFINE q == n \div BLOCKSIZE
<1>1. BLOCKSIZE \in Nat /\ q \in Nat /\ (n % BLOCKSIZE) \in Nat /\ (n % BLOCKSIZE) < BLOCKSIZE
      /\ n = q * BLOCKSIZE + (n % BLOCKSIZE)
  BY DivMod, FileAssumption DEF Offset
<1>2. BLOCKSIZE * (q + 1) = q * BLOCKSIZE + BLOCKSIZE /\ q * BLOCKSIZE \in Nat
  BY <1>1
<1> HIDE DEF q
<1> QED
  BY <1>1, <1>2 DEF q

\* Initially and after every step sizes fit, when the requests do.
LEMMA FitsInvariant ==
  ASSUME NEW c \in Nat, MAXEND <= c, ROOTSIZE <= c
  PROVE  /\ Init => Fits(c)
         /\ IInv /\ Fits(c) /\ [Next]_vars => Fits(c)'
<1>2. Init => Fits(c)
  BY Layout DEF Init, Idle, Fits
<1>3. ASSUME IInv, Fits(c), [Next]_vars PROVE Fits(c)'
  <2>1. CASE CreateInode
    BY <1>3, <2>1 DEF CreateInode, request, Fits, IInv, TypeOK
  <2>2. CASE \E i \in Inode : FreeInode(i)
    BY <1>3, <2>2 DEF FreeInode, request, Fits, IInv, TypeOK
  <2>3. CASE \E i \in Inode, n \in 0 .. MAXLEN, w \in Word :
               \E p \in 0 .. MAXEND - n : WriteHandler(i, p, n, w)
    <3>1. PICK i \in Inode, n \in 0 .. MAXLEN, w \in Word :
                 \E p \in 0 .. MAXEND - n : WriteHandler(i, p, n, w)
      BY <2>3
    <3>2. PICK p \in 0 .. MAXEND - n : WriteHandler(i, p, n, w)
      BY <3>1
    <3>3. /\ live' = live /\ size' = size /\ newsize' = p + n /\ req'.word = w
          /\ req'.inum = i
          /\ pc' = "extend" => p + n > BLOCKSIZE * ((size[i] \div BLOCKSIZE) + 1)
          /\ pc' \in {"extend", "write"}
      BY <3>2 DEF WriteHandler, inodes, newsize
    <3>4. p + n \in Nat /\ p + n <= c /\ size[i] \in Nat
      BY <1>3, FileAssumption DEF IInv, TypeOK
    <3>5. pc' = "extend" => size[i] <= p + n
      BY <3>3, <3>4, ExtendsLonger
    <3> QED
      BY <1>3, <3>3, <3>4, <3>5 DEF Fits
  <2>4. CASE AllocDirect \/ AllocIndirect \/ HasIndirect \/ AllocEntry \/ ExtendFails
    BY <1>3, <2>4 DEF AllocDirect, AllocIndirect, HasIndirect, AllocEntry, ExtendFails,
       Growing, inodes, request, newsize, Fits
  <2>5. CASE ExtendDone
    BY <1>3, <2>5 DEF ExtendDone, request, newsize, Fits, IInv, TypeOK
  <2>6. CASE WriteBlock
    BY <1>3, <2>6 DEF WriteBlock, inodes, newsize, Fits
  <2>7. CASE WriteDone \/ Reply
    BY <1>3, <2>7 DEF WriteDone, Reply, inodes, newsize, Fits
  <2>8. CASE UNCHANGED vars
    BY <1>3, <2>8 DEF vars, newsize, Fits
  <2>9. CASE Restart
    BY <1>3, <2>9 DEF Restart, inodes, request, newsize, Fits
  <2> QED
    BY <1>3, <2>1, <2>2, <2>3, <2>4, <2>5, <2>6, <2>7, <2>8, <2>9 DEF Next, Serve, Request, Progress, Extend
<1> QED
  BY <1>2, <1>3

\* A block of words fits, in a file of direct blocks and in any file.
LEMMA Capacities ==
  /\ Capacity \in Nat /\ ROOTSIZE <= Capacity
  /\ NUM_DIRECT * BLOCKSIZE \in Nat /\ ROOTSIZE <= NUM_DIRECT * BLOCKSIZE
<1>1. /\ BLOCKSIZE \in Nat /\ NUM_DIRECT \in Nat /\ 1 <= NUM_DIRECT
      /\ NUM_DIRECT + BLOCKSIZE \in Nat /\ 1 <= NUM_DIRECT + BLOCKSIZE
      /\ ROOTSIZE \in Nat /\ ROOTSIZE <= BLOCKSIZE
  BY FileAssumption
<1>2. /\ 1 * BLOCKSIZE <= (NUM_DIRECT + BLOCKSIZE) * BLOCKSIZE
      /\ 1 * BLOCKSIZE <= NUM_DIRECT * BLOCKSIZE
  BY <1>1, TimesMonotone
<1>3. (NUM_DIRECT + BLOCKSIZE) * BLOCKSIZE \in Nat /\ NUM_DIRECT * BLOCKSIZE \in Nat
  BY <1>1
<1> QED
  BY <1>1, <1>2, <1>3 DEF Capacity

\* The abstract words stay when no word of a file changes.
LEMMA WordsSame ==
  ASSUME TypeOK, UNCHANGED <<live, size>>,
         \A i \in live : \A q \in Nat : q < size[i] => WordAt(i, q)' = WordAt(i, q)
  PROVE  UNCHANGED <<live, fileWords>>
<1>1. \A i \in live : \A q \in 0 .. size[i] - 1 : WordAt(i, q)' = WordAt(i, q)
  BY DEF TypeOK
<1> QED
  BY <1>1 DEF fileWords

\* extend changes no word that the size covers.
LEMMA ExtendKeepsWords ==
  ASSUME IInv, Fits(Capacity), AllocDirect \/ AllocIndirect \/ AllocEntry
  PROVE  UNCHANGED <<live, fileWords>>
<1>1. /\ pc \in {"extend", "entries"} /\ pc' \in {"extend", "entries"}
      /\ UNCHANGED <<live, size, req>> /\ next \in Nat
  BY DEF AllocDirect, AllocIndirect, AllocEntry, inodes, request, IInv, TypeOK
<1>2. ASSUME NEW i \in live, NEW q \in Nat, q < size[i]
      PROVE  WordAt(i, q)' = WordAt(i, q)
  <2> DEFINE k == q \div BLOCKSIZE
             o == q % BLOCKSIZE
  <2>1. k \in Place /\ k \in Nat /\ o \in Offset /\ Holds(k, size[i])
    BY <1>2, PlaceThere, Layout DEF IInv, TypeOK, Fits
  <2>2. WordAt(i, q) = data[BlockAt(i, k)][o] /\ WordAt(i, q)' = data'[BlockAt(i, k)'][o]
    BY DEF WordAt
  <2> HIDE DEF k, o
  <2>3. Reach(i, k) /\ Reach(i, k)' /\ (i = req.inum => k < next)
    BY <1>1, <2>1 DEF Reach, IInv, Control
  <2>4. BlockAt(i, k) \in DataBlock /\ BlockAt(i, k) \in block_bitmap
    BY <2>1, <2>3 DEF IInv, Marked
  <2>5. ~ (i = req.inum /\ k = next)
    BY <1>1, <2>1, <2>3
  <2>6. CASE AllocDirect
    <3>1. PICK b \in DataBlock \ block_bitmap :
            /\ data' = [data EXCEPT ![b] = [x \in Offset |-> 0]]
            /\ BlockAt(i, k)' = BlockAt(i, k)
      BY <2>1, <2>3, <2>5, <2>6, AllocDirectPlaces
    <3>2. data'[BlockAt(i, k)] = data[BlockAt(i, k)]
      BY <2>4, <3>1 DEF IInv, TypeOK
    <3> QED
      BY <2>2, <3>1, <3>2
  <2>7. CASE AllocIndirect
    <3>1. data' = data /\ direct' = direct /\ next = NUM_DIRECT
          /\ \E b \in Block : indirect' = [indirect EXCEPT ![req.inum] = b]
      BY <2>7 DEF AllocIndirect
    <3>2. BlockAt(i, k)' = BlockAt(i, k)
      <4>1. CASE i = req.inum
        BY <2>3, <3>1, <4>1 DEF BlockAt
      <4>2. CASE i # req.inum
        BY <3>1, <4>2 DEF BlockAt, IInv, TypeOK
      <4> QED
        BY <4>1, <4>2
    <3> QED
      BY <2>2, <3>1, <3>2
  <2>8. CASE AllocEntry
    <3>1. PICK b \in DataBlock \ block_bitmap :
            /\ data' = [data EXCEPT ![indirect[req.inum]][next - NUM_DIRECT] = b]
            /\ BlockAt(i, k)' = BlockAt(i, k)
      BY <2>1, <2>3, <2>5, <2>8, AllocEntryPlaces
    <3>2. HasTable(req.inum) /\ req.inum \in live
      BY <2>8 DEF AllocEntry, HasTable, IInv, TypeOK
    <3>3. BlockAt(i, k) # indirect[req.inum]
      BY <2>1, <2>3, <3>2 DEF IInv, Apart
    <3>4. data'[BlockAt(i, k)] = data[BlockAt(i, k)]
      BY <2>4, <3>1, <3>3 DEF IInv, TypeOK
    <3> QED
      BY <2>2, <3>1, <3>4
  <2> QED
    BY <2>6, <2>7, <2>8
<1> QED
  BY <1>1, <1>2, WordsSame DEF IInv

\* A request that begins, ends or gives up changes no word.
LEMMA ControlKeepsWords ==
  ASSUME IInv, UNCHANGED <<live, size, direct, indirect, data>>
  PROVE  UNCHANGED <<live, fileWords>>
<1>1. \A i, q : WordAt(i, q)' = WordAt(i, q)
  BY DEF WordAt, BlockAt
<1> QED
  BY <1>1, WordsSame DEF IInv

\* A new inode is an empty file.
LEMMA CreateInodeCreates ==
  ASSUME IInv, CreateInode
  PROVE  \E i \in Inode : Files!Create(i)
<1>1. PICK i \in Inode \ inode_bitmap :
        live' = live \union {i} /\ size' = [size EXCEPT ![i] = 0]
  BY DEF CreateInode
<1>2. UNCHANGED <<direct, indirect, data>>
  BY DEF CreateInode
<1>3. i \notin live
  BY DEF IInv, TypeOK
<1>4. fileWords[i] = Files!Empty
  BY <1>1, <1>3 DEF fileWords, Files!Empty
<1>5. fileWords' = fileWords
  <2>1. \A j, q : WordAt(j, q)' = WordAt(j, q)
    BY <1>2 DEF WordAt, BlockAt
  <2>2. ASSUME NEW j \in Inode PROVE fileWords'[j] = fileWords[j]
    <3>1. CASE j = i
      <4>1. size'[j] = 0 /\ j \in live'
        BY <1>1, <3>1 DEF IInv, TypeOK
      <4>2. 0 .. size'[j] - 1 = {}
        BY <4>1
      <4>3. fileWords'[j] = [p \in {} |-> WordAt(j, p)']
        BY <2>2, <4>1, <4>2 DEF fileWords
      <4> QED
        BY <1>4, <3>1, <4>3 DEF Files!Empty
    <3>2. CASE j # i
      BY <1>1, <2>1, <2>2, <3>2 DEF fileWords, IInv, TypeOK
    <3> QED
      BY <3>1, <3>2
  <2> QED
    BY <2>2 DEF fileWords
<1> QED
  BY <1>1, <1>3, <1>4, <1>5 DEF Files!Create

\* A freed inode is no file any more.
LEMMA FreeInodeRemoves ==
  ASSUME IInv, NEW i \in Inode, FreeInode(i)
  PROVE  Files!Remove(i)
<1>1. /\ live' = live \ {i}
      /\ size' = [size EXCEPT ![i] = 0]
      /\ direct' = [direct EXCEPT ![i] = [k \in Direct |-> 0]]
      /\ indirect' = [indirect EXCEPT ![i] = 0]
      /\ data' = data
  BY DEF FreeInode
<1>2. ASSUME NEW j \in Inode, j # i PROVE fileWords'[j] = fileWords[j]
  <2>1. size'[j] = size[j] /\ direct'[j] = direct[j] /\ indirect'[j] = indirect[j]
        /\ (j \in live' <=> j \in live)
    BY <1>1, <1>2 DEF IInv, TypeOK
  <2>2. \A q : WordAt(j, q)' = WordAt(j, q)
    BY <1>1, <2>1 DEF WordAt, BlockAt
  <2> QED
    BY <1>2, <2>1, <2>2 DEF fileWords
<1>3. fileWords'[i] = Files!Empty
  BY <1>1 DEF fileWords, Files!Empty
<1>4. fileWords' = [fileWords EXCEPT ![i] = Files!Empty]
  BY <1>2, <1>3 DEF fileWords
<1> QED
  BY <1>1, <1>4 DEF Files!Remove

\* extend makes one file longer and keeps its words.
LEMMA ExtendDoneGrows ==
  ASSUME IInv, Fits(Capacity), ExtendDone
  PROVE  \E i \in Inode : Files!Grow(i)
<1>1. /\ pc \in {"extend", "entries"}
      /\ size' = [size EXCEPT ![req.inum] = newsize]
      /\ UNCHANGED <<live, direct, indirect, data>>
  BY DEF ExtendDone
<1>2. PICK i \in live : i = req.inum
  BY <1>1 DEF IInv, TypeOK
<1>3. i \in Inode /\ size[i] \in Nat /\ newsize \in Nat /\ size[i] <= newsize
  BY <1>1, <1>2 DEF IInv, TypeOK, Fits, newsize
<1>4. \A j, q : WordAt(j, q)' = WordAt(j, q)
  BY <1>1 DEF WordAt, BlockAt
<1>5. fileWords[i] = [q \in 0 .. size[i] - 1 |-> WordAt(i, q)]
  BY <1>2, <1>3 DEF fileWords
<1>6. fileWords'[i] = [q \in 0 .. newsize - 1 |-> WordAt(i, q)]
  <2>1. size'[i] = newsize /\ i \in live'
    BY <1>1, <1>2, <1>3 DEF IInv, TypeOK
  <2> QED
    BY <1>3, <1>4, <2>1 DEF fileWords
<1>7. ASSUME NEW j \in Inode \ {i} PROVE fileWords'[j] = fileWords[j]
  <2>1. size'[j] = size[j]
    BY <1>1, <1>2, <1>7 DEF IInv, TypeOK
  <2> QED
    BY <1>1, <1>4, <1>7, <2>1 DEF fileWords
<1>8. /\ DOMAIN fileWords[i] = 0 .. size[i] - 1
      /\ DOMAIN fileWords'[i] = 0 .. newsize - 1
  BY <1>5, <1>6
<1>9. DOMAIN fileWords[i] \subseteq DOMAIN fileWords'[i]
  BY <1>3, <1>8
<1>10. \A q \in DOMAIN fileWords[i] : fileWords'[i][q] = fileWords[i][q]
  BY <1>5, <1>6, <1>8, <1>9
<1>11. Files!Grow(i)
  BY <1>1, <1>2, <1>7, <1>9, <1>10 DEF Files!Grow, Files!OnlyThis
<1> QED
  BY <1>3, <1>11

\* An iteration of WriteHandler's loop fills a run of words of one file.
LEMMA WriteBlockStores ==
  ASSUME IInv, Fits(Capacity), WriteBlock
  PROVE  \/ \E i \in Inode, w \in Word : Files!Store(i, w)
         \/ UNCHANGED <<live, fileWords>>
<1>1. pc = "write" /\ UNCHANGED <<live, size, direct, indirect, req>>
  BY DEF WriteBlock, inodes
<1>2. CASE UNCHANGED <<data, count>>
  BY <1>1, <1>2, ControlKeepsWords
<1>3. CASE (cursor \div BLOCKSIZE) \in Place /\ count' = count + write_count
  <2>1. PICK i \in live : i = req.inum
    BY <1>1 DEF IInv, TypeOK
  <2>2. /\ i \in Inode /\ size[i] \in Nat /\ size[i] <= Capacity /\ req.word \in Word
        /\ cursor \in Nat /\ cursor < size[i] /\ write_count \in Nat /\ write_count > 0
        /\ count \in Nat
    BY <1>1, <2>1, WriteBlockPlaces DEF IInv, TypeOK, Fits
  <2>3. count' # count
    BY <1>3, <2>2
  <2> DEFINE end == cursor + write_count - 1
             last == IF end < size[i] THEN end ELSE size[i] - 1
  <2>4. /\ cursor \in 0 .. size[i] - 1 /\ last \in 0 .. size[i] - 1
        /\ \A q \in 0 .. size[i] - 1 : q \in cursor .. end <=> q \in cursor .. last
    BY <2>2
  <2> HIDE DEF last
  <2>5. ASSUME NEW j \in live, NEW q \in 0 .. size[j] - 1
        PROVE  WordAt(j, q)' = IF j = i /\ q \in cursor .. end THEN req.word ELSE WordAt(j, q)
    <3>1. q \in Nat /\ q < size[j] /\ size[j] \in Nat /\ size[j] <= Capacity
      BY <2>5 DEF IInv, TypeOK, Fits
    <3>2. (q \div BLOCKSIZE) \in Place
      BY <3>1, PlaceThere
    <3> QED
      BY <1>3, <2>1, <2>3, <2>5, <3>1, <3>2, WriteBlockWords
  <2>6. fileWords[i] = [q \in 0 .. size[i] - 1 |-> WordAt(i, q)]
    BY <2>1, <2>2 DEF fileWords
  <2>7. fileWords'[i] = [q \in 0 .. size[i] - 1 |->
                           IF q \in cursor .. last THEN req.word ELSE fileWords[i][q]]
    <3>1. fileWords'[i] = [q \in 0 .. size[i] - 1 |-> WordAt(i, q)']
      BY <1>1, <2>1, <2>2 DEF fileWords
    <3>2. \A q \in 0 .. size[i] - 1 :
            WordAt(i, q)' = IF q \in cursor .. last THEN req.word ELSE fileWords[i][q]
      BY <2>1, <2>4, <2>5, <2>6
    <3> QED
      BY <3>1, <3>2
  <2>8. ASSUME NEW j \in Inode, j # i PROVE fileWords'[j] = fileWords[j]
    BY <1>1, <2>5, <2>8 DEF fileWords
  <2>9. DOMAIN fileWords[i] = 0 .. size[i] - 1
    BY <2>6
  <2>10. fileWords' = [fileWords EXCEPT ![i] = [q \in DOMAIN @ |->
                         IF q \in cursor .. last THEN req.word ELSE @[q]]]
    BY <2>2, <2>7, <2>8, <2>9 DEF fileWords
  <2>11. Files!Store(i, req.word)
    <3>1. cursor \in DOMAIN fileWords[i] /\ last \in DOMAIN fileWords[i]
      BY <2>4, <2>9
    <3>2. PICK f \in DOMAIN fileWords[i], l \in DOMAIN fileWords[i] : f = cursor /\ l = last
      BY <3>1
    <3>3. fileWords' = [fileWords EXCEPT ![i] = [q \in DOMAIN @ |->
                          IF q \in f .. l THEN req.word ELSE @[q]]]
      BY <2>10, <3>2
    <3> QED
      BY <1>1, <3>3, Zenon DEF Files!Store
  <2> QED
    BY <2>2, <2>11
<1> QED
  BY <1>2, <1>3, WriteBlockPlaces

\* Every step of the block layer is a step of the files it stands for, or none.
LEMMA StepRefines == IInv /\ Fits(Capacity) /\ [Serve]_vars => [Files!Next]_(Files!vars)
<1> SUFFICES ASSUME IInv, Fits(Capacity), [Serve]_vars
             PROVE  Files!Next \/ UNCHANGED <<live, fileWords>>
  BY DEF Files!vars
<1>1. CASE CreateInode
  BY <1>1, CreateInodeCreates DEF Files!Next
<1>2. CASE \E i \in Inode : FreeInode(i)
  BY <1>2, FreeInodeRemoves DEF Files!Next
<1>3. CASE \/ \E i \in Inode, n \in 0 .. MAXLEN, w \in Word :
                \E p \in 0 .. MAXEND - n : WriteHandler(i, p, n, w)
           \/ HasIndirect \/ ExtendFails \/ WriteDone \/ Reply \/ UNCHANGED vars
  <2>1. UNCHANGED <<live, size, direct, indirect, data>>
    BY <1>3 DEF WriteHandler, HasIndirect, ExtendFails, WriteDone, Reply, inodes, vars
  <2> QED
    BY <2>1, ControlKeepsWords
<1>4. CASE AllocDirect \/ AllocIndirect \/ AllocEntry
  BY <1>4, ExtendKeepsWords
<1>5. CASE ExtendDone
  BY <1>5, ExtendDoneGrows DEF Files!Next
<1>6. CASE WriteBlock
  BY <1>6, WriteBlockStores DEF Files!Next
<1> QED
  BY <1>1, <1>2, <1>3, <1>4, <1>5, <1>6 DEF Serve, Request, Progress, Extend

\* The block layer implements files of words, as long as no request reaches past
\* the places a file has.
THEOREM FilesAreImplemented ==
  ASSUME MAXEND <= Capacity
  PROVE  ServeSpec => ImplementsFiles
<1>1. Init => Fits(Capacity)
  BY Capacities, FitsInvariant
<1>2. IInv /\ Fits(Capacity) /\ [Serve]_vars => Fits(Capacity)'
  <2>1. [Serve]_vars => [Next]_vars
    BY DEF Next
  <2> QED
    BY <2>1, Capacities, FitsInvariant
<1>3. Init => Files!Init
  BY DEF Files!Init, Files!Empty, fileWords
<1>4. IInv /\ Fits(Capacity) /\ [Serve]_vars => [Files!Next]_(Files!vars)
  BY StepRefines
<1> QED
  BY <1>1, <1>2, <1>3, <1>4, Invariance, PTL DEF ServeSpec, ImplementsFiles, Files!Spec

-----------------------------------------------------------------------------
(* Restarts, for files within their direct blocks.                         *)

\* The scan at boot marks what such files own.
LEMMA RestartKeeps == IInv /\ Fits(NUM_DIRECT * BLOCKSIZE) /\ Restart => IInv'
<1> SUFFICES ASSUME IInv, Fits(NUM_DIRECT * BLOCKSIZE), Restart PROVE IInv'
  OBVIOUS
<1>1. /\ pc = "ready"
      /\ block_bitmap' = InodeBlock \union (DataBlock \intersect UNION {Scanned(i) : i \in live})
      /\ inode_bitmap' = {0} \union live
      /\ UNCHANGED <<live, size, direct, indirect, data, pc, next, req, count, res>>
  BY DEF Restart, inodes, request
<1>2. TypeOK'
  BY <1>1, Layout DEF IInv, TypeOK
<1>3. Control'
  BY <1>1 DEF Control
<1>4. \A i \in live : ~ HasTable(i)
  <2> SUFFICES ASSUME NEW i \in live PROVE ~ Holds(NUM_DIRECT, size[i])
    BY <1>1 DEF HasTable
  <2>1. size[i] \in Nat /\ size[i] <= NUM_DIRECT * BLOCKSIZE /\ NUM_DIRECT * BLOCKSIZE \in Nat
    BY Capacities DEF IInv, TypeOK, Fits
  <2> QED
    BY <2>1 DEF Holds
<1>5. \A i \in live : \A k \in Place : Reach(i, k)' =>
        Reach(i, k) /\ BlockAt(i, k)' = BlockAt(i, k) /\ BlockAt(i, k) \in block_bitmap'
  <2> SUFFICES ASSUME NEW i \in live, NEW k \in Place, Reach(i, k)'
               PROVE  Reach(i, k) /\ BlockAt(i, k)' = BlockAt(i, k)
                      /\ BlockAt(i, k) \in block_bitmap'
    OBVIOUS
  <2>1. Reach(i, k) /\ Holds(k, size[i]) /\ BlockAt(i, k)' = BlockAt(i, k)
    BY <1>1 DEF Reach, Extending, BlockAt
  <2>2. BlockAt(i, k) \in Scanned(i) /\ BlockAt(i, k) \in DataBlock
    BY <2>1 DEF Scanned, IInv, Marked
  <2> QED
    BY <1>1, <2>1, <2>2
<1>6. \A i \in live : ~ HasTable(i)'
  BY <1>1, <1>4 DEF HasTable
<1>7. Marked' /\ Apart'
  BY <1>1, <1>5, <1>6, TakesNothing DEF IInv
<1> QED
  BY <1>2, <1>3, <1>7 DEF IInv

\* Over any number of restarts no block is owned twice and all owned blocks are
\* marked used, as long as no file needs an indirect block.
THEOREM RestartsKeepOwners ==
  ASSUME MAXEND <= NUM_DIRECT * BLOCKSIZE
  PROVE  Spec => [](NoSharedBlock /\ OwnedMarked)
<1> DEFINE Small == Fits(NUM_DIRECT * BLOCKSIZE)
<1>1. Init => IInv /\ Small
  BY InitInv, Capacities, FitsInvariant
<1>2. IInv /\ Small /\ [Next]_vars => IInv' /\ Small'
  <2> SUFFICES ASSUME IInv, Small, [Next]_vars PROVE IInv' /\ Small'
    OBVIOUS
  <2>1. Small'
    BY Capacities, FitsInvariant
  <2>2. CASE Restart
    BY <2>1, <2>2, RestartKeeps
  <2>3. CASE [Serve]_vars
    BY <2>1, <2>3, ServeKeeps
  <2> QED
    BY <2>2, <2>3 DEF Next
<1>3. IInv => NoSharedBlock /\ OwnedMarked
  BY OwnedOnce, OwnedReached DEF OwnedMarked
<1> HIDE DEF Small
<1> QED
  BY <1>1, <1>2, <1>3, PTL DEF Spec

-----------------------------------------------------------------------------
(* Nothing is lost, for files within their direct blocks.                  *)

\* What is marked used is in a file, or has been taken for one by the extend
\* under way.
Kept ==
  \A b \in block_bitmap \ InodeBlock :
    \E i \in live, k \in Direct : Reach(i, k) /\ direct[i][k] = b

\* extend takes no block behind the new size, and no indirect block.
WithinDirect ==
  /\ pc # "entries"
  /\ pc = "extend" => next <= Blocks(newsize)

Small == Fits(NUM_DIRECT * BLOCKSIZE)

KeptInv == Small /\ WithinDirect /\ Kept /\ Room

\* A file that fits its direct blocks has no other place.
LEMMA DirectOnly ==
  ASSUME NEW n \in Nat, n <= NUM_DIRECT * BLOCKSIZE, NEW k \in Nat, Holds(k, n)
  PROVE  k \in Direct
<1>1. BLOCKSIZE \in Nat /\ NUM_DIRECT \in Nat
  BY FileAssumption
<1>2. k < NUM_DIRECT
  <2>1. SUFFICES ASSUME NUM_DIRECT <= k PROVE FALSE
    BY <1>1
  <2>2. NUM_DIRECT * BLOCKSIZE <= k * BLOCKSIZE
    BY <1>1, <2>1, TimesMonotone
  <2>3. NUM_DIRECT * BLOCKSIZE \in Nat /\ k * BLOCKSIZE \in Nat
    BY <1>1
  <2> QED
    BY <2>2, <2>3 DEF Holds
<1> QED
  BY <1>1, <1>2 DEF Direct

\* While the server is not in extend, a file reaches what its size covers.
LEMMA ReachIdle ==
  ASSUME pc \notin {"extend", "entries"}
  PROVE  \A i, k : Reach(i, k) <=> Holds(k, size[i])
BY DEF Reach, Extending

\* A step that changes neither bitmap nor direct blocks and reaches no less.
LEMMA KeptSame ==
  ASSUME Kept, UNCHANGED <<direct, block_bitmap>>,
         \A i \in live, k \in Direct : Reach(i, k) => i \in live' /\ Reach(i, k)'
  PROVE  Kept'
BY DEF Kept

\* A file that is freed gives back every block it has.
LEMMA FreeInodeKeepsAll ==
  ASSUME IInv, KeptInv, NEW i \in Inode, FreeInode(i)
  PROVE  Kept'
<1>1. /\ pc = "ready" /\ pc' = pc /\ live' = live \ {i}
      /\ size' = [size EXCEPT ![i] = 0]
      /\ direct' = [direct EXCEPT ![i] = [k \in Direct |-> 0]]
      /\ block_bitmap' = block_bitmap \ Owned(i)
  BY DEF FreeInode
<1> SUFFICES ASSUME NEW b \in block_bitmap' \ InodeBlock
             PROVE  \E j \in live', k \in Direct : Reach(j, k)' /\ direct'[j][k] = b
  BY DEF Kept
<1>2. PICK j \in live, k \in Direct : Reach(j, k) /\ direct[j][k] = b
  BY <1>1 DEF KeptInv, Kept
<1>3. Holds(k, size[j]) /\ k \in Place /\ BlockAt(j, k) = b /\ j \in Inode
  <2>1. j \in Inode
    BY DEF IInv, TypeOK
  <2>2. k < NUM_DIRECT
    BY FileAssumption DEF Direct
  <2> QED
    BY <1>1, <1>2, <2>1, <2>2, ReachIdle, Layout DEF BlockAt
<1>4. j # i
  BY <1>1, <1>3 DEF Owned, Scanned
<1>5. j \in live' /\ size'[j] = size[j] /\ direct'[j] = direct[j]
  BY <1>1, <1>3, <1>4 DEF IInv, TypeOK
<1>6. Reach(j, k)'
  BY <1>3, <1>5 DEF Reach
<1> QED
  BY <1>2, <1>5, <1>6

\* extend enters each block it takes in the file it is for.
LEMMA AllocDirectKeepsAll ==
  ASSUME IInv, KeptInv, AllocDirect
  PROVE  WithinDirect' /\ Kept'
<1> DEFINE f == req.inum
<1>1. PICK b \in DataBlock \ block_bitmap :
        /\ block_bitmap' = block_bitmap \union {b}
        /\ direct' = [direct EXCEPT ![f][next] = b]
  BY AllocDirectPlaces
<1>2. /\ pc = "extend" /\ pc' = pc /\ next < NUM_DIRECT /\ Holds(next, newsize)
      /\ next' = next + 1 /\ newsize' = newsize
      /\ UNCHANGED <<live, size, req>>
  BY DEF AllocDirect, request, newsize
<1>3. f \in live /\ f \in Inode /\ next \in Nat /\ next \in Direct /\ newsize \in Nat
  BY <1>2, FileAssumption DEF IInv, TypeOK, Direct, newsize
<1>4. WithinDirect'
  <2>1. next < Blocks(newsize) /\ Blocks(newsize) \in Nat
    BY <1>2, <1>3, BlocksCount
  <2>2. Blocks(newsize)' = Blocks(newsize)
    BY <1>2 DEF Blocks
  <2> QED
    BY <1>2, <1>3, <2>1, <2>2 DEF WithinDirect
<1>5. \A j, k : k \in Nat /\ Reach(j, k) => Reach(j, k)'
  BY <1>2, <1>3 DEF Reach, Extending
<1>6. \E j \in live, k \in Direct : Reach(j, k)' /\ direct'[j][k] = b
  <2>1. direct'[f][next] = b
    <3>1. direct \in [Inode -> [Direct -> Block]]
      BY DEF IInv, TypeOK
    <3> QED
      BY <1>1, <1>3, <3>1
  <2>2. \A j, k : j = f /\ k = next => Reach(j, k)'
    BY <1>2, <1>3 DEF Reach, Extending
  <2> QED
    BY <1>3, <2>1, <2>2
<1>7. ASSUME NEW c \in block_bitmap \ InodeBlock
      PROVE  \E j \in live', k \in Direct : Reach(j, k)' /\ direct'[j][k] = c
  <2>1. PICK j \in live, k \in Direct : Reach(j, k) /\ direct[j][k] = c
    BY DEF KeptInv, Kept
  <2>2. k \in Nat /\ j \in Inode
    BY Layout DEF IInv, TypeOK
  <2>3. ~ (j = f /\ k = next)
    BY <1>2, <1>3, <2>1 DEF Reach, IInv, Control
  <2>4. direct'[j][k] = direct[j][k]
    BY <1>1, <1>3, <2>2, <2>3 DEF IInv, TypeOK
  <2> QED
    BY <1>2, <1>5, <2>1, <2>2, <2>4
<1>8. Kept'
  <2> SUFFICES ASSUME NEW c \in block_bitmap' \ InodeBlock
               PROVE  \E j \in live', k \in Direct : Reach(j, k)' /\ direct'[j][k] = c
    BY DEF Kept
  <2>1. CASE c = b
    BY <1>2, <1>6, <2>1
  <2>2. CASE c # b
    BY <1>1, <1>7, <2>2
  <2> QED
    BY <2>1, <2>2
<1> QED
  BY <1>4, <1>8

\* With the room counted, extend does not give up and needs no indirect block.
LEMMA NeverShort ==
  ASSUME IInv, KeptInv
  PROVE  ~ ExtendFails /\ ~ AllocIndirect /\ ~ HasIndirect /\ ~ AllocEntry
<1>1. newsize \in Nat /\ next \in Nat /\ NUM_DIRECT \in Nat
      /\ (pc = "extend" => newsize <= NUM_DIRECT * BLOCKSIZE)
  BY FileAssumption DEF IInv, TypeOK, newsize, KeptInv, Small, Fits
<1>2. pc = "extend" /\ Holds(next, newsize) => next < NUM_DIRECT
  BY <1>1, DirectOnly DEF Direct
<1>3. ~ AllocIndirect /\ ~ HasIndirect /\ ~ AllocEntry
  BY <1>1, <1>2 DEF AllocIndirect, HasIndirect, AllocEntry, KeptInv, WithinDirect
<1>4. ASSUME ExtendFails PROVE FALSE
  <2>1. pc = "extend" /\ Holds(next, newsize) /\ Block \subseteq block_bitmap
    BY <1>4 DEF ExtendFails, Growing, KeptInv, WithinDirect
  <2>2. ValidBlock = 0 /\ ~ TableUncounted
    BY <2>1, NoneFree DEF TableUncounted
  <2>3. Blocks(newsize) \in Nat /\ next < Blocks(newsize)
    BY <1>1, <2>1, BlocksCount
  <2>4. Blocks(newsize) - next + (IF TableCounted THEN 1 ELSE 0) <= 0
    BY <2>1, <2>2 DEF KeptInv, Room
  <2> QED
    BY <1>1, <2>3, <2>4
<1> QED
  BY <1>3, <1>4

\* When extend is done the size covers what it has taken.
LEMMA ExtendDoneKeepsAll ==
  ASSUME IInv, KeptInv, ExtendDone
  PROVE  Kept'
<1> DEFINE f == req.inum
<1>1. /\ pc = "extend" /\ pc' = "write"
      /\ size' = [size EXCEPT ![f] = newsize]
      /\ UNCHANGED <<live, direct, block_bitmap>>
  BY DEF ExtendDone, KeptInv, WithinDirect
<1>2. newsize \in Nat /\ next \in Nat /\ f \in Inode
  BY <1>1 DEF IInv, TypeOK, newsize
<1>3. ASSUME NEW j \in live, NEW k \in Direct, Reach(j, k)
      PROVE  Reach(j, k)'
  <2>1. k \in Nat /\ j \in Inode
    BY Layout DEF IInv, TypeOK
  <2>2. CASE j = f
    <3>1. k < next
      BY <1>1, <1>3, <2>1, <2>2 DEF Reach, Extending, IInv, Control
    <3>2. k < Blocks(newsize)
      BY <1>1, <1>2, <2>1, <3>1, BlocksCount DEF KeptInv, WithinDirect
    <3>3. Holds(k, newsize)
      BY <1>2, <2>1, <3>2, BlocksCount
    <3> QED
      BY <1>1, <1>2, <2>2, <3>3 DEF Reach, IInv, TypeOK
  <2>3. CASE j # f
    BY <1>1, <1>3, <2>1, <2>3 DEF Reach, Extending, IInv, TypeOK
  <2> QED
    BY <2>2, <2>3
<1> QED
  BY <1>1, <1>3, KeptSame DEF KeptInv

\* The scan at boot marks what files have, and that alone.
LEMMA RestartKeepsAll ==
  ASSUME IInv, KeptInv, Restart
  PROVE  Kept'
<1>1. /\ pc = "ready" /\ pc' = pc
      /\ block_bitmap' = InodeBlock \union (DataBlock \intersect UNION {Scanned(i) : i \in live})
      /\ UNCHANGED <<live, size, direct>>
  BY DEF Restart, inodes
<1> SUFFICES ASSUME NEW b \in block_bitmap' \ InodeBlock
             PROVE  \E i \in live', k \in Direct : Reach(i, k)' /\ direct'[i][k] = b
  BY DEF Kept
<1>2. PICK i \in live : b \in Scanned(i)
  BY <1>1
<1>3. PICK k \in Place : Holds(k, size[i]) /\ BlockAt(i, k) = b
  BY <1>2 DEF Scanned
<1>4. size[i] \in Nat /\ size[i] <= NUM_DIRECT * BLOCKSIZE /\ k \in Nat
  BY Layout DEF IInv, TypeOK, KeptInv, Small, Fits
<1>5. k \in Direct
  BY <1>3, <1>4, DirectOnly
<1>6. direct[i][k] = b
  BY <1>3, <1>5, FileAssumption DEF BlockAt, Direct
<1> QED
  BY <1>1, <1>3, <1>5, <1>6 DEF Reach

\* A request starts behind the blocks of its file.
LEMMA WriteHandlerKeepsAll ==
  ASSUME IInv, KeptInv, Small', NEW i \in Inode, NEW p \in Nat, NEW n \in Nat, NEW w \in Int,
         WriteHandler(i, p, n, w)
  PROVE  WithinDirect' /\ Kept'
<1>1. /\ pc = "ready" /\ i \in live /\ pc' \in {"extend", "write"}
      /\ pc' = "extend" => next' = Blocks(size[i])
      /\ newsize' = p + n /\ req'.inum = i
      /\ UNCHANGED <<live, size, direct, block_bitmap>>
  BY DEF WriteHandler, inodes, newsize
<1>2. size[i] \in Nat /\ p + n \in Nat
  BY DEF IInv, TypeOK
<1>3. pc' = "extend" => size[i] <= p + n
  BY <1>1 DEF Small, Fits
<1>4. ASSUME size[i] <= p + n PROVE Blocks(size[i]) <= Blocks(p + n)
  <2>1. Blocks(size[i]) \in Nat /\ Blocks(p + n) \in Nat
    BY <1>2, BlocksCount
  <2>2. SUFFICES ASSUME Blocks(p + n) < Blocks(size[i]) PROVE FALSE
    BY <2>1
  <2>3. Holds(Blocks(p + n), size[i])
    BY <1>2, <2>1, <2>2, BlocksCount
  <2>4. Holds(Blocks(p + n), p + n)
    BY <1>2, <1>4, <2>1, <2>3, FileAssumption DEF Holds
  <2> QED
    BY <1>2, <2>1, <2>4, BlocksCount
<1>5. Blocks(newsize)' = Blocks(p + n)
  BY <1>1 DEF Blocks
<1>6. WithinDirect'
  BY <1>1, <1>3, <1>4, <1>5 DEF WithinDirect
<1>7. \A j, k : Reach(j, k) => Reach(j, k)'
  BY <1>1, ReachIdle DEF Reach
<1> QED
  BY <1>1, <1>6, <1>7, KeptSame DEF KeptInv

\* Each step keeps what is kept.
LEMMA KeptStep ==
  ASSUME MAXEND <= NUM_DIRECT * BLOCKSIZE, IInv, KeptInv, [Next]_vars
  PROVE  KeptInv'
<1>1. Small'
  BY Capacities, FitsInvariant DEF KeptInv, Small
<1>2. Room'
  <2>1. CASE Restart
    BY <2>1 DEF Restart, Room
  <2>2. CASE [Serve]_vars
    BY <2>2, RoomKeeps DEF KeptInv
  <2> QED
    BY <2>1, <2>2 DEF Next
<1>3. WithinDirect' /\ Kept'
  <2>1. CASE CreateInode
    <3>1. PICK i \in Inode \ inode_bitmap :
            live' = live \union {i} /\ size' = [size EXCEPT ![i] = 0]
      BY <2>1 DEF CreateInode
    <3>2. pc = "ready" /\ pc' = pc /\ UNCHANGED <<direct, block_bitmap>>
      BY <2>1 DEF CreateInode
    <3>3. \A j \in live : size'[j] = size[j]
      BY <3>1 DEF IInv, TypeOK
    <3>4. \A j \in live, k \in Direct : Reach(j, k) => j \in live' /\ Reach(j, k)'
      BY <3>1, <3>2, <3>3 DEF Reach, Extending
    <3> QED
      BY <3>2, <3>4, KeptSame DEF KeptInv, WithinDirect
  <2>2. CASE \E i \in Inode : FreeInode(i)
    <3>1. WithinDirect'
      BY <2>2 DEF FreeInode, WithinDirect
    <3> QED
      BY <2>2, <3>1, FreeInodeKeepsAll
  <2>3. CASE \E i \in Inode, n \in 0 .. MAXLEN, w \in Word :
               \E p \in 0 .. MAXEND - n : WriteHandler(i, p, n, w)
    <3>1. PICK i \in Inode, n \in 0 .. MAXLEN, w \in Word :
                 \E p \in 0 .. MAXEND - n : WriteHandler(i, p, n, w)
      BY <2>3
    <3>2. PICK p \in 0 .. MAXEND - n : WriteHandler(i, p, n, w)
      BY <3>1
    <3>3. p \in Nat /\ n \in Nat /\ w \in Int
      BY FileAssumption
    <3> QED
      BY <1>1, <3>2, <3>3, WriteHandlerKeepsAll
  <2>4. CASE AllocDirect
    BY <2>4, AllocDirectKeepsAll
  <2>5. CASE AllocIndirect \/ HasIndirect \/ AllocEntry \/ ExtendFails
    BY <2>5, NeverShort
  <2>6. CASE ExtendDone
    <3>1. WithinDirect'
      BY <2>6 DEF ExtendDone, WithinDirect
    <3> QED
      BY <2>6, <3>1, ExtendDoneKeepsAll
  <2>7. CASE WriteBlock \/ WriteDone \/ Reply
    <3>1. /\ pc \in {"write", "reply"} /\ pc' \in {"write", "reply", "ready"}
          /\ UNCHANGED <<live, size, direct, block_bitmap>>
      BY <2>7 DEF WriteBlock, WriteDone, Reply, inodes
    <3>2. \A j, k : Reach(j, k) => Reach(j, k)'
      BY <3>1, ReachIdle DEF Reach
    <3> QED
      BY <3>1, <3>2, KeptSame DEF KeptInv, WithinDirect
  <2>8. CASE Restart
    <3>1. WithinDirect'
      BY <2>8 DEF Restart, WithinDirect
    <3> QED
      BY <2>8, <3>1, RestartKeepsAll
  <2>9. CASE UNCHANGED vars
    <3>1. Blocks(newsize)' = Blocks(newsize)
      BY <2>9 DEF vars, newsize, Blocks
    <3>2. \A j, k : Reach(j, k) => Reach(j, k)'
      BY <2>9 DEF vars, Reach, Extending
    <3> QED
      BY <2>9, <3>1, <3>2, KeptSame DEF KeptInv, WithinDirect, vars
  <2> QED
    BY <2>1, <2>2, <2>3, <2>4, <2>5, <2>6, <2>7, <2>8, <2>9
       DEF Next, Serve, Request, Progress, Extend
<1> QED
  BY <1>1, <1>2, <1>3 DEF KeptInv

\* Between requests no block is marked used that no file has: what extend takes
\* reaches its file, what free_inode gives back is all of it, over any number of
\* restarts, as long as no file needs an indirect block.
THEOREM NothingLeaks ==
  ASSUME MAXEND <= NUM_DIRECT * BLOCKSIZE
  PROVE  Spec => []NoLeak
<1>1. Init => IInv /\ KeptInv
  <2> SUFFICES ASSUME Init PROVE IInv /\ KeptInv
    OBVIOUS
  <2>1. IInv /\ Small
    BY InitInv, Capacities, FitsInvariant DEF Small
  <2>2. Kept
    <3>1. Holds(0, ROOTSIZE)
      BY FileAssumption DEF Holds
    <3>2. 0 \in Direct /\ ROOTINODE \in live /\ size[ROOTINODE] = ROOTSIZE
          /\ direct[ROOTINODE][0] = RootBlock
      BY Layout DEF Init
    <3> QED
      BY <3>1, <3>2 DEF Init, Kept, Reach
  <2>3. WithinDirect /\ Room
    BY DEF Init, Idle, WithinDirect, Room
  <2> QED
    BY <2>1, <2>2, <2>3 DEF KeptInv
<1>2. IInv /\ KeptInv /\ [Next]_vars => IInv' /\ KeptInv'
  <2> SUFFICES ASSUME IInv, KeptInv, [Next]_vars PROVE IInv' /\ KeptInv'
    OBVIOUS
  <2>1. KeptInv'
    BY KeptStep
  <2>2. CASE Restart
    BY <2>1, <2>2, RestartKeeps DEF KeptInv, Small
  <2>3. CASE [Serve]_vars
    BY <2>1, <2>3, ServeKeeps
  <2> QED
    BY <2>2, <2>3 DEF Next
<1>3. IInv /\ KeptInv => NoLeak
  <2> SUFFICES ASSUME IInv, KeptInv, pc = "ready", NEW b \in block_bitmap \ InodeBlock
               PROVE  \E i \in live : b \in Owned(i)
    BY DEF NoLeak
  <2>1. PICK i \in live, k \in Direct : Reach(i, k) /\ direct[i][k] = b
    BY DEF KeptInv, Kept
  <2>2. k \in Place /\ Holds(k, size[i]) /\ BlockAt(i, k) = b
    BY <2>1, ReachIdle, Layout, FileAssumption DEF BlockAt, Direct
  <2> QED
    BY <2>2 DEF Owned, Scanned
<1> QED
  BY <1>1, <1>2, <1>3, PTL DEF Spec
=============================================================================
