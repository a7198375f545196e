--------------------------- MODULE YfsFileProofs ---------------------------
(***************************************************************************)
(* No block is owned twice and every owned block is marked used, for every *)
(* size of the disk, of blocks and of files.                               *)
(***************************************************************************)
EXTENDS YfsFile, TLAPS

-----------------------------------------------------------------------------
(* The inductive invariant: what holds of the blocks of a file holds of    *)
(* those extend has taken for it too, before the size covers them.         *)

Extending(i) == pc \in {"extend", "entries"} /\ i = req.inum

\* Place k of file i has a block, and file i an indirect block.
Reach(i, k) == Holds(k, size[i]) \/ (Extending(i) /\ k < next)
HasTable(i) == Holds(NUM_DIRECT, size[i]) \/ (pc = "entries" /\ i = req.inum)

Marked ==
  \A i \in live :
    /\ \A k \in Place : Reach(i, k) => BlockAt(i, k) \in DataBlock \intersect block_bitmap
    /\ HasTable(i) => indirect[i] \in DataBlock \intersect block_bitmap

Apart ==
  /\ \A i, j \in live : \A k, l \in Place :
       Reach(i, k) /\ Reach(j, l) /\ BlockAt(i, k) = BlockAt(j, l) => i = j /\ k = l
  /\ \A i, j \in live : HasTable(i) /\ HasTable(j) /\ indirect[i] = indirect[j] => i = j
  /\ \A i, j \in live : \A k \in Place :
       HasTable(i) /\ Reach(j, k) => indirect[i] # BlockAt(j, k)

\* extend starts behind the blocks the size covers, and has an indirect block
\* when it gets past the direct ones.
Control ==
  /\ pc \in {"extend", "entries"} => \A k \in Nat : Holds(k, size[req.inum]) => k < next
  /\ pc = "extend" /\ next > NUM_DIRECT => Holds(NUM_DIRECT, size[req.inum])
  /\ pc = "entries" => NUM_DIRECT <= next

IInv == TypeOK /\ Control /\ Marked /\ Apart

-----------------------------------------------------------------------------
(* Arithmetic of positions and blocks.                                     *)

\* A product grows with its first factor.
LEMMA TimesMonotone ==
  ASSUME NEW a \in Int, NEW b \in Int, NEW c \in Nat, a <= b
  PROVE  a * c <= b * c
<1>1. (b - a) * c >= 0
  OBVIOUS
<1> QED
  BY <1>1

\* Quotient and remainder.
LEMMA DivMod ==
  ASSUME NEW p \in Nat
  PROVE  /\ p \div BLOCKSIZE \in Nat
         /\ (p % BLOCKSIZE) \in Offset
         /\ p = (p \div BLOCKSIZE) * BLOCKSIZE + (p % BLOCKSIZE)
BY FileAssumption DEF Offset

\* The places that hold words of a file are the first ones.
LEMMA HoldsDown ==
  ASSUME NEW k \in Nat, NEW l \in Nat, NEW n \in Nat, k <= l, Holds(l, n)
  PROVE  Holds(k, n)
<1>1. k * BLOCKSIZE <= l * BLOCKSIZE
  BY FileAssumption, TimesMonotone
<1> QED
  BY <1>1, FileAssumption DEF Holds

\* Blocks counts the places that hold words.
LEMMA BlocksCount ==
  ASSUME NEW n \in Nat
  PROVE  /\ Blocks(n) \in Nat
         /\ \A k \in Nat : Holds(k, n) => k < Blocks(n)
         /\ \A k \in Nat : k < Blocks(n) => Holds(k, n)
<1> DEFINE m == n + BLOCKSIZE - 1
           q == m \div BLOCKSIZE
           r == m % BLOCKSIZE
<1>1. m \in Nat /\ BLOCKSIZE \in Nat /\ BLOCKSIZE > 0
  BY FileAssumption
<1>2. q \in Nat /\ r \in Offset /\ m = q * BLOCKSIZE + r
  BY <1>1, DivMod
<1>3. 0 <= r /\ r < BLOCKSIZE
  BY <1>1, <1>2 DEF Offset
<1>4. ASSUME NEW k \in Nat, k * BLOCKSIZE < n
      PROVE  k < q
  <2>1. SUFFICES ASSUME q <= k PROVE FALSE
    BY <1>2
  <2>2. q * BLOCKSIZE <= k * BLOCKSIZE
    BY <1>1, <1>2, <2>1, TimesMonotone
  <2> QED
    BY <1>1, <1>2, <1>3, <1>4, <2>2
<1>5. ASSUME NEW k \in Nat, k < q
      PROVE  k * BLOCKSIZE < n
  <2>1. (k + 1) * BLOCKSIZE <= q * BLOCKSIZE
    BY <1>1, <1>2, <1>5, TimesMonotone
  <2>2. (k + 1) * BLOCKSIZE = k * BLOCKSIZE + BLOCKSIZE /\ k * BLOCKSIZE \in Nat
    BY <1>1
  <2> QED
    BY <1>1, <1>2, <1>3, <2>1, <2>2
<1>6. Blocks(n) = q
  BY DEF Blocks
<1> HIDE DEF q, m, r
<1> QED
  BY <1>2, <1>4, <1>5, <1>6 DEF Holds

\* A position of a file lies in a place that holds words.
LEMMA PositionHeld ==
  ASSUME NEW p \in Nat, NEW n \in Nat, p < n
  PROVE  Holds(p \div BLOCKSIZE, n)
<1>1. (p \div BLOCKSIZE) * BLOCKSIZE <= p
  BY DivMod, FileAssumption DEF Offset
<1> QED
  BY <1>1, DivMod, FileAssumption DEF Holds

\* The root directory's block is a data block; the constants are natural.
LEMMA Layout ==
  /\ NUM_BLOCKS_FOR_INODES \in Nat
  /\ RootBlock \in DataBlock
  /\ DataBlock \subseteq Block /\ InodeBlock \subseteq Block
  /\ DataBlock \intersect InodeBlock = {}
  /\ Block \subseteq DataBlock \union InodeBlock
  /\ ROOTINODE \in Inode /\ Inode \subseteq Nat
  /\ Direct \subseteq Place /\ Place \subseteq Nat /\ 0 \in Direct
  /\ \A k \in Place : k \notin Direct => k - NUM_DIRECT \in Offset
<1>0. /\ NUM_INODES \in Nat /\ NUM_INODES > 1
      /\ INODES_PER_BLOCK \in Nat /\ INODES_PER_BLOCK > 0
      /\ BLOCKSIZE \in Nat /\ BLOCKSIZE > 0
      /\ NUM_DIRECT \in Nat /\ NUM_DIRECT > 0
  BY FileAssumption
<1> DEFINE q == NUM_BLOCKS_FOR_INODES
           t == (NUM_INODES + INODES_PER_BLOCK) \div INODES_PER_BLOCK
<1>1. q \in Nat /\ t \in Nat
  BY <1>0 DEF NUM_BLOCKS_FOR_INODES
<1>2. q <= t
  <2>1. q * INODES_PER_BLOCK <= NUM_INODES + INODES_PER_BLOCK - 1
    BY <1>0 DEF NUM_BLOCKS_FOR_INODES
  <2>2. NUM_INODES + INODES_PER_BLOCK < (t + 1) * INODES_PER_BLOCK
    BY <1>0
  <2>3. SUFFICES ASSUME t + 1 <= q PROVE FALSE
    BY <1>1
  <2>4. (t + 1) * INODES_PER_BLOCK <= q * INODES_PER_BLOCK
    BY <1>0, <1>1, <2>3, TimesMonotone
  <2> HIDE DEF q, t
  <2>5. q * INODES_PER_BLOCK \in Nat /\ (t + 1) * INODES_PER_BLOCK \in Nat
    BY <1>0, <1>1
  <2> QED
    BY <1>0, <2>1, <2>2, <2>4, <2>5
<1>3. RootBlock = t + 1 /\ NUM_BLOCKS > t + 1 /\ NUM_BLOCKS \in Nat
  BY FileAssumption DEF RootBlock
<1>4. DataBlock = q + 1 .. NUM_BLOCKS - 1 /\ InodeBlock = 0 .. q
  BY DEF DataBlock, InodeBlock
<1> HIDE DEF q, t
<1>5. RootBlock \in DataBlock
  BY <1>1, <1>2, <1>3, <1>4
<1>6. /\ DataBlock \subseteq Block /\ InodeBlock \subseteq Block
      /\ DataBlock \intersect InodeBlock = {}
      /\ Block \subseteq DataBlock \union InodeBlock
  BY <1>1, <1>2, <1>3, <1>4 DEF Block
<1>7. ROOTINODE \in Inode /\ Inode \subseteq Nat
  BY <1>0 DEF ROOTINODE, Inode
<1>8. /\ Direct \subseteq Place /\ Place \subseteq Nat /\ 0 \in Direct
      /\ \A k \in Place : k \notin Direct => k - NUM_DIRECT \in Offset
  BY <1>0 DEF Direct, Place, Offset
<1>9. NUM_BLOCKS_FOR_INODES \in Nat
  BY <1>1 DEF q
<1> QED
  BY <1>5, <1>6, <1>7, <1>8, <1>9

\* A block that find_free finds is a data block nobody owns.
LEMMA FreeIsData ==
  ASSUME TypeOK, NEW b \in Block, FirstFree(b)
  PROVE  b \in DataBlock /\ b \notin block_bitmap
BY Layout DEF TypeOK, FirstFree

\* A place behind the direct ones is reached through the indirect block.
LEMMA TableThere ==
  ASSUME TypeOK, Control, NEW i \in live, NEW k \in Place, k \notin Direct, Reach(i, k)
  PROVE  HasTable(i)
<1>1. k \in Nat /\ NUM_DIRECT \in Nat /\ NUM_DIRECT <= k /\ size[i] \in Nat /\ next \in Nat
  BY Layout, FileAssumption DEF Direct, Place, TypeOK
<1>2. CASE Holds(k, size[i])
  BY <1>1, <1>2, HoldsDown DEF HasTable
<1>3. CASE Extending(i) /\ k < next
  BY <1>1, <1>3 DEF Extending, HasTable, Control
<1> QED
  BY <1>2, <1>3 DEF Reach

-----------------------------------------------------------------------------
(* What a step does to the owners: it takes nothing, a block for a place,  *)
(* or an indirect block.                                                   *)

\* Whatever is owned afterwards was owned before, in the same place.
LEMMA TakesNothing ==
  ASSUME Marked, Apart,
         \A i \in live' : \A k \in Place : Reach(i, k)' =>
           i \in live /\ Reach(i, k) /\ BlockAt(i, k)' = BlockAt(i, k)
           /\ BlockAt(i, k) \in block_bitmap',
         \A i \in live' : HasTable(i)' =>
           i \in live /\ HasTable(i) /\ indirect'[i] = indirect[i]
           /\ indirect[i] \in block_bitmap'
  PROVE  Marked' /\ Apart'
<1>1. Marked'
  BY DEF Marked
<1>2. Apart'
  BY DEF Apart
<1> QED
  BY <1>1, <1>2

\* One free block is taken for one place.
LEMMA TakesBlock ==
  ASSUME Marked, Apart, live' = live,
         NEW b \in DataBlock, b \notin block_bitmap, block_bitmap' = block_bitmap \union {b},
         NEW f \in live, NEW p \in Place,
         \A i \in live : \A k \in Place : Reach(i, k)' =>
           \/ i = f /\ k = p /\ BlockAt(i, k)' = b
           \/ Reach(i, k) /\ BlockAt(i, k)' = BlockAt(i, k),
         \A i \in live : HasTable(i)' => HasTable(i) /\ indirect'[i] = indirect[i]
  PROVE  Marked' /\ Apart'
<1>1. Marked'
  BY DEF Marked
<1>2. \A i \in live : \A k \in Place : Reach(i, k) => BlockAt(i, k) # b
  BY DEF Marked
<1>3. \A i \in live : HasTable(i) => indirect[i] # b
  BY DEF Marked
<1>4. \A i, j \in live : \A k, l \in Place :
        Reach(i, k)' /\ Reach(j, l)' /\ BlockAt(i, k)' = BlockAt(j, l)' => i = j /\ k = l
  BY <1>2 DEF Apart
<1>5. \A i, j \in live : HasTable(i)' /\ HasTable(j)' /\ indirect'[i] = indirect'[j] => i = j
  BY DEF Apart
<1>6. \A i, j \in live : \A k \in Place :
        HasTable(i)' /\ Reach(j, k)' => indirect'[i] # BlockAt(j, k)'
  BY <1>3 DEF Apart
<1> QED
  BY <1>1, <1>4, <1>5, <1>6 DEF Apart

\* One free block is taken for an indirect block.
LEMMA TakesTable ==
  ASSUME Marked, Apart, live' = live,
         NEW b \in DataBlock, b \notin block_bitmap, block_bitmap' = block_bitmap \union {b},
         NEW f \in live,
         \A i \in live : \A k \in Place : Reach(i, k)' =>
           Reach(i, k) /\ BlockAt(i, k)' = BlockAt(i, k),
         \A i \in live : HasTable(i)' =>
           \/ i = f /\ indirect'[i] = b
           \/ HasTable(i) /\ indirect'[i] = indirect[i]
  PROVE  Marked' /\ Apart'
<1>1. Marked'
  BY DEF Marked
<1>2. \A i \in live : \A k \in Place : Reach(i, k) => BlockAt(i, k) # b
  BY DEF Marked
<1>3. \A i \in live : HasTable(i) => indirect[i] # b
  BY DEF Marked
<1>4. \A i, j \in live : \A k, l \in Place :
        Reach(i, k)' /\ Reach(j, l)' /\ BlockAt(i, k)' = BlockAt(j, l)' => i = j /\ k = l
  BY DEF Apart
<1>5. \A i, j \in live : HasTable(i)' /\ HasTable(j)' /\ indirect'[i] = indirect'[j] => i = j
  BY <1>3 DEF Apart
<1>6. \A i, j \in live : \A k \in Place :
        HasTable(i)' /\ Reach(j, k)' => indirect'[i] # BlockAt(j, k)'
  BY <1>2 DEF Apart
<1> QED
  BY <1>1, <1>4, <1>5, <1>6 DEF Apart

-----------------------------------------------------------------------------
(* Each action keeps the invariant.                                        *)

\* The blocks of the empty disk.
LEMMA InitInv == Init => IInv
<1> SUFFICES ASSUME Init PROVE IInv
  OBVIOUS
<1> USE DEF Idle
<1>0. /\ BLOCKSIZE \in Nat /\ BLOCKSIZE > 0 /\ ROOTSIZE \in Nat /\ ROOTSIZE <= BLOCKSIZE
      /\ NUM_DIRECT \in Nat /\ NUM_DIRECT > 0
  BY FileAssumption
<1>1. TypeOK
  <2>1. live \subseteq Inode /\ ROOTINODE \in live /\ size \in [Inode -> Nat]
    BY <1>0, Layout DEF Init
  <2>2. direct \in [Inode -> [Direct -> Block]] /\ indirect \in [Inode -> Block]
    <3>1. 0 \in Block /\ RootBlock \in Block
      BY Layout DEF InodeBlock
    <3> QED
      BY <3>1 DEF Init
  <2>3. data \in [DataBlock -> [Offset -> Int]]
    BY DEF Init, ROOTINODE
  <2>4. block_bitmap \subseteq Block /\ InodeBlock \subseteq block_bitmap
    BY Layout DEF Init
  <2>5. /\ inode_bitmap = {0} \union live
        /\ pc \in {"ready", "extend", "entries", "write", "reply"}
        /\ req \in [inum : Inode \union {0}, pos : Nat, len : Nat, word : Int]
        /\ pc # "ready" => req.inum \in live
        /\ next \in Nat /\ count \in Nat /\ res \in Nat \union {-1}
    BY DEF Init, NoRequest
  <2> QED
    BY <2>1, <2>2, <2>3, <2>4, <2>5 DEF TypeOK
<1>2. Control
  BY DEF Init, Control
<1>3. \A i \in live : \A k \in Place :
        Reach(i, k) => i = ROOTINODE /\ k = 0 /\ BlockAt(i, k) = RootBlock
  <2> SUFFICES ASSUME NEW i \in live, NEW k \in Place, Reach(i, k)
               PROVE  i = ROOTINODE /\ k = 0 /\ BlockAt(i, k) = RootBlock
    OBVIOUS
  <2>1. i = ROOTINODE /\ i \in Inode /\ size[i] = ROOTSIZE
    BY Layout DEF Init
  <2>2. k * BLOCKSIZE < ROOTSIZE /\ k \in Nat
    BY <2>1, Layout DEF Init, Reach, Extending, Holds
  <2>3. k = 0
    <3>1. SUFFICES ASSUME 1 <= k PROVE FALSE
      BY <2>2
    <3>2. 1 * BLOCKSIZE <= k * BLOCKSIZE
      BY <1>0, <2>2, <3>1, TimesMonotone
    <3> QED
      BY <1>0, <2>2, <3>2
  <2>4. direct[i][0] = RootBlock
    BY <2>1, Layout DEF Init
  <2> QED
    BY <1>0, <2>1, <2>3, <2>4 DEF BlockAt
<1>4. \A i \in live : ~ HasTable(i)
  <2> SUFFICES ASSUME NEW i \in live PROVE ~ Holds(NUM_DIRECT, size[i])
    BY DEF HasTable, Init
  <2>1. size[i] = ROOTSIZE
    BY Layout DEF Init
  <2>2. 1 * BLOCKSIZE <= NUM_DIRECT * BLOCKSIZE
    BY <1>0, TimesMonotone
  <2> QED
    BY <1>0, <2>1, <2>2 DEF Holds
<1>5. RootBlock \in DataBlock \intersect block_bitmap
  BY Layout DEF Init
<1>6. Marked
  BY <1>3, <1>4, <1>5 DEF Marked
<1>7. Apart
  BY <1>3, <1>4 DEF Apart
<1> QED
  BY <1>1, <1>2, <1>6, <1>7 DEF IInv

\* A new inode owns nothing.
LEMMA CreateInodeKeeps == IInv /\ CreateInode => IInv'
<1> SUFFICES ASSUME IInv, CreateInode PROVE IInv'
  OBVIOUS
<1>1. PICK i \in Inode \ inode_bitmap :
        /\ live' = live \union {i}
        /\ size' = [size EXCEPT ![i] = 0]
        /\ inode_bitmap' = inode_bitmap \union {i}
  BY DEF CreateInode
<1>2. /\ pc = "ready" /\ pc' = pc
      /\ UNCHANGED <<direct, indirect, data, block_bitmap, next, req, count, res>>
  BY DEF CreateInode, request
<1>3. TypeOK'
  BY <1>1, <1>2 DEF IInv, TypeOK
<1>4. Control'
  BY <1>2 DEF Control
<1>5. \A k \in Nat : ~ Holds(k, 0)
  BY FileAssumption DEF Holds
<1>6. NUM_DIRECT \in Nat /\ Place \subseteq Nat
  BY FileAssumption, Layout
<1>7. \A j \in live' : \A k \in Place : Reach(j, k)' =>
        j \in live /\ Reach(j, k) /\ BlockAt(j, k)' = BlockAt(j, k) /\ BlockAt(j, k) \in block_bitmap'
  <2> SUFFICES ASSUME NEW j \in live', NEW k \in Place, Reach(j, k)'
               PROVE  j \in live /\ Reach(j, k) /\ BlockAt(j, k)' = BlockAt(j, k)
                      /\ BlockAt(j, k) \in block_bitmap'
    OBVIOUS
  <2>1. Holds(k, size'[j]) /\ k \in Nat
    BY <1>2, <1>6 DEF Reach, Extending
  <2>2. j # i /\ j \in live /\ size'[j] = size[j]
    BY <1>1, <1>5, <2>1 DEF IInv, TypeOK
  <2>3. Reach(j, k) /\ BlockAt(j, k)' = BlockAt(j, k)
    BY <1>2, <2>1, <2>2 DEF Reach, BlockAt
  <2> QED
    BY <1>2, <2>2, <2>3 DEF IInv, Marked
<1>8. \A j \in live' : HasTable(j)' =>
        j \in live /\ HasTable(j) /\ indirect'[j] = indirect[j] /\ indirect[j] \in block_bitmap'
  <2> SUFFICES ASSUME NEW j \in live', HasTable(j)'
               PROVE  j \in live /\ HasTable(j) /\ indirect'[j] = indirect[j]
                      /\ indirect[j] \in block_bitmap'
    OBVIOUS
  <2>1. Holds(NUM_DIRECT, size'[j])
    BY <1>2 DEF HasTable
  <2>2. j # i /\ j \in live /\ size'[j] = size[j]
    BY <1>1, <1>5, <1>6, <2>1 DEF IInv, TypeOK
  <2> QED
    BY <1>2, <2>1, <2>2 DEF IInv, HasTable, Marked
<1>9. Marked' /\ Apart'
  BY <1>7, <1>8, TakesNothing DEF IInv
<1> QED
  BY <1>3, <1>4, <1>9 DEF IInv

\* What a freed file owned is nobody else's.
LEMMA FreeInodeKeeps == ASSUME NEW i \in Inode PROVE IInv /\ FreeInode(i) => IInv'
<1> SUFFICES ASSUME IInv, FreeInode(i) PROVE IInv'
  OBVIOUS
<1>1. /\ pc = "ready" /\ i \in live /\ i # ROOTINODE
      /\ live' = live \ {i}
      /\ size' = [size EXCEPT ![i] = 0]
      /\ direct' = [direct EXCEPT ![i] = [k \in Direct |-> 0]]
      /\ indirect' = [indirect EXCEPT ![i] = 0]
      /\ inode_bitmap' = inode_bitmap \ {i}
      /\ block_bitmap' = block_bitmap \ Owned(i)
      /\ Owned(i) \subseteq DataBlock
      /\ UNCHANGED <<data, pc, next, req, count, res>>
  BY DEF FreeInode, request
<1>2. TypeOK'
  <2>1. 0 \in Block
    BY Layout DEF InodeBlock
  <2>2. /\ size' \in [Inode -> Nat] /\ direct' \in [Inode -> [Direct -> Block]]
        /\ indirect' \in [Inode -> Block]
    BY <1>1, <2>1 DEF IInv, TypeOK
  <2>3. block_bitmap' \subseteq Block /\ InodeBlock \subseteq block_bitmap'
    BY <1>1, Layout DEF IInv, TypeOK
  <2>4. inode_bitmap' = {0} \union live'
    BY <1>1, Layout DEF IInv, TypeOK, Inode
  <2> QED
    BY <1>1, <2>2, <2>3, <2>4 DEF IInv, TypeOK
<1>3. Control'
  BY <1>1 DEF Control
<1>4. NUM_DIRECT \in Nat /\ Place \subseteq Nat
  BY FileAssumption, Layout
<1>5. \A j \in live' : \A k \in Place : Reach(j, k)' =>
        j \in live /\ Reach(j, k) /\ BlockAt(j, k)' = BlockAt(j, k) /\ BlockAt(j, k) \in block_bitmap'
  <2> SUFFICES ASSUME NEW j \in live', NEW k \in Place, Reach(j, k)'
               PROVE  j \in live /\ Reach(j, k) /\ BlockAt(j, k)' = BlockAt(j, k)
                      /\ BlockAt(j, k) \in block_bitmap'
    OBVIOUS
  <2>1. /\ j \in live /\ j # i /\ j \in Inode
        /\ size'[j] = size[j] /\ direct'[j] = direct[j] /\ indirect'[j] = indirect[j]
    BY <1>1 DEF IInv, TypeOK
  <2>2. Reach(j, k) /\ BlockAt(j, k)' = BlockAt(j, k)
    BY <1>1, <2>1 DEF Reach, Extending, BlockAt
  <2>3. BlockAt(j, k) \notin Owned(i)
    <3>1. BlockAt(j, k) \notin Scanned(i)
      BY <1>1, <2>1, <2>2 DEF IInv, Apart, Scanned, Reach
    <3>2. Holds(NUM_DIRECT, size[i]) => BlockAt(j, k) # indirect[i]
      BY <1>1, <2>1, <2>2 DEF IInv, Apart, HasTable
    <3> QED
      BY <3>1, <3>2 DEF Owned
  <2> QED
    BY <1>1, <2>1, <2>2, <2>3 DEF IInv, Marked
<1>6. \A j \in live' : HasTable(j)' =>
        j \in live /\ HasTable(j) /\ indirect'[j] = indirect[j] /\ indirect[j] \in block_bitmap'
  <2> SUFFICES ASSUME NEW j \in live', HasTable(j)'
               PROVE  j \in live /\ HasTable(j) /\ indirect'[j] = indirect[j]
                      /\ indirect[j] \in block_bitmap'
    OBVIOUS
  <2>1. /\ j \in live /\ j # i /\ j \in Inode
        /\ size'[j] = size[j] /\ indirect'[j] = indirect[j]
    BY <1>1 DEF IInv, TypeOK
  <2>2. HasTable(j)
    BY <1>1, <2>1 DEF HasTable
  <2>3. indirect[j] \notin Owned(i)
    <3>1. indirect[j] \notin Scanned(i)
      BY <1>1, <2>1, <2>2 DEF IInv, Apart, Scanned, Reach
    <3>2. Holds(NUM_DIRECT, size[i]) => indirect[j] # indirect[i]
      BY <1>1, <2>1, <2>2 DEF IInv, Apart, HasTable
    <3> QED
      BY <3>1, <3>2 DEF Owned
  <2> QED
    BY <1>1, <2>1, <2>2, <2>3 DEF IInv, Marked
<1>7. Marked' /\ Apart'
  BY <1>5, <1>6, TakesNothing DEF IInv
<1> QED
  BY <1>2, <1>3, <1>7 DEF IInv

\* A step that changes neither the inodes nor the blocks, and reaches no more.
LEMMA SameOwners ==
  ASSUME Marked, Apart,
         UNCHANGED <<live, size, direct, indirect, data, block_bitmap>>,
         \A i \in live : \A k \in Place : Reach(i, k)' => Reach(i, k),
         \A i \in live : HasTable(i)' => HasTable(i)
  PROVE  Marked' /\ Apart'
<1>1. \A i \in live' : \A k \in Place : Reach(i, k)' =>
        i \in live /\ Reach(i, k) /\ BlockAt(i, k)' = BlockAt(i, k)
        /\ BlockAt(i, k) \in block_bitmap'
  BY DEF Marked, BlockAt
<1>2. \A i \in live' : HasTable(i)' =>
        i \in live /\ HasTable(i) /\ indirect'[i] = indirect[i] /\ indirect[i] \in block_bitmap'
  BY DEF Marked
<1> QED
  BY <1>1, <1>2, TakesNothing

\* extend begins behind the blocks there are.
LEMMA WriteHandlerKeeps ==
  ASSUME NEW i \in Inode, NEW p \in Nat, NEW n \in Nat, NEW w \in Int
  PROVE  IInv /\ WriteHandler(i, p, n, w) => IInv'
<1> SUFFICES ASSUME IInv, WriteHandler(i, p, n, w) PROVE IInv'
  OBVIOUS
<1>1. /\ pc = "ready" /\ i \in live
      /\ req' = [inum |-> i, pos |-> p, len |-> n, word |-> w]
      /\ UNCHANGED <<live, size, direct, indirect, data, block_bitmap, inode_bitmap, count, res>>
  BY DEF WriteHandler, inodes
<1>2. \/ pc' = "extend" /\ next' = Blocks(size[i])
      \/ pc' = "write" /\ next' = 0
  BY DEF WriteHandler
<1>3. size[i] \in Nat /\ Blocks(size[i]) \in Nat
  BY BlocksCount DEF IInv, TypeOK
<1>4. TypeOK'
  BY <1>1, <1>2, <1>3 DEF IInv, TypeOK
<1>5. NUM_DIRECT \in Nat /\ Place \subseteq Nat
  BY FileAssumption, Layout
<1>6. Control'
  BY <1>1, <1>2, <1>3, <1>5, BlocksCount DEF Control
<1>7. \A j \in live : \A k \in Place : Reach(j, k)' => Reach(j, k)
  BY <1>1, <1>2, <1>3, <1>5, BlocksCount DEF Reach, Extending
<1>8. \A j \in live : HasTable(j)' => HasTable(j)
  BY <1>1, <1>2 DEF HasTable
<1>9. Marked' /\ Apart'
  BY <1>1, <1>7, <1>8, SameOwners DEF IInv
<1> QED
  BY <1>4, <1>6, <1>9 DEF IInv

\* The loops end: nothing changes hands.
LEMMA HasIndirectKeeps == IInv /\ HasIndirect => IInv'
<1> SUFFICES ASSUME IInv, HasIndirect PROVE IInv'
  OBVIOUS
<1>1. /\ pc = "extend" /\ next > NUM_DIRECT /\ pc' = "entries"
      /\ UNCHANGED <<live, size, direct, indirect, data, block_bitmap, inode_bitmap,
                     next, req, count, res>>
  BY DEF HasIndirect, inodes, request
<1>2. TypeOK'
  BY <1>1 DEF IInv, TypeOK
<1>3. NUM_DIRECT \in Nat /\ next \in Nat
  BY FileAssumption DEF IInv, TypeOK
<1>4. Control'
  BY <1>1, <1>3 DEF IInv, Control
<1>5. \A j \in live : \A k \in Place : Reach(j, k)' => Reach(j, k)
  BY <1>1 DEF Reach, Extending
<1>6. \A j \in live : HasTable(j)' => HasTable(j)
  BY <1>1 DEF IInv, Control, HasTable
<1>7. Marked' /\ Apart'
  BY <1>1, <1>5, <1>6, SameOwners DEF IInv
<1> QED
  BY <1>2, <1>4, <1>7 DEF IInv

\* The blocks extend took are let go of, not given to another.
LEMMA ExtendFailsKeeps == IInv /\ ExtendFails => IInv'
<1> SUFFICES ASSUME IInv, ExtendFails PROVE IInv'
  OBVIOUS
<1>1. /\ pc \in {"extend", "entries"} /\ pc' = "write" /\ next' = 0
      /\ UNCHANGED <<live, size, direct, indirect, data, block_bitmap, inode_bitmap,
                     req, count, res>>
  BY DEF ExtendFails, Growing, inodes, request
<1>2. TypeOK'
  BY <1>1 DEF IInv, TypeOK
<1>3. Control'
  BY <1>1 DEF Control
<1>4. \A j \in live : \A k \in Place : Reach(j, k)' => Reach(j, k)
  BY <1>1 DEF Reach, Extending
<1>5. \A j \in live : HasTable(j)' => HasTable(j)
  BY <1>1 DEF HasTable
<1>6. Marked' /\ Apart'
  BY <1>1, <1>4, <1>5, SameOwners DEF IInv
<1> QED
  BY <1>2, <1>3, <1>6 DEF IInv

\* The write is answered.
LEMMA WriteDoneKeeps == IInv /\ (WriteDone \/ Reply) => IInv'
<1> SUFFICES ASSUME IInv, WriteDone \/ Reply PROVE IInv'
  OBVIOUS
<1>1. /\ pc \in {"write", "reply"} /\ pc' \in {"reply", "ready"}
      /\ UNCHANGED <<live, size, direct, indirect, data, block_bitmap, inode_bitmap>>
  BY DEF WriteDone, Reply, inodes
<1>2. TypeOK'
  <2>1. CASE WriteDone
    BY <2>1 DEF IInv, TypeOK, WriteDone, inodes
  <2>2. CASE Reply
    BY <2>2 DEF IInv, TypeOK, Reply, inodes, NoRequest
  <2> QED
    BY <2>1, <2>2
<1>3. Control'
  BY <1>1 DEF Control
<1>4. \A j \in live : \A k \in Place : Reach(j, k)' => Reach(j, k)
  BY <1>1 DEF Reach, Extending
<1>5. \A j \in live : HasTable(j)' => HasTable(j)
  BY <1>1 DEF HasTable
<1>6. Marked' /\ Apart'
  BY <1>1, <1>4, <1>5, SameOwners DEF IInv
<1> QED
  BY <1>2, <1>3, <1>6 DEF IInv

\* The size covers no place that has not been given a block, as far as a file
\* has places.
LEMMA ExtendDoneKeeps == IInv /\ ExtendDone => IInv'
<1> SUFFICES ASSUME IInv, ExtendDone PROVE IInv'
  OBVIOUS
<1> DEFINE f == req.inum
<1>1. /\ pc \in {"extend", "entries"} /\ ~ Growing
      /\ size' = [size EXCEPT ![f] = newsize]
      /\ pc' = "write" /\ next' = 0
      /\ UNCHANGED <<live, direct, indirect, data, block_bitmap, inode_bitmap, req, count, res>>
  BY DEF ExtendDone, request
<1>2. /\ f \in live /\ f \in Inode /\ newsize \in Nat /\ next \in Nat /\ NUM_DIRECT \in Nat
      /\ BLOCKSIZE \in Nat /\ Place \subseteq Nat
  BY <1>1, FileAssumption, Layout DEF IInv, TypeOK, newsize
<1> HIDE DEF f
<1>3. TypeOK'
  BY <1>1, <1>2 DEF IInv, TypeOK
<1>4. Control'
  BY <1>1 DEF Control
<1>5. ASSUME NEW k \in Place, Holds(k, newsize)
      PROVE  k < next
  <2>1. k \in Nat /\ k < NUM_DIRECT + BLOCKSIZE
    BY <1>2, FileAssumption DEF Place
  <2>2. SUFFICES ASSUME next <= k PROVE FALSE
    BY <1>2, <2>1
  <2>3. Holds(next, newsize)
    BY <1>2, <1>5, <2>1, <2>2, HoldsDown
  <2> QED
    BY <1>1, <1>2, <2>1, <2>2, <2>3 DEF Growing, MoreEntries
<1>6. ASSUME Holds(NUM_DIRECT, newsize)
      PROVE  HasTable(f)
  <2>1. CASE pc = "entries"
    BY <2>1 DEF HasTable, f
  <2>2. CASE pc = "extend"
    <3>1. next > NUM_DIRECT
      <4>1. SUFFICES ASSUME next <= NUM_DIRECT PROVE FALSE
        BY <1>2
      <4>2. Holds(next, newsize)
        BY <1>2, <1>6, <4>1, HoldsDown
      <4> QED
        BY <1>1, <2>2, <4>2 DEF Growing
    <3> QED
      BY <2>2, <3>1 DEF IInv, Control, HasTable, f
  <2> QED
    BY <1>1, <2>1, <2>2
<1>7. \A j \in live' : \A k \in Place : Reach(j, k)' =>
        j \in live /\ Reach(j, k) /\ BlockAt(j, k)' = BlockAt(j, k) /\ BlockAt(j, k) \in block_bitmap'
  <2> SUFFICES ASSUME NEW j \in live', NEW k \in Place, Reach(j, k)'
               PROVE  j \in live /\ Reach(j, k) /\ BlockAt(j, k)' = BlockAt(j, k)
                      /\ BlockAt(j, k) \in block_bitmap'
    OBVIOUS
  <2>1. j \in live /\ j \in Inode /\ Holds(k, size'[j])
    BY <1>1 DEF IInv, TypeOK, Reach, Extending
  <2>2. CASE j = f
    <3>1. k < next
      BY <1>1, <1>2, <1>5, <2>1, <2>2 DEF IInv, TypeOK
    <3>2. Reach(j, k)
      BY <1>1, <2>2, <3>1 DEF Reach, Extending, f
    <3> QED
      BY <1>1, <2>1, <3>2 DEF BlockAt, IInv, Marked
  <2>3. CASE j # f
    <3>1. Reach(j, k)
      BY <1>1, <2>1, <2>3 DEF Reach, IInv, TypeOK
    <3> QED
      BY <1>1, <2>1, <3>1 DEF BlockAt, IInv, Marked
  <2> QED
    BY <2>2, <2>3
<1>8. \A j \in live' : HasTable(j)' =>
        j \in live /\ HasTable(j) /\ indirect'[j] = indirect[j] /\ indirect[j] \in block_bitmap'
  <2> SUFFICES ASSUME NEW j \in live', HasTable(j)'
               PROVE  j \in live /\ HasTable(j) /\ indirect'[j] = indirect[j]
                      /\ indirect[j] \in block_bitmap'
    OBVIOUS
  <2>1. j \in live /\ j \in Inode /\ Holds(NUM_DIRECT, size'[j])
    BY <1>1 DEF IInv, TypeOK, HasTable
  <2>2. HasTable(j)
    <3>1. CASE j = f
      BY <1>1, <1>2, <1>6, <2>1, <3>1 DEF IInv, TypeOK
    <3>2. CASE j # f
      BY <1>1, <2>1, <3>2 DEF HasTable, IInv, TypeOK
    <3> QED
      BY <3>1, <3>2
  <2> QED
    BY <1>1, <2>1, <2>2 DEF IInv, Marked
<1>9. Marked' /\ Apart'
  BY <1>7, <1>8, TakesNothing DEF IInv
<1> QED
  BY <1>3, <1>4, <1>9 DEF IInv

\* The block taken is nobody's, nor is it a table that is read.
LEMMA AllocDirectPlaces ==
  ASSUME IInv, AllocDirect
  PROVE  \E b \in DataBlock \ block_bitmap :
           /\ block_bitmap' = block_bitmap \union {b}
           /\ data' = [data EXCEPT ![b] = [o \in Offset |-> 0]]
           /\ direct' = [direct EXCEPT ![req.inum][next] = b]
           /\ \A j \in live : \A k \in Place : Reach(j, k)' =>
                \/ j = req.inum /\ k = next /\ BlockAt(j, k)' = b
                \/ Reach(j, k) /\ BlockAt(j, k)' = BlockAt(j, k)
<1> DEFINE f == req.inum
<1>1. PICK b \in Block :
        /\ FirstFree(b)
        /\ block_bitmap' = block_bitmap \union {b}
        /\ data' = [data EXCEPT ![b] = [o \in Offset |-> 0]]
        /\ direct' = [direct EXCEPT ![f][next] = b]
  BY DEF AllocDirect
<1>2. /\ pc = "extend" /\ pc' = pc /\ next < NUM_DIRECT /\ next' = next + 1
      /\ UNCHANGED <<live, size, indirect, inode_bitmap, req, count, res>>
  BY DEF AllocDirect, request
<1>3. b \in DataBlock /\ b \notin block_bitmap
  BY <1>1, FreeIsData DEF IInv
<1>4. /\ f \in live /\ f \in Inode /\ next \in Nat /\ next \in Direct /\ next \in Place
      /\ NUM_DIRECT \in Nat /\ Place \subseteq Nat
  <2>1. f \in live /\ f \in Inode /\ next \in Nat /\ NUM_DIRECT \in Nat
    BY <1>2, FileAssumption DEF IInv, TypeOK
  <2>2. next \in Direct
    BY <1>2, <2>1 DEF Direct
  <2> QED
    BY <2>1, <2>2, Layout
<1> HIDE DEF f
<1>5. \A j \in live : \A k \in Place : Reach(j, k)' =>
        \/ j = f /\ k = next /\ BlockAt(j, k)' = b
        \/ Reach(j, k) /\ BlockAt(j, k)' = BlockAt(j, k)
  <2> SUFFICES ASSUME NEW j \in live, NEW k \in Place, Reach(j, k)'
               PROVE  \/ j = f /\ k = next /\ BlockAt(j, k)' = b
                      \/ Reach(j, k) /\ BlockAt(j, k)' = BlockAt(j, k)
    OBVIOUS
  <2>1. j \in Inode /\ k \in Nat
    BY <1>4 DEF IInv, TypeOK
  <2>2. (j = f /\ k = next) \/ (Reach(j, k) /\ ~ (j = f /\ k = next))
    BY <1>2, <1>4, <2>1 DEF Reach, Extending, f
  <2>3. CASE j = f /\ k = next
    BY <1>1, <1>2, <1>4, <2>3 DEF BlockAt, IInv, TypeOK
  <2>4. CASE Reach(j, k) /\ ~ (j = f /\ k = next)
    <3>1. CASE k < NUM_DIRECT
      <4>1. k \in Direct
        BY <1>4, <2>1, <3>1 DEF Direct
      <4>2. direct'[j][k] = direct[j][k]
        BY <1>1, <1>4, <2>1, <2>4, <4>1 DEF IInv, TypeOK
      <4> QED
        BY <2>4, <3>1, <4>2 DEF BlockAt
    <3>2. CASE ~ (k < NUM_DIRECT)
      <4>1. k \notin Direct
        BY <1>4, <2>1, <3>2 DEF Direct
      <4>2. indirect[j] \in DataBlock /\ indirect[j] # b
        BY <1>3, <2>4, <4>1, TableThere DEF IInv, Marked
      <4>3. data'[indirect[j]] = data[indirect[j]]
        BY <1>1, <4>2 DEF IInv, TypeOK
      <4> QED
        BY <1>2, <2>4, <3>2, <4>3 DEF BlockAt
    <3> QED
      BY <3>1, <3>2
  <2> QED
    BY <2>2, <2>3, <2>4
<1> QED
  BY <1>1, <1>3, <1>5 DEF f

\* The step of the loop over the direct blocks.
LEMMA AllocDirectKeeps == IInv /\ AllocDirect => IInv'
<1> SUFFICES ASSUME IInv, AllocDirect PROVE IInv'
  OBVIOUS
<1> DEFINE f == req.inum
<1>1. PICK b \in DataBlock \ block_bitmap :
        /\ block_bitmap' = block_bitmap \union {b}
        /\ data' = [data EXCEPT ![b] = [o \in Offset |-> 0]]
        /\ direct' = [direct EXCEPT ![f][next] = b]
        /\ \A j \in live : \A k \in Place : Reach(j, k)' =>
             \/ j = f /\ k = next /\ BlockAt(j, k)' = b
             \/ Reach(j, k) /\ BlockAt(j, k)' = BlockAt(j, k)
  BY AllocDirectPlaces
<1>2. /\ pc = "extend" /\ pc' = pc /\ next < NUM_DIRECT /\ next' = next + 1
      /\ UNCHANGED <<live, size, indirect, inode_bitmap, req, count, res>>
  BY DEF AllocDirect, request
<1>3. b \in DataBlock /\ b \notin block_bitmap /\ b \in Block
  BY <1>1, Layout
<1>4. /\ f \in live /\ f \in Inode /\ next \in Nat /\ next \in Direct /\ next \in Place
      /\ NUM_DIRECT \in Nat /\ Place \subseteq Nat
  <2>1. f \in live /\ f \in Inode /\ next \in Nat /\ NUM_DIRECT \in Nat
    BY <1>2, FileAssumption DEF IInv, TypeOK
  <2>2. next \in Direct
    BY <1>2, <2>1 DEF Direct
  <2> QED
    BY <2>1, <2>2, Layout
<1> HIDE DEF f
<1>5. TypeOK'
  <2>1. direct' \in [Inode -> [Direct -> Block]]
    BY <1>1, <1>3, <1>4 DEF IInv, TypeOK
  <2>2. data' \in [DataBlock -> [Offset -> Int]]
    BY <1>1, <1>3 DEF IInv, TypeOK
  <2>3. block_bitmap' \subseteq Block /\ InodeBlock \subseteq block_bitmap'
    BY <1>1, <1>3 DEF IInv, TypeOK
  <2> QED
    BY <1>2, <1>4, <2>1, <2>2, <2>3 DEF IInv, TypeOK
<1>6. Control'
  <2>1. \A k \in Nat : Holds(k, size[f]) => k < next + 1
    BY <1>2, <1>4 DEF IInv, Control, f
  <2>2. ~ (next + 1 > NUM_DIRECT)
    BY <1>2, <1>4
  <2> QED
    BY <1>2, <2>1, <2>2 DEF Control, f
<1>7. \A j \in live : HasTable(j)' => HasTable(j) /\ indirect'[j] = indirect[j]
  BY <1>2 DEF HasTable
<1>8. Marked' /\ Apart'
  BY <1>1, <1>2, <1>3, <1>4, <1>7, TakesBlock DEF IInv
<1> QED
  BY <1>5, <1>6, <1>8 DEF IInv

\* The file had no place behind the direct ones before.
LEMMA AllocIndirectKeeps == IInv /\ AllocIndirect => IInv'
<1> SUFFICES ASSUME IInv, AllocIndirect PROVE IInv'
  OBVIOUS
<1> DEFINE f == req.inum
<1>1. PICK b \in Block :
        /\ FirstFree(b)
        /\ block_bitmap' = block_bitmap \union {b}
        /\ indirect' = [indirect EXCEPT ![f] = b]
  BY DEF AllocIndirect
<1>2. /\ pc = "extend" /\ pc' = "entries" /\ next = NUM_DIRECT
      /\ UNCHANGED <<live, size, direct, data, inode_bitmap, next, req, count, res>>
  BY DEF AllocIndirect, request
<1>3. b \in DataBlock /\ b \notin block_bitmap
  BY <1>1, FreeIsData DEF IInv
<1>4. f \in live /\ f \in Inode /\ next \in Nat /\ NUM_DIRECT \in Nat /\ Place \subseteq Nat
  BY <1>2, FileAssumption, Layout DEF IInv, TypeOK
<1>5. TypeOK'
  BY <1>1, <1>2, <1>4 DEF IInv, TypeOK
<1>6. Control'
  BY <1>2, <1>4 DEF IInv, Control
<1>7. \A j \in live : \A k \in Place : Reach(j, k)' => Reach(j, k) /\ BlockAt(j, k)' = BlockAt(j, k)
  <2> SUFFICES ASSUME NEW j \in live, NEW k \in Place, Reach(j, k)'
               PROVE  Reach(j, k) /\ BlockAt(j, k)' = BlockAt(j, k)
    OBVIOUS
  <2>1. j \in Inode /\ k \in Nat
    BY <1>4 DEF IInv, TypeOK
  <2>2. Reach(j, k)
    BY <1>2 DEF Reach, Extending
  <2>3. CASE j = f
    <3>1. k < NUM_DIRECT
      BY <1>2, <1>4, <2>1, <2>2, <2>3 DEF Reach, IInv, Control, f
    <3> QED
      BY <1>2, <2>2, <3>1 DEF BlockAt
  <2>4. CASE j # f
    BY <1>1, <1>2, <2>1, <2>2, <2>4 DEF BlockAt, IInv, TypeOK
  <2> QED
    BY <2>3, <2>4
<1>8. \A j \in live : HasTable(j)' =>
        \/ j = f /\ indirect'[j] = b
        \/ HasTable(j) /\ indirect'[j] = indirect[j]
  BY <1>1, <1>2, <1>4 DEF HasTable, IInv, TypeOK, f
<1>9. Marked' /\ Apart'
  BY <1>1, <1>2, <1>3, <1>4, <1>7, <1>8, TakesTable DEF IInv
<1> QED
  BY <1>5, <1>6, <1>9 DEF IInv

\* The entry is written into a table that is nobody else's.
LEMMA AllocEntryPlaces ==
  ASSUME IInv, AllocEntry
  PROVE  \E b \in DataBlock \ block_bitmap :
           /\ block_bitmap' = block_bitmap \union {b}
           /\ data' = [data EXCEPT ![indirect[req.inum]][next - NUM_DIRECT] = b]
           /\ \A j \in live : \A k \in Place : Reach(j, k)' =>
                \/ j = req.inum /\ k = next /\ BlockAt(j, k)' = b
                \/ Reach(j, k) /\ BlockAt(j, k)' = BlockAt(j, k)
<1> DEFINE f == req.inum
           t == indirect[f]
<1>1. PICK b \in Block :
        /\ FirstFree(b)
        /\ block_bitmap' = block_bitmap \union {b}
        /\ data' = [data EXCEPT ![t][next - NUM_DIRECT] = b]
  BY DEF AllocEntry
<1>2. /\ pc = "entries" /\ pc' = pc /\ MoreEntries /\ next' = next + 1
      /\ UNCHANGED <<live, size, direct, indirect, inode_bitmap, req, count, res>>
  BY DEF AllocEntry, inodes, request
<1>3. b \in DataBlock /\ b \notin block_bitmap /\ b \in Int
  BY <1>1, FreeIsData DEF IInv, Block
<1>4. /\ f \in live /\ f \in Inode /\ next \in Nat /\ NUM_DIRECT \in Nat /\ NUM_DIRECT <= next
      /\ Place \subseteq Nat /\ next \in Place /\ next - NUM_DIRECT \in Offset
  <2>1. f \in live /\ f \in Inode /\ next \in Nat /\ NUM_DIRECT \in Nat /\ NUM_DIRECT <= next
    BY <1>2, FileAssumption DEF IInv, TypeOK, Control
  <2>2. next \in Place /\ next \notin Direct
    BY <1>2, <2>1, FileAssumption DEF MoreEntries, Place, Direct
  <2> QED
    BY <2>1, <2>2, Layout
<1>5. HasTable(f) /\ t \in DataBlock
  BY <1>2, <1>4 DEF HasTable, IInv, Marked
<1>6. \A j \in live : \A k \in Place : Reach(j, k)' =>
        \/ j = f /\ k = next /\ BlockAt(j, k)' = b
        \/ Reach(j, k) /\ BlockAt(j, k)' = BlockAt(j, k)
  <2> SUFFICES ASSUME NEW j \in live, NEW k \in Place, Reach(j, k)'
               PROVE  \/ j = f /\ k = next /\ BlockAt(j, k)' = b
                      \/ Reach(j, k) /\ BlockAt(j, k)' = BlockAt(j, k)
    OBVIOUS
  <2>1. j \in Inode /\ k \in Nat
    BY <1>4 DEF IInv, TypeOK
  <2>2. (j = f /\ k = next) \/ (Reach(j, k) /\ ~ (j = f /\ k = next))
    BY <1>2, <1>4, <2>1 DEF Reach, Extending
  <2>3. CASE j = f /\ k = next
    <3>1. data'[t][next - NUM_DIRECT] = b
      BY <1>1, <1>4, <1>5 DEF IInv, TypeOK
    <3> QED
      BY <1>2, <1>4, <2>3, <3>1 DEF BlockAt
  <2>4. CASE Reach(j, k) /\ ~ (j = f /\ k = next)
    <3>1. CASE k < NUM_DIRECT
      BY <1>2, <2>4, <3>1 DEF BlockAt
    <3>2. CASE ~ (k < NUM_DIRECT)
      <4>1. k \notin Direct /\ k - NUM_DIRECT \in Offset
        BY <1>4, <2>1, <3>2, Layout DEF Direct
      <4>2. HasTable(j) /\ indirect[j] \in DataBlock
        BY <2>4, <4>1, TableThere DEF IInv, Marked
      <4>3. data'[indirect[j]][k - NUM_DIRECT] = data[indirect[j]][k - NUM_DIRECT]
        <5>1. CASE j = f
          <6>1. k - NUM_DIRECT # next - NUM_DIRECT
            BY <1>4, <2>1, <2>4, <5>1
          <6> QED
            BY <1>1, <1>4, <1>5, <4>1, <5>1, <6>1 DEF IInv, TypeOK
        <5>2. CASE j # f
          <6>1. indirect[j] # t
            BY <1>4, <1>5, <4>2, <5>2 DEF IInv, Apart
          <6> QED
            BY <1>1, <4>2, <6>1 DEF IInv, TypeOK
        <5> QED
          BY <5>1, <5>2
      <4> QED
        BY <1>2, <2>4, <3>2, <4>3 DEF BlockAt
    <3> QED
      BY <3>1, <3>2
  <2> QED
    BY <2>2, <2>3, <2>4
<1> QED
  BY <1>1, <1>3, <1>6

\* The step of the loop over the indirect block.
LEMMA AllocEntryKeeps == IInv /\ AllocEntry => IInv'
<1> SUFFICES ASSUME IInv, AllocEntry PROVE IInv'
  OBVIOUS
<1> DEFINE f == req.inum
           t == indirect[f]
<1>1. PICK b \in DataBlock \ block_bitmap :
        /\ block_bitmap' = block_bitmap \union {b}
        /\ data' = [data EXCEPT ![t][next - NUM_DIRECT] = b]
        /\ \A j \in live : \A k \in Place : Reach(j, k)' =>
             \/ j = f /\ k = next /\ BlockAt(j, k)' = b
             \/ Reach(j, k) /\ BlockAt(j, k)' = BlockAt(j, k)
  BY AllocEntryPlaces
<1>2. /\ pc = "entries" /\ pc' = pc /\ MoreEntries /\ next' = next + 1
      /\ UNCHANGED <<live, size, direct, indirect, inode_bitmap, req, count, res>>
  BY DEF AllocEntry, inodes, request
<1>3. b \in DataBlock /\ b \notin block_bitmap /\ b \in Block /\ b \in Int
  BY <1>1, Layout DEF Block
<1>4. /\ f \in live /\ f \in Inode /\ next \in Nat /\ NUM_DIRECT \in Nat /\ NUM_DIRECT <= next
      /\ Place \subseteq Nat /\ next \in Place /\ next - NUM_DIRECT \in Offset
  <2>1. f \in live /\ f \in Inode /\ next \in Nat /\ NUM_DIRECT \in Nat /\ NUM_DIRECT <= next
    BY <1>2, FileAssumption DEF IInv, TypeOK, Control
  <2>2. next \in Place /\ next \notin Direct
    BY <1>2, <2>1, FileAssumption DEF MoreEntries, Place, Direct
  <2> QED
    BY <2>1, <2>2, Layout
<1>5. HasTable(f) /\ t \in DataBlock
  BY <1>2, <1>4 DEF HasTable, IInv, Marked
<1>6. TypeOK'
  <2>1. data' \in [DataBlock -> [Offset -> Int]]
    BY <1>1, <1>3, <1>4, <1>5 DEF IInv, TypeOK
  <2>2. block_bitmap' \subseteq Block /\ InodeBlock \subseteq block_bitmap'
    BY <1>1, <1>3 DEF IInv, TypeOK
  <2> QED
    BY <1>2, <1>4, <2>1, <2>2 DEF IInv, TypeOK
<1>7. Control'
  BY <1>2, <1>4 DEF IInv, Control
<1>8. \A j \in live : HasTable(j)' => HasTable(j) /\ indirect'[j] = indirect[j]
  BY <1>2 DEF HasTable
<1>9. Marked' /\ Apart'
  BY <1>1, <1>2, <1>3, <1>4, <1>8, TakesBlock DEF IInv
<1> QED
  BY <1>6, <1>7, <1>9 DEF IInv

\* WriteBlock's locals: where it writes, at which offset, and how much.
cursor == req.pos + count
block_offset == cursor % BLOCKSIZE
write_count ==
  IF req.len - count < BLOCKSIZE - block_offset
  THEN req.len - count ELSE BLOCKSIZE - block_offset
block == BlockAt(req.inum, cursor \div BLOCKSIZE)

\* The words go to a block of the file, which is nobody's table.
LEMMA WriteBlockPlaces ==
  ASSUME IInv, WriteBlock
  PROVE  /\ req.inum \in live /\ cursor \in Nat /\ cursor < size[req.inum]
         /\ block_offset \in Offset /\ write_count \in Nat /\ write_count > 0
         /\ block_offset + write_count <= BLOCKSIZE
         /\ (cursor \div BLOCKSIZE) \in Nat /\ Holds(cursor \div BLOCKSIZE, size[req.inum])
         /\ \/ /\ (cursor \div BLOCKSIZE) \in Place /\ block \in DataBlock
               /\ data' = [data EXCEPT ![block] = [x \in Offset |->
                    IF x \in block_offset .. block_offset + write_count - 1
                    THEN req.word ELSE @[x]]]
               /\ count' = count + write_count
               /\ UNCHANGED <<pc, res>>
            \/ pc' = "reply" /\ res' = -1 /\ UNCHANGED <<data, count>>
         /\ \A j \in live : \A k \in Place : Reach(j, k) => BlockAt(j, k)' = BlockAt(j, k)
<1>1. /\ pc = "write" /\ MoreWords
      /\ UNCHANGED <<live, size, direct, indirect, block_bitmap, inode_bitmap, req, next>>
  BY DEF WriteBlock, inodes
<1>2. \/ /\ (cursor \div BLOCKSIZE) \in Place
         /\ data' = [data EXCEPT ![block] = [x \in Offset |->
              IF x \in block_offset .. block_offset + write_count - 1
              THEN req.word ELSE @[x]]]
         /\ count' = count + write_count
         /\ UNCHANGED <<pc, res>>
      \/ pc' = "reply" /\ res' = -1 /\ UNCHANGED <<data, count>>
  BY DEF WriteBlock, cursor, block_offset, write_count, block
<1>3. /\ req.inum \in live /\ req.inum \in Inode /\ req.len \in Nat /\ count \in Nat
      /\ cursor \in Nat /\ size[req.inum] \in Nat
      /\ BLOCKSIZE \in Nat /\ count < req.len /\ cursor < size[req.inum]
  BY <1>1, FileAssumption DEF IInv, TypeOK, MoreWords, cursor
<1>4. /\ (cursor \div BLOCKSIZE) \in Nat /\ block_offset \in Offset
      /\ Holds(cursor \div BLOCKSIZE, size[req.inum])
  BY <1>3, DivMod, PositionHeld DEF block_offset
<1>5. /\ write_count \in Nat /\ write_count > 0 /\ block_offset + write_count <= BLOCKSIZE
  <2>1. block_offset \in Nat /\ BLOCKSIZE - block_offset \in Nat /\ BLOCKSIZE - block_offset > 0
    BY <1>3, <1>4 DEF Offset
  <2>2. req.len - count \in Nat /\ req.len - count > 0
    BY <1>3
  <2> QED
    BY <1>3, <2>1, <2>2 DEF write_count
<1>6. (cursor \div BLOCKSIZE) \in Place => block \in DataBlock /\ Reach(req.inum, cursor \div BLOCKSIZE)
  BY <1>3, <1>4 DEF Reach, IInv, Marked, block
<1>7. ASSUME NEW j \in live, NEW k \in Place, Reach(j, k)
      PROVE  BlockAt(j, k)' = BlockAt(j, k)
  <2>1. CASE k < NUM_DIRECT
    BY <1>1, <2>1 DEF BlockAt
  <2>2. CASE ~ (k < NUM_DIRECT)
    <3>1. k \notin Direct
      BY <2>2, FileAssumption, Layout DEF Direct
    <3>2. HasTable(j) /\ indirect[j] \in DataBlock
      BY <1>7, <3>1, TableThere DEF IInv, Marked
    <3>3. data'[indirect[j]] = data[indirect[j]]
      <4>1. CASE (cursor \div BLOCKSIZE) \in Place
        <5>1. indirect[j] # block
          BY <1>3, <1>6, <3>2, <4>1 DEF IInv, Apart, block
        <5> QED
          BY <1>2, <3>2, <5>1 DEF IInv, TypeOK
      <4>2. CASE (cursor \div BLOCKSIZE) \notin Place
        BY <1>2, <4>2
      <4> QED
        BY <4>1, <4>2
    <3> QED
      BY <1>1, <2>2, <3>3 DEF BlockAt
  <2> QED
    BY <2>1, <2>2
<1> QED
  BY <1>2, <1>3, <1>4, <1>5, <1>6, <1>7

\* An iteration of WriteHandler's loop.
LEMMA WriteBlockKeeps == IInv /\ WriteBlock => IInv'
<1> SUFFICES ASSUME IInv, WriteBlock PROVE IInv'
  OBVIOUS
<1>1. /\ pc = "write"
      /\ UNCHANGED <<live, size, direct, indirect, block_bitmap, inode_bitmap, req, next>>
  BY DEF WriteBlock, inodes
<1>2. TypeOK'
  <2>1. req.inum \in live /\ req.word \in Int /\ count \in Nat
    BY <1>1 DEF IInv, TypeOK
  <2>2. CASE pc' = "reply" /\ res' = -1 /\ UNCHANGED <<data, count>>
    BY <1>1, <2>1, <2>2 DEF IInv, TypeOK
  <2>3. CASE /\ block \in DataBlock
             /\ data' = [data EXCEPT ![block] = [x \in Offset |->
                  IF x \in block_offset .. block_offset + write_count - 1
                  THEN req.word ELSE @[x]]]
             /\ count' = count + write_count
             /\ UNCHANGED <<pc, res>>
    <3>1. data' \in [DataBlock -> [Offset -> Int]]
      BY <2>1, <2>3 DEF IInv, TypeOK
    <3>2. count' \in Nat
      BY <2>1, <2>3, WriteBlockPlaces
    <3> QED
      BY <1>1, <2>1, <2>3, <3>1, <3>2 DEF IInv, TypeOK
  <2> QED
    BY <2>2, <2>3, WriteBlockPlaces
<1>3. pc' \in {"write", "reply"}
  BY <1>1, WriteBlockPlaces
<1>4. Control'
  BY <1>3 DEF Control
<1>5. \A j \in live : \A k \in Place : Reach(j, k)' => Reach(j, k)
  BY <1>1, <1>3 DEF Reach, Extending
<1>6. \A j \in live : HasTable(j)' => HasTable(j)
  BY <1>1, <1>3 DEF HasTable
<1>7. \A j \in live' : \A k \in Place : Reach(j, k)' =>
        j \in live /\ Reach(j, k) /\ BlockAt(j, k)' = BlockAt(j, k) /\ BlockAt(j, k) \in block_bitmap'
  BY <1>1, <1>5, WriteBlockPlaces DEF IInv, Marked
<1>8. \A j \in live' : HasTable(j)' =>
        j \in live /\ HasTable(j) /\ indirect'[j] = indirect[j] /\ indirect[j] \in block_bitmap'
  BY <1>1, <1>6 DEF IInv, Marked
<1>9. Marked' /\ Apart'
  BY <1>7, <1>8, TakesNothing DEF IInv
<1> QED
  BY <1>2, <1>4, <1>9 DEF IInv

\* A step that changes nothing.
LEMMA StutterKeeps == IInv /\ UNCHANGED vars => IInv'
<1> SUFFICES ASSUME IInv, UNCHANGED vars PROVE IInv'
  OBVIOUS
<1>1. TypeOK'
  BY DEF IInv, TypeOK, vars
<1>2. Control'
  BY DEF IInv, Control, vars
<1>3. Marked' /\ Apart'
  <2>1. \A i \in live : \A k \in Place : Reach(i, k)' => Reach(i, k)
    BY DEF Reach, Extending, vars
  <2>2. \A i \in live : HasTable(i)' => HasTable(i)
    BY DEF HasTable, vars
  <2> QED
    BY <2>1, <2>2, SameOwners DEF IInv, vars
<1> QED
  BY <1>1, <1>2, <1>3 DEF IInv

-----------------------------------------------------------------------------
(* The theorems.                                                           *)

\* Every step of the server in one life keeps the invariant.
LEMMA ServeKeeps == IInv /\ [Serve]_vars => IInv'
<1> SUFFICES ASSUME IInv, [Serve]_vars PROVE IInv'
  OBVIOUS
<1>1. CASE CreateInode
  BY <1>1, CreateInodeKeeps
<1>2. CASE \E i \in Inode : FreeInode(i)
  BY <1>2, FreeInodeKeeps
<1>3. CASE \E i \in Inode, n \in 0 .. MAXLEN, w \in Word :
             \E p \in 0 .. MAXEND - n : WriteHandler(i, p, n, w)
  <2>1. PICK i \in Inode, n \in 0 .. MAXLEN, w \in Word :
               \E p \in 0 .. MAXEND - n : WriteHandler(i, p, n, w)
    BY <1>3
  <2>2. PICK p \in 0 .. MAXEND - n : WriteHandler(i, p, n, w)
    BY <2>1
  <2>3. p \in Nat /\ n \in Nat /\ w \in Int
    BY FileAssumption
  <2> QED
    BY <2>2, <2>3, WriteHandlerKeeps
<1>4. CASE Extend
  BY <1>4, AllocDirectKeeps, AllocIndirectKeeps, HasIndirectKeeps, AllocEntryKeeps,
     ExtendFailsKeeps, ExtendDoneKeeps DEF Extend
<1>5. CASE WriteBlock
  BY <1>5, WriteBlockKeeps
<1>6. CASE WriteDone \/ Reply
  BY <1>6, WriteDoneKeeps
<1>7. CASE UNCHANGED vars
  BY <1>7, StutterKeeps
<1> QED
  BY <1>1, <1>2, <1>3, <1>4, <1>5, <1>6, <1>7 DEF Serve, Request, Progress

\* The inductive invariant holds in every reachable state.
THEOREM Invariance == ServeSpec => []IInv
<1>1. Init => IInv
  BY InitInv
<1>2. IInv /\ [Serve]_vars => IInv'
  BY ServeKeeps
<1> QED
  BY <1>1, <1>2, PTL DEF ServeSpec

\* The variables stay in their types.
THEOREM TypeCorrect == ServeSpec => []TypeOK
<1>1. IInv => TypeOK
  BY DEF IInv
<1> QED
  BY <1>1, Invariance, PTL

\* What the code takes a file to own is among what extend has given it.
LEMMA OwnedReached ==
  ASSUME IInv, NEW i \in live
  PROVE  /\ \A b \in Owned(i) :
              \/ \E k \in Place : Reach(i, k) /\ b = BlockAt(i, k)
              \/ HasTable(i) /\ b = indirect[i]
         /\ Owned(i) \subseteq DataBlock \intersect block_bitmap
<1>1. \A b \in Owned(i) :
        \/ \E k \in Place : Reach(i, k) /\ b = BlockAt(i, k)
        \/ HasTable(i) /\ b = indirect[i]
  BY DEF Owned, Scanned, Reach, HasTable
<1> QED
  BY <1>1 DEF IInv, Marked

\* The invariant says so of the blocks that the sizes cover.
LEMMA OwnedOnce ==
  ASSUME IInv
  PROVE  NoSharedBlock
<1>1. ASSUME NEW i \in live PROVE OwnsApart(i)
  <2>1. Owned(i) \subseteq DataBlock
    BY OwnedReached
  <2>2. \A k, l \in Place :
          Holds(k, size[i]) /\ Holds(l, size[i]) /\ BlockAt(i, k) = BlockAt(i, l) => k = l
    BY DEF IInv, Apart, Reach
  <2>3. Holds(NUM_DIRECT, size[i]) => indirect[i] \notin Scanned(i)
    BY DEF IInv, Apart, Scanned, Reach, HasTable
  <2> QED
    BY <2>1, <2>2, <2>3 DEF OwnsApart
<1>2. ASSUME NEW i \in live, NEW j \in live, i # j
      PROVE  Owned(i) \intersect Owned(j) = {}
  BY <1>2, OwnedReached DEF IInv, Apart
<1> QED
  BY <1>1, <1>2 DEF NoSharedBlock

\* No block is owned twice: extend, free_inode and find_free never give a block
\* to a file, or to a place of it, while another has it.
THEOREM BlocksOwnedOnce == ServeSpec => []NoSharedBlock
<1>1. IInv => NoSharedBlock
  BY OwnedOnce
<1> QED
  BY <1>1, Invariance, PTL

\* What a file owns is marked used.
THEOREM OwnersAreMarked == ServeSpec => []OwnedMarked
<1>1. IInv => OwnedMarked
  BY OwnedReached DEF OwnedMarked
<1> QED
  BY <1>1, Invariance, PTL
=============================================================================
