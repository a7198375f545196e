--------------------------- MODULE YfsCacheProofs ---------------------------
(***************************************************************************)
(* The caches stay well formed, sync makes what is cached durable, the     *)
(* inode bitmap tells which inodes are in use, and both caches over the    *)
(* disk are a store, for every size of the disk and of the caches and for  *)
(* every choice of the sectors that cannot be written.                     *)
(***************************************************************************)
EXTENDS YfsCache, YfsStorageProofs

-----------------------------------------------------------------------------
(* The inductive invariant.                                                *)

Single == SoundInode \ MultiLinked

Control ==
  /\ inode_bitmap \subseteq Inode
  /\ pc \in {"down", "boot", "ready", "sync_inodes", "sync_blocks", "sync_done"}
  /\ cursor \in Nat
  /\ caller \in {"none", "SyncHandler", "ShutdownHandler", "free_inode"}
  /\ info \in Nat \union {NULL}
  /\ res \in {0, -1}

\* Boot starts with empty caches and reads every inode once.
BootPart ==
  /\ pc = "down" => bc = EmptyCache(Block) /\ ic = EmptyCache(Inode)
  /\ pc = "boot" => cursor >= 1 /\ \A i \in Inode : i >= cursor => ic.hash[i] = NULL

\* free_inode's entry stays in the list until sync has returned.
FreePart ==
  caller = "free_inode" =>
    pc \in {"sync_inodes", "sync_blocks", "sync_done"} /\ info \in ToSet(ic.queue)

\* What sync has passed is clean.
SyncPart ==
  /\ pc \in {"sync_inodes", "sync_blocks"} => cursor >= 1
  /\ pc = "sync_inodes" =>
       \A k \in 1 .. Len(ic.queue) : k < cursor => ~ ic.info[ic.queue[k]].dirty
  /\ pc = "sync_blocks" \/ (pc = "sync_done" /\ res = 0) =>
       \A n \in ToSet(ic.queue) : ~ ic.info[n].dirty
  /\ pc = "sync_blocks" =>
       \A k \in 1 .. Len(bc.queue) : k < cursor => ~ bc.info[bc.queue[k]].dirty
  /\ pc = "sync_done" /\ res = 0 =>
       \A n \in ToSet(bc.queue) : ~ bc.info[n].dirty

IInv ==
  /\ StorageOK(Now)
  /\ CleanInodes(Now, Single)
  /\ Control
  /\ BootPart
  /\ FreePart
  /\ SyncPart

-----------------------------------------------------------------------------
(* Facts the actions share.                                                *)

\* The next value of the whole storage.
LEMMA BecomeNow ==
  ASSUME NEW s, StorageOK(s), Become(s)
  PROVE  Now' = s
BY DEF StorageOK, Become, Now

\* The inodes with one link that do not share the block of the fs_header.
LEMMA SingleSubset == Single \in SUBSET SoundInode /\ Single \subseteq Inode
BY DEF Single, SoundInode

\* Data blocks, the block of the fs_header and inode 0 are in range.
LEMMA SlotBlockFacts ==
  /\ DataBlock \subseteq Block
  /\ DataSlot \subseteq Slot
  /\ HeaderBlock \in Block
  /\ 0 \in Inode
<1>1. 0 \in Inode
  BY StorageAssumption DEF Inode
<1>2. HeaderBlock \in Block
  BY <1>1, InodeAddress DEF HeaderBlock
<1>3. NUM_BLOCKS_FOR_INODES \in Nat
  <2>1. INODES_PER_BLOCK \in Nat /\ INODES_PER_BLOCK > 0
        /\ NUM_INODES + INODES_PER_BLOCK - 1 \in Nat
    BY StorageAssumption
  <2> QED
    BY <2>1 DEF NUM_BLOCKS_FOR_INODES
<1>4. DataBlock \subseteq Block
  BY <1>3, StorageAssumption DEF DataBlock, Block
<1> QED
  BY <1>1, <1>2, <1>4, CacheAssumption

\* The entry a store marks dirty.
LEMMA DirtyEntry ==
  ASSUME NEW i \in Inode, NEW v \in Cell
  PROVE  /\ Dirty(i, v) \in Entry(Inode, Cell)
         /\ Dirty(i, v).num = i /\ Dirty(i, v).dirty /\ Dirty(i, v).val = v
BY DEF Dirty, Entry

\* A request that leaves the server ready only has to keep the storage.
LEMMA RequestKeeps ==
  ASSUME IInv, pc = "ready", NoLoop, inode_bitmap' \subseteq Inode,
         NEW s, StorageOK(s), CleanInodes(s, Single), Become(s)
  PROVE  IInv'
<1>1. Now' = s
  BY BecomeNow
<1>2. StorageOK(Now)' /\ CleanInodes(Now, Single)'
  BY <1>1 DEF Single, SoundInode
<1>3. Control'
  BY DEF IInv, Control, NoLoop
<1>4. BootPart' /\ FreePart' /\ SyncPart'
  BY DEF IInv, NoLoop, BootPart, FreePart, SyncPart
<1> QED
  BY <1>2, <1>3, <1>4 DEF IInv

\* Starting sync is a request as well.
LEMMA StartFreeKeeps ==
  ASSUME IInv, pc = "ready", inode_bitmap' \subseteq Inode,
         NEW i \in Inode, NEW s, StorageOK(s), CleanInodes(s, Single \ {i}),
         s.ic.hash[i] # NULL, StartFree(s, i)
  PROVE  IInv'
<1> DEFINE e == Dirty(i, FREE)
           t == SetCachedInode(s, i, e)
<1>1. /\ StorageOK(t)
      /\ CleanInodes(t, Single)
      /\ t.ic.queue = s.ic.queue
  <2>1. e \in Entry(Inode, Cell) /\ e.num = i /\ e.dirty
    BY DirtyEntry DEF Cell
  <2> HIDE DEF e
  <2>2. /\ StorageOK(t)
        /\ t.ic.queue = s.ic.queue
        /\ \A J \in SUBSET SoundInode :
             CleanInodes(s, J \ {i}) /\ (i \in J => e.dirty \/ e.val = InodeInBlock(s, i)) => CleanInodes(t, J)
    BY <2>1, SetCachedInodeKeeps
  <2> HIDE DEF t
  <2> QED
    BY <2>1, <2>2, SingleSubset
<1>2. Now' = t
  BY <1>1, BecomeNow DEF StartFree
<1> HIDE DEF t
<1>3. StorageOK(Now)' /\ CleanInodes(Now, Single)'
  BY <1>1, <1>2 DEF Single, SoundInode
<1>4. s.ic.hash[i] \in ToSet(s.ic.queue) /\ s.ic.hash[i] \in Nat
  BY InodeHash, InodeEntry
<1>5. Control'
  BY <1>4 DEF IInv, Control, StartFree, Goto
<1>6. BootPart'
  BY DEF StartFree, Goto, BootPart
<1>7. ic' = t.ic
  BY <1>2 DEF Now
<1>8. FreePart'
  BY <1>1, <1>4, <1>7 DEF FreePart, StartFree, Goto
<1>9. SyncPart'
  <2>1. ic'.queue = s.ic.queue /\ Len(s.ic.queue) \in Nat
    BY <1>1, <1>7, WellFormedParts DEF StorageOK
  <2>2. pc' = "sync_inodes" /\ cursor' = 1
    BY DEF StartFree, Goto
  <2> QED
    BY <2>1, <2>2 DEF SyncPart
<1> QED
  BY <1>3, <1>5, <1>6, <1>8, <1>9 DEF IInv

\* A disk alone, with empty caches, is well formed.
LEMMA EmptyStorage ==
  ASSUME NEW d \in DiskType
  PROVE  LET s == [disk |-> d, bc |-> EmptyCache(Block), ic |-> EmptyCache(Inode)]
         IN  StorageOK(s) /\ CleanInodes(s, Single)
<1> DEFINE s == [disk |-> d, bc |-> EmptyCache(Block), ic |-> EmptyCache(Inode)]
<1>1. WellFormed(s.bc, Block, [Slot -> Cell], SoundBlock) /\ WellFormed(s.ic, Inode, Cell, Inode)
  BY EmptyWellFormed
<1>2. \A b \in SoundBlock : s.bc.hash[b] = NULL
  BY DEF SoundBlock, EmptyCache
<1>3. \A i \in Single : s.ic.hash[i] = NULL
  BY SingleSubset DEF EmptyCache
<1>4. CleanBlocks(s) /\ CleanInodes(s, Single)
  BY <1>2, <1>3 DEF CleanBlocks, CleanInodes
<1> QED
  BY <1>1, <1>4 DEF StorageOK

\* Losing the memory leaves a well-formed, empty storage.
LEMMA PowerOffKeeps ==
  ASSUME IInv, PowerOff
  PROVE  IInv'
<1>1. Now' = [disk |-> disk, bc |-> EmptyCache(Block), ic |-> EmptyCache(Inode)]
  BY DEF PowerOff, Now
<1>2. disk \in DiskType
  BY DEF IInv, StorageOK, Now
<1>3. StorageOK(Now') /\ CleanInodes(Now', Single)
  BY <1>1, <1>2, EmptyStorage
<1>4. Control' /\ BootPart' /\ FreePart' /\ SyncPart'
  BY DEF IInv, Control, PowerOff, Goto, BootPart, FreePart, SyncPart
<1> QED
  BY <1>3, <1>4 DEF IInv, Single, SoundInode

\* The server starts with the invariant: empty caches over any formatted disk.
THEOREM InitInvariant == Init => IInv
<1> SUFFICES ASSUME Init PROVE IInv
  OBVIOUS
<1>1. disk \in DiskType
  BY DEF Init, DiskType
<1>2. Now = [disk |-> disk, bc |-> EmptyCache(Block), ic |-> EmptyCache(Inode)]
  BY DEF Init, Now
<1>3. StorageOK(Now) /\ CleanInodes(Now, Single)
  BY <1>1, <1>2, EmptyStorage
<1>4. Control /\ BootPart /\ FreePart /\ SyncPart
  BY DEF Init, Idle, Control, BootPart, FreePart, SyncPart
<1> QED
  BY <1>3, <1>4 DEF IInv

-----------------------------------------------------------------------------
(* Every action keeps the invariant.                                       *)

\* Zeroing the hash tables orphans only the entry of the fs_header block.
LEMMA BootKeeps == IInv /\ Boot => IInv'
<1> SUFFICES ASSUME IInv, Boot PROVE IInv'
  OBVIOUS
<1> DEFINE s == GetBlock(Now, HeaderBlock, {})
           h == [b \in Block |-> NULL]
           t == [s EXCEPT !.bc.hash = h]
<1>1. /\ StorageOK(s) /\ s.ic = ic /\ s.bc.hash[HeaderBlock] # NULL
  BY SlotBlockFacts, GetBlockKeeps DEF IInv, Now
<1>2. bc = EmptyCache(Block) /\ ic = EmptyCache(Inode)
  BY DEF Boot, IInv, BootPart
<1>3. \A n \in ToSet(s.bc.queue) : s.bc.info[n].num = HeaderBlock
  <2> DEFINE n == Malloc(bc)
             e == [num |-> HeaderBlock, dirty |-> FALSE, val |-> disk[HeaderBlock]]
  <2>1. bc.queue = << >> /\ bc.hash[HeaderBlock] = NULL
    BY <1>2, SlotBlockFacts DEF EmptyCache
  <2>2. EvictBlock(Now, {}) = Now
    <3>1. Len(bc.queue) = 0
      BY <2>1
    <3>2. Len(bc.queue) < BLOCK_CACHESIZE
      BY <3>1, StorageAssumption
    <3> QED
      BY <3>2 DEF EvictBlock, Now
  <2>3. s = [Now EXCEPT !.bc = Insert(bc, n, e)]
    BY <2>1, <2>2 DEF GetBlock, SetBlockLru, Now
  <2>4. s.bc = Insert(bc, n, e)
    BY <2>3 DEF Now
  <2> HIDE DEF n, e, s
  <2>5. s.bc.queue = Append(<< >>, n)
    BY <2>1, <2>4 DEF Insert
  <2>6. s.bc.info = [m \in ToSet(<< >>) \union {n} |-> IF m = n THEN e ELSE bc.info[m]]
    BY <2>1, <2>4 DEF Insert
  <2>7. s.bc.info[n] = e
    BY <2>6
  <2>8. ToSet(s.bc.queue) = {n}
    BY <2>5 DEF ToSet
  <2>9. e.num = HeaderBlock
    BY DEF e
  <2> QED
    BY <2>7, <2>8, <2>9
<1> HIDE DEF s
<1>4. t = [disk |-> s.disk, bc |-> [hash |-> h, queue |-> s.bc.queue, info |-> s.bc.info], ic |-> s.ic]
  <2>1. s = [disk |-> s.disk, bc |-> s.bc, ic |-> s.ic]
    BY <1>1 DEF StorageOK
  <2>2. s.bc = [hash |-> s.bc.hash, queue |-> s.bc.queue, info |-> s.bc.info]
    BY <1>1, WellFormedParts DEF StorageOK
  <2> HIDE DEF h
  <2> QED
    BY <2>1, <2>2
<1>5. Now' = t
  BY <1>4 DEF Boot, Become, Now, s
<1>6. HeaderBlock \notin SoundBlock
  BY DEF SoundBlock
<1>7. WellFormed(t.bc, Block, [Slot -> Cell], SoundBlock)
  <2>1. WellFormed(s.bc, Block, [Slot -> Cell], SoundBlock)
    BY <1>1 DEF StorageOK
  <2>2. /\ s.bc.queue \in Seq(Nat)
        /\ s.bc.info \in [ToSet(s.bc.queue) -> Entry(Block, [Slot -> Cell])]
        /\ IsInjective(s.bc.queue)
    BY <2>1, WellFormedParts
  <2>3. h \in [Block -> Nat \union {NULL}]
    OBVIOUS
  <2>4. WellFormed([hash |-> h, queue |-> s.bc.queue, info |-> s.bc.info],
                   Block, [Slot -> Cell], SoundBlock)
    BY <2>2, <2>3, <1>3, <1>6, WellFormedIntro
  <2> QED
    BY <2>4, <1>4
<1>8. StorageOK(t)
  <2>1. s.disk \in DiskType /\ WellFormed(s.ic, Inode, Cell, Inode)
    BY <1>1 DEF StorageOK
  <2>2. CleanBlocks(t)
    BY <1>4 DEF CleanBlocks, SoundBlock
  <2> QED
    BY <1>4, <1>7, <2>1, <2>2 DEF StorageOK
<1>9. t.ic = EmptyCache(Inode)
  BY <1>1, <1>2, <1>4
<1>10. CleanInodes(t, Single)
  BY <1>9, SingleSubset DEF CleanInodes, EmptyCache
<1> HIDE DEF t
<1>11. StorageOK(Now)' /\ CleanInodes(Now, Single)'
  BY <1>5, <1>8, <1>10 DEF Single, SoundInode
<1>12. Control'
  BY SlotBlockFacts DEF IInv, Control, Boot, Goto
<1>13. BootPart'
  <2>1. ic' = EmptyCache(Inode)
    BY <1>5, <1>9 DEF Now
  <2> QED
    BY <2>1 DEF BootPart, Boot, Goto, EmptyCache
<1>14. FreePart' /\ SyncPart'
  BY DEF IInv, FreePart, SyncPart, Boot, Goto
<1> QED
  BY <1>11, <1>12, <1>13, <1>14 DEF IInv

\* An iteration of init_inode_block keeps the invariant.
LEMMA BootInodeKeeps == IInv /\ BootInode => IInv'
<1> SUFFICES ASSUME IInv, BootInode PROVE IInv'
  OBVIOUS
<1>1. PICK bad \in Faults, indirect \in DataBlock \union {NULL} :
        LET i == cursor
            s == GetBlock(Now, INODE_TO_BLOCK(i), bad)
            v == InodeInBlock(s, i)
            t == IF indirect = NULL THEN s ELSE GetBlock(s, indirect, bad)
        IN  IF v = FREE
            THEN Become(s) /\ UNCHANGED inode_bitmap
            ELSE Become(SetInodeLru(t, i, v, bad)) /\ inode_bitmap' = inode_bitmap \union {i}
  BY DEF BootInode
<1> DEFINE i == cursor
           s == GetBlock(Now, INODE_TO_BLOCK(i), bad)
           v == InodeInBlock(s, i)
           t == IF indirect = NULL THEN s ELSE GetBlock(s, indirect, bad)
           u == SetInodeLru(t, i, v, bad)
<1>2. i \in Inode /\ i >= 1
  <2>1. pc = "boot" /\ i \in Nat /\ i < NUM_INODES
    BY DEF BootInode, IInv, Control
  <2>2. i >= 1
    BY <2>1 DEF IInv, BootPart
  <2> QED
    BY <2>1, <2>2, StorageAssumption DEF Inode
<1>3. /\ StorageOK(s) /\ s.ic = ic
      /\ \A x \in SoundBlock : BlockData(s, x) = BlockData(Now, x)
  BY <1>2, InodeAddress, GetBlockKeeps DEF IInv, Now
<1> HIDE DEF s
<1>4. /\ StorageOK(t) /\ t.ic = ic
      /\ \A x \in SoundBlock : BlockData(t, x) = BlockData(s, x)
  BY <1>3, SlotBlockFacts, GetBlockKeeps
<1> HIDE DEF t
<1>5. \A j \in SoundInode : j \in Inode /\ InodeInBlock(s, j) = InodeInBlock(Now, j)
                                    /\ InodeInBlock(t, j) = InodeInBlock(s, j)
  BY <1>3, <1>4, InodeAddress DEF SoundInode, InodeInBlock
<1>6. CleanInodes(s, Single) /\ CleanInodes(t, Single)
  BY <1>3, <1>4, <1>5, SingleSubset DEF IInv, CleanInodes, Now
<1>7. v \in Cell
  BY <1>2, <1>3, InodeHash
<1>8. t.ic.hash[i] = NULL
  <2>1. pc = "boot" /\ i >= cursor
    BY <1>2 DEF BootInode, Inode
  <2>2. \A j \in Inode : j >= cursor => ic.hash[j] = NULL
    BY <2>1 DEF IInv, BootPart
  <2> QED
    BY <1>2, <1>4, <2>1, <2>2
<1>9. i \in Single => v = InodeInBlock(t, i)
  BY <1>5, SingleSubset
<1> HIDE DEF v
<1>10. /\ StorageOK(u)
       /\ \A J \in SUBSET SoundInode :
            CleanInodes(t, J) /\ (i \in J => v = InodeInBlock(t, i)) => CleanInodes(u, J)
       /\ \A j \in Inode : j # i /\ u.ic.hash[j] # NULL => t.ic.hash[j] # NULL
  BY <1>2, <1>4, <1>7, <1>8, SetInodeLruKeeps
<1> HIDE DEF u
<1>11. CleanInodes(u, Single)
  BY <1>6, <1>9, <1>10, SingleSubset
<1>12. \E w : /\ StorageOK(w) /\ CleanInodes(w, Single) /\ Become(w)
              /\ \A j \in Inode : j # i /\ w.ic.hash[j] # NULL => ic.hash[j] # NULL
              /\ inode_bitmap' \subseteq inode_bitmap \union {i}
  <2>1. CASE v = FREE
    <3>1. Become(s) /\ inode_bitmap' = inode_bitmap
      BY <1>1, <2>1 DEF s, v
    <3> QED
      BY <3>1, <1>3, <1>6
  <2>2. CASE v # FREE
    <3>1. Become(u) /\ inode_bitmap' = inode_bitmap \union {i}
      BY <1>1, <2>2 DEF s, v, t, u
    <3> QED
      BY <3>1, <1>4, <1>10, <1>11
  <2> QED
    BY <2>1, <2>2
<1>13. PICK w : /\ StorageOK(w) /\ CleanInodes(w, Single) /\ Become(w)
                /\ \A j \in Inode : j # i /\ w.ic.hash[j] # NULL => ic.hash[j] # NULL
                /\ inode_bitmap' \subseteq inode_bitmap \union {i}
  BY <1>12
<1>14. Now' = w
  BY <1>13, BecomeNow
<1>15. StorageOK(Now)' /\ CleanInodes(Now, Single)'
  BY <1>13, <1>14 DEF Single, SoundInode
<1>16. Control'
  BY <1>2, <1>13 DEF IInv, Control, BootInode
<1>17. BootPart'
  <2>1. cursor' = i + 1 /\ pc' = "boot" /\ ic' = w.ic
    BY <1>14 DEF BootInode, Now
  <2>2. ASSUME NEW j \in Inode, j >= i + 1
        PROVE  w.ic.hash[j] = NULL
    <3>1. i \in Int /\ j \in Int /\ j >= i /\ j # i
      BY <2>2, <1>2 DEF Inode
    <3>2. ic.hash[j] = NULL
      BY <3>1 DEF IInv, BootPart, BootInode
    <3> QED
      BY <3>1, <3>2, <1>13
  <2>3. i + 1 >= 1
    BY <1>2 DEF Inode
  <2> QED
    BY <2>1, <2>2, <2>3 DEF BootPart
<1>18. FreePart' /\ SyncPart'
  BY DEF IInv, FreePart, SyncPart, BootInode
<1> QED
  BY <1>15, <1>16, <1>17, <1>18 DEF IInv

\* So does the end of its loop.
LEMMA BootDoneKeeps == IInv /\ BootDone => IInv'
<1> SUFFICES ASSUME IInv, BootDone PROVE IInv'
  OBVIOUS
<1>1. Now' = Now
  BY DEF BootDone, Now
<1>2. Control' /\ BootPart' /\ FreePart' /\ SyncPart'
  BY DEF IInv, Control, BootPart, FreePart, SyncPart, BootDone, Goto
<1> QED
  BY <1>1, <1>2 DEF IInv, Single, SoundInode

\* Clean inodes stay clean when neither they nor their blocks change.
LEMMA CleanInodesSame ==
  ASSUME NEW s, NEW t, NEW J \in SUBSET SoundInode, CleanInodes(s, J), t.ic = s.ic,
         \A x \in SoundBlock : x \notin DataBlock => BlockData(t, x) = BlockData(s, x)
  PROVE  CleanInodes(t, J)
<1>1. \A i \in J : InodeInBlock(t, i) = InodeInBlock(s, i)
  BY InodeAddress DEF SoundInode, InodeInBlock
<1> QED
  BY <1>1 DEF CleanInodes

\* Fetching a data block keeps the invariant.
LEMMA ReadBlockKeeps ==
  ASSUME IInv, NEW b \in DataBlock, ReadBlock(b)
  PROVE  IInv'
<1>1. PICK bad \in Faults : Become(GetBlock(Now, b, bad))
  BY DEF ReadBlock
<1> DEFINE s == GetBlock(Now, b, bad)
<1>2. /\ StorageOK(s) /\ s.ic = Now.ic
      /\ \A x \in SoundBlock : BlockData(s, x) = BlockData(Now, x)
  BY SlotBlockFacts, GetBlockKeeps DEF IInv
<1> HIDE DEF s
<1>3. CleanInodes(s, Single)
  BY <1>2, SingleSubset, CleanInodesSame DEF IInv
<1>4. Become(s) /\ pc = "ready" /\ NoLoop /\ inode_bitmap' \subseteq Inode
  BY <1>1 DEF ReadBlock, s, IInv, Control
<1> QED
  BY <1>2, <1>3, <1>4, RequestKeeps

\* So does a store into a data block.
LEMMA WriteBlockKeeps ==
  ASSUME IInv, NEW b \in DataBlock, NEW o \in DataSlot, NEW v \in Cell, WriteBlock(b, o, v)
  PROVE  IInv'
<1>1. PICK bad \in Faults : Become(PutCell(Now, b, o, v, bad))
  BY DEF WriteBlock
<1> DEFINE s == PutCell(Now, b, o, v, bad)
<1>2. /\ StorageOK(s) /\ s.ic = Now.ic
      /\ \A x \in SoundBlock : BlockData(s, x) =
           IF x = b THEN [BlockData(Now, x) EXCEPT ![o] = v] ELSE BlockData(Now, x)
  BY SlotBlockFacts, PutCellKeeps DEF IInv
<1> HIDE DEF s
<1>3. CleanInodes(s, Single)
  BY <1>2, SingleSubset, CleanInodesSame DEF IInv
<1>4. Become(s) /\ pc = "ready" /\ NoLoop /\ inode_bitmap' \subseteq Inode
  BY <1>1 DEF WriteBlock, s, IInv, Control
<1> QED
  BY <1>2, <1>3, <1>4, RequestKeeps

\* Fetching an inode keeps the invariant.
LEMMA UseInodeKeeps ==
  ASSUME IInv, NEW i \in Inode, UseInode(i)
  PROVE  IInv'
<1>1. PICK bad \in Faults : Become(GetUseInode(Now, i, bad))
  BY DEF UseInode
<1> DEFINE s == GetUseInode(Now, i, bad)
<1>2. StorageOK(s) /\ \A J \in SUBSET SoundInode : CleanInodes(Now, J) => CleanInodes(s, J)
  BY GetUseInodeKeeps DEF IInv
<1> HIDE DEF s
<1>3. CleanInodes(s, Single)
  BY <1>2, SingleSubset DEF IInv
<1>4. Become(s) /\ pc = "ready" /\ NoLoop /\ inode_bitmap' \subseteq Inode
  BY <1>1 DEF UseInode, s, IInv, Control
<1> QED
  BY <1>2, <1>3, <1>4, RequestKeeps

\* So does a store into an inode that is then marked dirty.
LEMMA ChangeInodeKeeps ==
  ASSUME IInv, NEW i \in Inode, NEW v \in Val, ChangeInode(i, v)
  PROVE  IInv'
<1> DEFINE e == Dirty(i, v)
<1>1. PICK bad \in Faults :
        LET s == GetUseInode(Now, i, bad)
        IN  s.ic.hash[i] # NULL /\ Become(SetCachedInode(s, i, e))
  BY DEF ChangeInode
<1> DEFINE s == GetUseInode(Now, i, bad)
           t == SetCachedInode(s, i, e)
<1>2. StorageOK(s) /\ \A J \in SUBSET SoundInode : CleanInodes(Now, J) => CleanInodes(s, J)
  BY GetUseInodeKeeps DEF IInv
<1> HIDE DEF s
<1>3. CleanInodes(s, Single \ {i})
  BY <1>2, SingleSubset, CleanInodesSubset DEF IInv
<1>4. e \in Entry(Inode, Cell) /\ e.num = i /\ e.dirty
  BY DirtyEntry DEF Cell
<1> HIDE DEF e
<1>5. s.ic.hash[i] # NULL /\ Become(t)
  BY <1>1 DEF s
<1>6. /\ StorageOK(t)
      /\ \A J \in SUBSET SoundInode :
           CleanInodes(s, J \ {i}) /\ (i \in J => e.dirty \/ e.val = InodeInBlock(s, i))
             => CleanInodes(t, J)
  BY <1>2, <1>4, <1>5, SetCachedInodeKeeps
<1> HIDE DEF t
<1>7. CleanInodes(t, Single)
  BY <1>3, <1>4, <1>6, SingleSubset
<1>8. pc = "ready" /\ NoLoop /\ inode_bitmap' \subseteq Inode
  BY DEF ChangeInode, IInv, Control
<1> QED
  BY <1>5, <1>6, <1>7, <1>8, RequestKeeps

\* nlink-- without isDirty touches only inodes with several links.
LEMMA DropLinkKeeps ==
  ASSUME IInv, NEW i \in Inode, NEW v \in Val, DropLink(i, v)
  PROVE  IInv'
<1>1. PICK bad \in Faults :
        LET s == GetUseInode(Now, i, bad)
        IN  /\ s.ic.hash[i] # NULL
            /\ Become(SetCachedInode(s, i, [s.ic.info[s.ic.hash[i]] EXCEPT !.val = v]))
  BY DEF DropLink
<1> DEFINE s == GetUseInode(Now, i, bad)
           x == s.ic.info[s.ic.hash[i]]
           e == [x EXCEPT !.val = v]
           t == SetCachedInode(s, i, e)
<1>2. StorageOK(s) /\ \A J \in SUBSET SoundInode : CleanInodes(Now, J) => CleanInodes(s, J)
  BY GetUseInodeKeeps DEF IInv
<1> HIDE DEF s
<1>3. CleanInodes(s, Single \ {i})
  BY <1>2, SingleSubset, CleanInodesSubset DEF IInv
<1>4. s.ic.hash[i] # NULL /\ Become(t)
  BY <1>1 DEF s
<1>5. e \in Entry(Inode, Cell) /\ e.num = i
  <2>1. x \in Entry(Inode, Cell) /\ x.num = i
    BY <1>2, <1>4, InodeHash, InodeEntry
  <2> HIDE DEF x
  <2> QED
    BY <2>1 DEF Entry, Cell
<1> HIDE DEF e
<1>6. /\ StorageOK(t)
      /\ \A J \in SUBSET SoundInode :
           CleanInodes(s, J \ {i}) /\ (i \in J => e.dirty \/ e.val = InodeInBlock(s, i))
             => CleanInodes(t, J)
  BY <1>2, <1>4, <1>5, SetCachedInodeKeeps
<1> HIDE DEF t
<1>7. i \notin Single
  BY DEF DropLink, Single
<1>8. CleanInodes(t, Single)
  BY <1>3, <1>6, <1>7, SingleSubset
<1>9. pc = "ready" /\ NoLoop /\ inode_bitmap' \subseteq Inode
  BY DEF DropLink, IInv, Control
<1> QED
  BY <1>4, <1>6, <1>8, <1>9, RequestKeeps

\* free_inode up to its sync keeps the invariant.
LEMMA FreeInodeKeeps ==
  ASSUME IInv, NEW i \in Inode, FreeInode(i)
  PROVE  IInv'
<1>1. PICK bad \in Faults :
        LET s == GetUseInode(Now, i, bad)
        IN  s.ic.hash[i] # NULL /\ StartFree(s, i)
  BY DEF FreeInode
<1> DEFINE s == GetUseInode(Now, i, bad)
<1>2. StorageOK(s) /\ \A J \in SUBSET SoundInode : CleanInodes(Now, J) => CleanInodes(s, J)
  BY GetUseInodeKeeps DEF IInv
<1>3. s.ic.hash[i] # NULL /\ StartFree(s, i)
  BY <1>1
<1> HIDE DEF s
<1>4. CleanInodes(s, Single \ {i})
  BY <1>2, SingleSubset, CleanInodesSubset DEF IInv
<1>5. pc = "ready" /\ inode_bitmap' \subseteq Inode
  BY DEF FreeInode, IInv, Control
<1> QED
  BY <1>2, <1>3, <1>4, <1>5, StartFreeKeeps

\* createFile keeps the invariant, when addEntry succeeds and when it fails.
LEMMA CreateInodeKeeps ==
  ASSUME IInv, NEW v \in Val, CreateInode(v)
  PROVE  IInv'
<1> DEFINE St(i, bad) == SetInodeLru(GetBlock(Now, INODE_TO_BLOCK(i), bad), i, v, bad)
<1>1. PICK i \in Inode \ inode_bitmap, bad \in Faults :
        \/ /\ ic.hash[i] = NULL
           /\ Become(SetCachedInode(St(i, bad), i, Dirty(i, v)))
           /\ inode_bitmap' = inode_bitmap \union {i}
           /\ NoLoop
        \/ /\ ic.hash[i] = NULL
           /\ StartFree(St(i, bad), i)
           /\ UNCHANGED inode_bitmap
        \/ ic.hash[i] # NULL /\ PowerOff
  BY DEF CreateInode
<1> DEFINE t == GetBlock(Now, INODE_TO_BLOCK(i), bad)
           s == St(i, bad)
<1>2. pc = "ready" /\ inode_bitmap \subseteq Inode
  BY DEF CreateInode, IInv, Control
<1>3. CASE ic.hash[i] # NULL /\ PowerOff
  BY <1>3, PowerOffKeeps
<1>4. ASSUME ic.hash[i] = NULL
      PROVE  StorageOK(s) /\ s.ic.hash[i] # NULL /\ CleanInodes(s, Single \ {i})
  <2>1. /\ StorageOK(t) /\ t.ic = Now.ic
        /\ \A x \in SoundBlock : BlockData(t, x) = BlockData(Now, x)
    BY InodeAddress, GetBlockKeeps DEF IInv
  <2>2. s = SetInodeLru(t, i, v, bad)
    OBVIOUS
  <2> HIDE DEF s, t
  <2>3. CleanInodes(t, Single \ {i})
    <3>1. CleanInodes(t, Single)
      BY <2>1, SingleSubset, CleanInodesSame DEF IInv
    <3> QED
      BY <3>1, CleanInodesSubset
  <2>4. t.ic.hash[i] = NULL /\ v \in Cell
    BY <2>1, <1>4 DEF Now, Cell
  <2>5. /\ StorageOK(s) /\ s.ic.hash[i] # NULL
        /\ \A J \in SUBSET SoundInode :
             CleanInodes(t, J) /\ (i \in J => v = InodeInBlock(t, i)) => CleanInodes(s, J)
    BY <2>1, <2>2, <2>4, SetInodeLruKeeps
  <2>6. Single \ {i} \in SUBSET SoundInode /\ i \notin Single \ {i}
    BY SingleSubset
  <2> QED
    BY <2>3, <2>5, <2>6
<1> HIDE DEF St
<1>5. CASE /\ ic.hash[i] = NULL
           /\ StartFree(s, i)
           /\ UNCHANGED inode_bitmap
  BY <1>2, <1>4, <1>5, StartFreeKeeps
<1>6. CASE /\ ic.hash[i] = NULL
           /\ Become(SetCachedInode(s, i, Dirty(i, v)))
           /\ inode_bitmap' = inode_bitmap \union {i}
           /\ NoLoop
  <2> DEFINE e == Dirty(i, v)
             u == SetCachedInode(s, i, e)
  <2>1. e \in Entry(Inode, Cell) /\ e.num = i /\ e.dirty
    BY DirtyEntry DEF Cell
  <2> HIDE DEF e, s
  <2>2. /\ StorageOK(u)
        /\ \A J \in SUBSET SoundInode :
             CleanInodes(s, J \ {i}) /\ (i \in J => e.dirty \/ e.val = InodeInBlock(s, i))
               => CleanInodes(u, J)
    BY <1>4, <1>6, <2>1, SetCachedInodeKeeps
  <2>3. Become(u) /\ NoLoop /\ inode_bitmap' \subseteq Inode
    BY <1>2, <1>6 DEF e
  <2> HIDE DEF u
  <2>4. CleanInodes(u, Single)
    BY <1>4, <1>6, <2>1, <2>2, SingleSubset
  <2> QED
    BY <1>2, <2>2, <2>3, <2>4, RequestKeeps
<1> QED
  BY <1>1, <1>3, <1>5, <1>6

\* Calling sync keeps the invariant.
LEMMA StartSyncKeeps ==
  ASSUME IInv, NEW who \in {"SyncHandler", "ShutdownHandler"}, StartSync(who)
  PROVE  IInv'
<1>1. Now' = Now
  BY DEF StartSync, Now
<1>2. Len(ic.queue) \in Nat
  BY WellFormedParts DEF IInv, StorageOK, Now
<1>3. Control' /\ BootPart' /\ FreePart' /\ SyncPart'
  BY <1>2 DEF IInv, Control, BootPart, FreePart, SyncPart, StartSync, Goto
<1> QED
  BY <1>1, <1>3 DEF IInv, Single, SoundInode

\* What the list of a cache consists of.
LEMMA QueueElements ==
  ASSUME StorageOK(Now)
  PROVE  /\ Len(ic.queue) \in Nat /\ Len(bc.queue) \in Nat
         /\ ToSet(ic.queue) = {ic.queue[k] : k \in 1 .. Len(ic.queue)}
         /\ ToSet(bc.queue) = {bc.queue[k] : k \in 1 .. Len(bc.queue)}
<1>1. ic.queue \in Seq(Nat) /\ bc.queue \in Seq(Nat)
  BY WellFormedParts DEF StorageOK, Now
<1> QED
  BY <1>1 DEF ToSet

\* sync copies one inode into its block: nothing a reader sees changes.
LEMMA SyncInodeEffect ==
  ASSUME IInv, SyncInode
  PROVE  /\ pc = "sync_inodes" /\ cursor \in 1 .. Len(ic.queue) /\ ic.queue[cursor] \in ToSet(ic.queue)
         /\ StorageOK(Now')
         /\ \A J \in SUBSET SoundInode : CleanInodes(Now, J) => CleanInodes(Now', J)
         /\ SameView(Now, Now') /\ Lower(Now, Now')
         /\ ic'.queue = ic.queue /\ ic'.hash = ic.hash
         /\ ~ ic'.info[ic.queue[cursor]].dirty
         /\ \A m \in ToSet(ic.queue) :
              /\ ic'.info[m].num = ic.info[m].num /\ ic'.info[m].val = ic.info[m].val
              /\ ~ ic.info[m].dirty => ~ ic'.info[m].dirty
         /\ Faults = {{}} /\ BlocksBounded(Now) => BlocksBounded(Now')
<1> DEFINE n == ic.queue[cursor]
           e == ic.info[n]
<1>1. /\ pc = "sync_inodes" /\ cursor \in 1 .. Len(ic.queue) /\ n \in ToSet(ic.queue)
      /\ StorageOK(Now)
  <2>1. pc = "sync_inodes" /\ cursor <= Len(ic.queue) /\ cursor \in Nat /\ cursor >= 1
    BY Zenon DEF IInv, Control, SyncPart, SyncInode
  <2>2. StorageOK(Now)
    BY DEF IInv
  <2> QED
    BY <2>1, <2>2, QueueElements
<1>2. /\ e \in Entry(Inode, Cell) /\ e.num \in Inode /\ e.dirty \in BOOLEAN /\ e.val \in Cell
      /\ ic.hash[e.num] = n /\ n # NULL
  BY <1>1, InodeEntry DEF Now
<1>3. CASE ~ e.dirty
  <2>1. Now' = Now /\ ic' = ic
    BY <1>3 DEF SyncInode, Now
  <2>2. SameView(Now, Now') /\ Lower(Now, Now')
    BY <2>1, LowerSame DEF SameView
  <2> QED
    BY <1>1, <1>3, <2>1, <2>2
<1>4. CASE e.dirty
  <2> DEFINE x == e.num
             v == e.val
             f == [e EXCEPT !.dirty = FALSE]
  <2>1. PICK bad \in Faults : Become([StoreInode(Now, x, v, bad) EXCEPT !.ic.info[n] = f])
    BY <1>4, Zenon DEF SyncInode
  <2> DEFINE s == StoreInode(Now, x, v, bad)
             t == SetCachedInode(s, x, f)
  <2>2. f \in Entry(Inode, Cell) /\ f.num = x /\ f.val = v /\ ~ f.dirty
    <3> HIDE DEF e
    <3> QED
      BY <1>2 DEF Entry
  <2>3. x \in Inode /\ v \in Cell /\ ic.hash[x] = n /\ ic.info[n] = e /\ e.num = x /\ e.val = v
    BY <1>2
  <2> HIDE DEF e, f, x, v, s
  <2>4. x \in SoundInode => v = InodeVal(Now, x)
    BY <1>2, <2>3 DEF InodeVal, Now
  <2>5. /\ StorageOK(s) /\ s.ic = ic
        /\ \A j \in SoundInode : InodeInBlock(s, j) = IF j = x THEN v ELSE InodeInBlock(Now, j)
        /\ SameView(Now, s) /\ Lower(Now, s)
        /\ Faults = {{}} /\ BlocksBounded(Now) => BlocksBounded(s)
    <3>1. s = StoreInode(Now, x, v, bad)
      BY DEF s
    <3>2. Faults = {{}} => bad = {}
      OBVIOUS
    <3>3. Faults = {{}} /\ BlocksBounded(Now) => BlocksBounded(s)
      BY <1>1, <2>3, <3>1, <3>2, InodeAddress, PutCellBounded DEF StoreInode
    <3>4. SameView(Now, s) /\ Lower(Now, s)
      BY <1>1, <2>3, <2>4, <3>1, StoreInodeSinks
    <3> QED
      BY <1>1, <2>3, <3>1, <3>3, <3>4, StoreInodeKeeps DEF Now
  <2>6. t = [s EXCEPT !.ic.info[n] = f] /\ s.ic.hash[x] # NULL
    BY <1>2, <2>3, <2>5 DEF SetCachedInode
  <2>7. /\ StorageOK(t)
        /\ t.disk = s.disk /\ t.bc = s.bc
        /\ t.ic.queue = s.ic.queue /\ t.ic.hash = s.ic.hash
        /\ t.ic.info[s.ic.hash[x]] = f
        /\ \A m \in ToSet(s.ic.queue) \ {s.ic.hash[x]} : t.ic.info[m] = s.ic.info[m]
        /\ \A j \in SoundInode : InodeVal(t, j) = IF j = x THEN f.val ELSE InodeVal(s, j)
        /\ \A J \in SUBSET SoundInode :
             CleanInodes(s, J \ {x}) /\ (x \in J => f.dirty \/ f.val = InodeInBlock(s, x))
               => CleanInodes(t, J)
    <3>1. f \in Entry(Inode, Cell) /\ f.num = x
      BY <2>2
    <3>2. x \in Inode /\ StorageOK(s) /\ s.ic.hash[x] # NULL
      BY <2>3, <2>5, <2>6
    <3> QED
      BY <3>1, <3>2, SetCachedInodeKeeps
  <2>8. Become(t)
    BY <2>1, <2>6 DEF s
  <2> HIDE DEF t
  <2>9. Now' = t
    BY <2>7, <2>8, BecomeNow
  <2>10. ASSUME NEW J \in SUBSET SoundInode, CleanInodes(Now, J)
         PROVE  CleanInodes(t, J)
    <3>1. CleanInodes(s, J \ {x})
      BY <2>5, <2>10 DEF CleanInodes, Now
    <3> QED
      BY <2>2, <2>5, <2>7, <3>1
  <2>11. SameView(Now, t) /\ Lower(Now, t)
    <3>1. Lower(Now, t)
      BY <2>5, <2>7, LowerSame, LowerAfter
    <3>2. \A j \in SoundInode : InodeVal(t, j) = InodeVal(Now, j)
      BY <2>2, <2>4, <2>5, <2>7 DEF SameView
    <3>3. \A b \in DataBlock : BlockData(t, b) = BlockData(Now, b)
      BY <2>5, <2>7, LowerSame DEF SameView
    <3> QED
      BY <3>1, <3>2, <3>3 DEF SameView
  <2>12. ic' = t.ic
    BY <2>9 DEF Now
  <2> HIDE DEF n
  <2>13. /\ ic'.queue = ic.queue /\ ic'.hash = ic.hash
         /\ ic'.info[n] = f
         /\ \A m \in ToSet(ic.queue) \ {n} : ic'.info[m] = ic.info[m]
    BY <2>3, <2>5, <2>7, <2>12
  <2>14. /\ ~ ic'.info[n].dirty
         /\ \A m \in ToSet(ic.queue) :
              /\ ic'.info[m].num = ic.info[m].num /\ ic'.info[m].val = ic.info[m].val
              /\ ~ ic.info[m].dirty => ~ ic'.info[m].dirty
    BY <2>2, <2>3, <2>13
  <2>15. Faults = {{}} /\ BlocksBounded(Now) => BlocksBounded(t)
    BY <2>5, <2>7 DEF BlocksBounded
  <2> QED
    BY <1>1, <2>7, <2>9, <2>10, <2>11, <2>13, <2>14, <2>15 DEF n
<1> QED
  BY <1>2, <1>3, <1>4

\* sync leaves the inodes it has passed clean.
LEMMA SyncInodeKeeps == IInv /\ SyncInode => IInv'
<1> SUFFICES ASSUME IInv, SyncInode PROVE IInv'
  OBVIOUS
<1>1. /\ pc = "sync_inodes" /\ cursor \in 1 .. Len(ic.queue)
      /\ StorageOK(Now) /\ StorageOK(Now') /\ CleanInodes(Now', Single)
      /\ ic'.queue = ic.queue
      /\ ~ ic'.info[ic.queue[cursor]].dirty
      /\ \A m \in ToSet(ic.queue) : ~ ic.info[m].dirty => ~ ic'.info[m].dirty
  BY SyncInodeEffect, SingleSubset DEF IInv
<1>2. cursor' = cursor + 1 /\ pc' = pc /\ UNCHANGED <<inode_bitmap, caller, info, res>>
  BY Zenon DEF SyncInode
<1>3. Control' /\ BootPart' /\ FreePart'
  BY <1>1, <1>2 DEF IInv, Control, BootPart, FreePart
<1>4. SyncPart'
  <2> SUFFICES ASSUME NEW k \in 1 .. Len(ic.queue), k < cursor + 1
               PROVE  ~ ic'.info[ic.queue[k]].dirty
    BY <1>1, <1>2 DEF SyncPart
  <2>1. CASE k = cursor
    BY <2>1, <1>1
  <2>2. CASE k < cursor
    <3>1. ~ ic.info[ic.queue[k]].dirty
      BY <1>1, <2>2 DEF IInv, SyncPart
    <3> QED
      BY <3>1, <1>1, QueueElements
  <2> QED
    BY <1>1, <2>1, <2>2
<1> QED
  BY <1>1, <1>3, <1>4 DEF IInv, Single, SoundInode

\* After the first loop of sync no cached inode is dirty.
LEMMA SyncInodesDoneKeeps == IInv /\ SyncInodesDone => IInv'
<1> SUFFICES ASSUME IInv, SyncInodesDone PROVE IInv'
  OBVIOUS
<1>1. Now' = Now
  BY DEF SyncInodesDone, Now
<1>2. \A m \in ToSet(ic.queue) : ~ ic.info[m].dirty
  <2>1. \A k \in 1 .. Len(ic.queue) : k < cursor => ~ ic.info[ic.queue[k]].dirty
    BY DEF IInv, SyncPart, SyncInodesDone
  <2>2. cursor > Len(ic.queue) /\ cursor \in Nat
    BY DEF IInv, Control, SyncInodesDone
  <2>3. StorageOK(Now)
    BY DEF IInv
  <2> QED
    BY <2>1, <2>2, <2>3, QueueElements
<1>3. Len(bc.queue) \in Nat
  BY QueueElements DEF IInv
<1>4. Control' /\ BootPart' /\ FreePart' /\ SyncPart'
  BY <1>2, <1>3 DEF IInv, Control, BootPart, FreePart, SyncPart, SyncInodesDone, Goto
<1> QED
  BY <1>1, <1>4 DEF IInv, Single, SoundInode

\* After the second loop of sync no cached block is dirty.
LEMMA SyncBlocksDoneKeeps == IInv /\ SyncBlocksDone => IInv'
<1> SUFFICES ASSUME IInv, SyncBlocksDone PROVE IInv'
  OBVIOUS
<1>1. Now' = Now
  BY DEF SyncBlocksDone, Now
<1>2. \A m \in ToSet(bc.queue) : ~ bc.info[m].dirty
  <2>1. \A k \in 1 .. Len(bc.queue) : k < cursor => ~ bc.info[bc.queue[k]].dirty
    BY DEF IInv, SyncPart, SyncBlocksDone
  <2>2. cursor > Len(bc.queue) /\ cursor \in Nat
    BY DEF IInv, Control, SyncBlocksDone
  <2>3. StorageOK(Now)
    BY DEF IInv
  <2> QED
    BY <2>1, <2>2, <2>3, QueueElements
<1>3. \A m \in ToSet(ic.queue) : ~ ic.info[m].dirty
  BY DEF IInv, SyncPart, SyncBlocksDone
<1>4. Control' /\ BootPart' /\ FreePart' /\ SyncPart'
  BY <1>2, <1>3 DEF IInv, Control, BootPart, FreePart, SyncPart, SyncBlocksDone, Goto
<1> QED
  BY <1>1, <1>4 DEF IInv, Single, SoundInode

\* Answering a Sync keeps the invariant.
LEMMA SyncReplyKeeps == IInv /\ SyncReply => IInv'
<1> SUFFICES ASSUME IInv, SyncReply PROVE IInv'
  OBVIOUS
<1>1. Now' = Now
  BY DEF SyncReply, Now
<1>2. Control' /\ BootPart' /\ FreePart' /\ SyncPart'
  BY DEF IInv, Control, BootPart, FreePart, SyncPart, SyncReply, Goto
<1> QED
  BY <1>1, <1>2 DEF IInv, Single, SoundInode

\* sync writes one block, and no block changes, or it gives up.
LEMMA SyncBlockEffect ==
  ASSUME IInv, SyncBlock
  PROVE  /\ pc = "sync_blocks" /\ cursor \in 1 .. Len(bc.queue) /\ bc.queue[cursor] \in ToSet(bc.queue)
         /\ UNCHANGED <<ic, inode_bitmap, caller, info>>
         /\ StorageOK(Now')
         /\ \A b \in SoundBlock : BlockData(Now', b) = BlockData(Now, b)
         /\ SectorsFollow(Now, Now')
         /\ bc'.queue = bc.queue
         /\ \A m \in ToSet(bc.queue) : ~ bc.info[m].dirty => ~ bc'.info[m].dirty
         /\ \/ Goto("sync_done", 0) /\ res' = -1
            \/ /\ cursor' = cursor + 1 /\ pc' = pc /\ res' = res
               /\ ~ bc'.info[bc.queue[cursor]].dirty
<1> DEFINE n == bc.queue[cursor]
           e == bc.info[n]
           f == [e EXCEPT !.dirty = FALSE]
           d == IF e.dirty THEN [disk EXCEPT ![e.num] = e.val] ELSE disk
           c == [bc EXCEPT !.info[n] = f]
<1>1. /\ pc = "sync_blocks" /\ cursor \in 1 .. Len(bc.queue) /\ n \in ToSet(bc.queue)
      /\ StorageOK(Now)
  <2>1. pc = "sync_blocks" /\ cursor <= Len(bc.queue) /\ cursor \in Nat /\ cursor >= 1
    BY DEF IInv, Control, SyncPart, SyncBlock
  <2>2. StorageOK(Now)
    BY DEF IInv
  <2> QED
    BY <2>1, <2>2, QueueElements
<1>2. UNCHANGED <<ic, inode_bitmap, caller, info>>
  BY DEF SyncBlock
<1>3. CASE e.dirty /\ Goto("sync_done", 0) /\ res' = -1 /\ UNCHANGED <<disk, bc>>
  <2>1. Now' = Now /\ bc' = bc
    BY <1>2, <1>3 DEF Now
  <2>2. SectorsFollow(Now, Now')
    BY <2>1 DEF SectorsFollow
  <2> QED
    BY <1>1, <1>2, <1>3, <2>1, <2>2
<1>4. CASE disk' = d /\ bc' = c /\ cursor' = cursor + 1 /\ UNCHANGED <<pc, res>>
  <2>1. /\ e \in Entry(Block, [Slot -> Cell]) /\ e.num \in Block /\ e.dirty \in BOOLEAN
        /\ e.val \in [Slot -> Cell]
        /\ e.num \in SoundBlock => bc.hash[e.num] = n
        /\ n # NULL
    <3>1. Now.bc = bc
      BY DEF Now
    <3> HIDE DEF n
    <3> QED
      BY <1>1, <3>1, BlockEntry
  <2>2. /\ disk \in [Block -> [Slot -> Cell]]
        /\ WellFormed(bc, Block, [Slot -> Cell], SoundBlock)
        /\ WellFormed(ic, Inode, Cell, Inode)
        /\ \A b \in SoundBlock : bc.hash[b] # NULL =>
             (~ bc.info[bc.hash[b]].dirty => bc.info[bc.hash[b]].val = disk[b])
    BY <1>1 DEF StorageOK, Now, DiskType, CleanBlocks
  <2>3. bc.info[n] = e
    OBVIOUS
  <2>4. f \in Entry(Block, [Slot -> Cell]) /\ f.num = e.num /\ f.val = e.val /\ ~ f.dirty
    <3> HIDE DEF e
    <3> QED
      BY <2>1 DEF Entry
  <2>5. d \in [Block -> [Slot -> Cell]]
        /\ \A b \in Block : d[b] = IF e.dirty /\ b = e.num THEN e.val ELSE disk[b]
    BY <2>1, <2>2
  <2> HIDE DEF e, f, d
  <2>6. WellFormed(c, Block, [Slot -> Cell], SoundBlock)
    BY <1>1, <2>2, <2>3, <2>4, UpdateWellFormed
  <2>7. /\ c.hash = bc.hash /\ c.queue = bc.queue
        /\ c.info[n] = f /\ \A m \in ToSet(bc.queue) \ {n} : c.info[m] = bc.info[m]
    <3>1. bc \in [hash : {bc.hash}, queue : {bc.queue}, info : {bc.info}]
      BY <2>2 DEF WellFormed, CacheType
    <3>2. c = [hash |-> bc.hash, queue |-> bc.queue, info |-> [bc.info EXCEPT ![n] = f]]
      BY <3>1
    <3>3. bc.info \in [ToSet(bc.queue) -> Entry(Block, [Slot -> Cell])]
      BY <2>2, WellFormedParts
    <3> HIDE DEF n
    <3> QED
      BY <1>1, <3>2, <3>3
  <2> HIDE DEF c, n
  <2>8. Now' = [disk |-> d, bc |-> c, ic |-> ic]
    BY <1>2, <1>4 DEF Now
  <2>9. \A b \in SoundBlock : b \in Block
    BY DEF SoundBlock
  <2>10. \A b \in SoundBlock : bc.hash[b] # NULL =>
           bc.hash[b] \in ToSet(bc.queue) /\ bc.info[bc.hash[b]].num = b
    BY <2>2, <2>9, WellFormedParts
  <2>11. ASSUME NEW b \in SoundBlock
         PROVE  /\ bc.hash[b] # NULL => c.info[c.hash[b]].val = bc.info[bc.hash[b]].val
                /\ bc.hash[b] = NULL => d[b] = disk[b]
                /\ bc.hash[b] # NULL /\ ~ c.info[c.hash[b]].dirty => c.info[c.hash[b]].val = d[b]
                /\ d[b] = disk[b] \/ (bc.hash[b] # NULL /\ d[b] = bc.info[bc.hash[b]].val)
    <3>1. CASE b = e.num
      BY <3>1, <2>1, <2>2, <2>3, <2>4, <2>5, <2>7, <2>9
    <3>2. CASE b # e.num
      <4>1. d[b] = disk[b]
        BY <3>2, <2>5, <2>9
      <4>2. bc.hash[b] # NULL => c.info[c.hash[b]] = bc.info[bc.hash[b]]
        BY <3>2, <2>3, <2>7, <2>10
      <4> QED
        BY <4>1, <4>2, <2>2, <2>7
    <3> QED
      BY <3>1, <3>2
  <2>12. CleanBlocks(Now')
    BY <2>7, <2>8, <2>11 DEF CleanBlocks
  <2>13. StorageOK(Now')
    BY <2>2, <2>5, <2>6, <2>8, <2>12 DEF StorageOK, DiskType
  <2>14. Now.bc = bc /\ Now.disk = disk /\ Now'.bc = c /\ Now'.disk = d
    BY <2>8 DEF Now
  <2>15. \A b \in SoundBlock : BlockData(Now', b) = BlockData(Now, b)
    BY <2>7, <2>11, <2>14 DEF BlockData
  <2>16. SectorsFollow(Now, Now')
    BY <2>11, <2>14 DEF SectorsFollow, BlockData
  <2>17. /\ bc'.queue = bc.queue /\ ~ bc'.info[n].dirty
         /\ \A m \in ToSet(bc.queue) : ~ bc.info[m].dirty => ~ bc'.info[m].dirty
    BY <1>4, <2>4, <2>7
  <2> QED
    BY <1>1, <1>2, <1>4, <2>13, <2>15, <2>16, <2>17 DEF n
<1> QED
  BY <1>3, <1>4 DEF SyncBlock

\* sync leaves the blocks it has passed clean.
LEMMA SyncBlockKeeps == IInv /\ SyncBlock => IInv'
<1> SUFFICES ASSUME IInv, SyncBlock PROVE IInv'
  OBVIOUS
<1>1. /\ pc = "sync_blocks" /\ cursor \in 1 .. Len(bc.queue)
      /\ UNCHANGED <<ic, inode_bitmap, caller, info>>
      /\ StorageOK(Now) /\ StorageOK(Now')
      /\ \A b \in SoundBlock : BlockData(Now', b) = BlockData(Now, b)
      /\ bc'.queue = bc.queue
      /\ \A m \in ToSet(bc.queue) : ~ bc.info[m].dirty => ~ bc'.info[m].dirty
  BY SyncBlockEffect DEF IInv
<1>2. CleanInodes(Now', Single)
  BY <1>1, SingleSubset, CleanInodesSame DEF IInv, Now
<1>3. CASE Goto("sync_done", 0) /\ res' = -1
  BY <1>1, <1>2, <1>3 DEF IInv, Control, BootPart, FreePart, SyncPart, Goto, Single, SoundInode
<1>4. CASE cursor' = cursor + 1 /\ pc' = pc /\ res' = res /\ ~ bc'.info[bc.queue[cursor]].dirty
  <2>1. Control' /\ BootPart' /\ FreePart'
    BY <1>1, <1>4 DEF IInv, Control, BootPart, FreePart
  <2>2. ASSUME NEW k \in 1 .. Len(bc.queue), k < cursor + 1
        PROVE  ~ bc'.info[bc.queue[k]].dirty
    <3>1. CASE k = cursor
      BY <3>1, <1>4
    <3>2. CASE k < cursor
      <4>1. ~ bc.info[bc.queue[k]].dirty
        BY <1>1, <3>2 DEF IInv, SyncPart
      <4>2. bc.queue[k] \in ToSet(bc.queue)
        BY <1>1, QueueElements
      <4> QED
        BY <1>1, <4>1, <4>2
    <3> QED
      BY <1>1, <2>2, <3>1, <3>2
  <2>3. \A m \in ToSet(ic.queue) : ~ ic.info[m].dirty
    BY <1>1 DEF IInv, SyncPart
  <2>4. SyncPart'
    BY <1>1, <1>4, <2>2, <2>3 DEF SyncPart
  <2> QED
    BY <1>1, <1>2, <2>1, <2>4 DEF IInv, Single, SoundInode
<1> QED
  BY <1>3, <1>4, SyncBlockEffect

\* Freeing the entry after sync keeps the invariant.
LEMMA FreeDoneKeeps == IInv /\ FreeDone => IInv'
<1> SUFFICES ASSUME IInv, FreeDone PROVE IInv'
  OBVIOUS
<1> DEFINE c == Drop(ic, info)
           x == ic.info[info].num
<1>1. StorageOK(Now) /\ info \in ToSet(ic.queue)
  BY DEF IInv, FreePart, FreeDone
<1>2. /\ WellFormed(ic, Inode, Cell, Inode)
      /\ WellFormed(bc, Block, [Slot -> Cell], SoundBlock)
      /\ disk \in DiskType /\ CleanBlocks(Now)
  BY <1>1 DEF StorageOK, Now
<1>3. /\ WellFormed(c, Inode, Cell, Inode)
      /\ c.hash = [ic.hash EXCEPT ![x] = NULL]
      /\ \A m \in ToSet(ic.queue) \ {info} : c.info[m] = ic.info[m]
  BY <1>1, <1>2, DropWellFormed
<1>4. \A j \in Inode : c.hash[j] = IF j = x THEN NULL ELSE ic.hash[j]
  BY <1>1, <1>2, <1>3, WellFormedParts
<1>5. Now' = [disk |-> disk, bc |-> bc, ic |-> c]
  BY DEF FreeDone, Now
<1> HIDE DEF c
<1>6. StorageOK(Now')
  <2>1. CleanBlocks(Now')
    BY <1>2, <1>5 DEF CleanBlocks, Now
  <2> QED
    BY <1>2, <1>3, <1>5, <2>1 DEF StorageOK
<1>7. CleanInodes(Now', Single)
  <2>1. \A j \in SoundInode : j \in Inode /\ InodeInBlock(Now', j) = InodeInBlock(Now, j)
    BY <1>5 DEF SoundInode, InodeInBlock, BlockData, Now
  <2>2. ASSUME NEW j \in Single, c.hash[j] # NULL
        PROVE  c.hash[j] = ic.hash[j] /\ c.info[c.hash[j]] = ic.info[ic.hash[j]]
    <3>1. j \in Inode /\ j # x /\ c.hash[j] = ic.hash[j]
      BY <1>4, <2>2, SingleSubset
    <3>2. ic.hash[j] \in ToSet(ic.queue) /\ ic.info[ic.hash[j]].num = j
      BY <1>2, <2>2, <3>1, WellFormedParts
    <3> QED
      BY <1>3, <3>1, <3>2
  <2>3. CleanInodes(Now, Single) /\ Now.ic = ic /\ Now'.ic = c
    BY <1>5 DEF IInv, Now
  <2> QED
    BY <2>1, <2>2, <2>3, SingleSubset DEF CleanInodes
<1>8. Control' /\ BootPart' /\ FreePart' /\ SyncPart'
  BY DEF IInv, Control, BootPart, FreePart, SyncPart, FreeDone, Goto
<1> QED
  BY <1>6, <1>7, <1>8 DEF IInv, Single, SoundInode

-----------------------------------------------------------------------------
(* The theorems.                                                           *)

\* Every step of the server keeps the invariant.
THEOREM NextInvariant == IInv /\ [Next]_vars => IInv'
<1> SUFFICES ASSUME IInv, [Next]_vars PROVE IInv'
  OBVIOUS
<1>1. CASE Boot
  BY <1>1, BootKeeps
<1>2. CASE Crash
  BY <1>2, PowerOffKeeps DEF Crash
<1>3. CASE Request
  <2>1. ASSUME NEW b \in DataBlock, ReadBlock(b) PROVE IInv'
    BY <2>1, ReadBlockKeeps
  <2>2. ASSUME NEW b \in DataBlock, NEW o \in DataSlot, NEW v \in Cell, WriteBlock(b, o, v)
        PROVE  IInv'
    BY <2>2, WriteBlockKeeps
  <2>3. ASSUME NEW i \in Inode, UseInode(i) PROVE IInv'
    BY <2>3, UseInodeKeeps
  <2>4. ASSUME NEW i \in Inode, FreeInode(i) PROVE IInv'
    BY <2>4, FreeInodeKeeps
  <2>5. ASSUME NEW i \in Inode, NEW v \in Val, ChangeInode(i, v) PROVE IInv'
    BY <2>5, ChangeInodeKeeps
  <2>6. ASSUME NEW i \in Inode, NEW v \in Val, DropLink(i, v) PROVE IInv'
    BY <2>6, DropLinkKeeps
  <2>7. ASSUME NEW v \in Val, CreateInode(v) PROVE IInv'
    BY <2>7, CreateInodeKeeps
  <2>8. ASSUME NEW who \in {"SyncHandler", "ShutdownHandler"}, StartSync(who) PROVE IInv'
    BY <2>8, StartSyncKeeps
  <2> QED
    BY <1>3, <2>1, <2>2, <2>3, <2>4, <2>5, <2>6, <2>7, <2>8 DEF Request
<1>4. CASE Progress
  <2>1. CASE ShutdownExit
    BY <2>1, PowerOffKeeps DEF ShutdownExit
  <2> QED
    BY <1>4, <2>1, BootInodeKeeps, BootDoneKeeps, SyncInodeKeeps, SyncInodesDoneKeeps,
       SyncBlockKeeps, SyncBlocksDoneKeeps, SyncReplyKeeps, FreeDoneKeeps DEF Progress
<1>5. CASE UNCHANGED vars
  <2>1. Now' = Now
    BY <1>5 DEF vars, Now
  <2>2. Control' /\ BootPart' /\ FreePart' /\ SyncPart'
    BY <1>5 DEF IInv, vars, Control, BootPart, FreePart, SyncPart
  <2> QED
    BY <2>1, <2>2 DEF IInv, Single, SoundInode
<1> QED
  BY <1>1, <1>2, <1>3, <1>4, <1>5 DEF Next

\* The invariant holds in every state the server can be in.
THEOREM Invariance == Spec => []IInv
BY InitInvariant, NextInvariant, PTL DEF Spec

\* The variables stay in their types.
THEOREM TypeCorrect == Spec => []TypeOK
<1>1. IInv => TypeOK
  <2> SUFFICES ASSUME IInv PROVE TypeOK
    OBVIOUS
  <2>1. disk \in [Block -> [Slot -> Cell]]
    BY DEF IInv, StorageOK, DiskType, Now
  <2>2. CacheType(bc, Block, [Slot -> Cell]) /\ CacheType(ic, Inode, Cell)
    BY DEF IInv, StorageOK, WellFormed, Now
  <2> QED
    BY <2>1, <2>2 DEF IInv, Control, TypeOK
<1> QED
  BY <1>1, Invariance, PTL

\* However gets, evictions, frees and failed sector writes interleave, the
\* lists and the hash tables of both caches hold the same entries.
THEOREM CachesStayLinked == Spec => []CachesLinked
<1>1. IInv => CachesLinked
  BY DEF IInv, StorageOK, WellFormed, Now, CachesLinked
<1> QED
  BY <1>1, Invariance, PTL

\* What is not marked dirty is already in the level below.
THEOREM CleanStaysBelow == Spec => []CleanIsBelow
<1>1. IInv => CleanIsBelow
  BY DEF IInv, StorageOK, CleanBlocks, CleanInodes, Now, Single, CleanIsBelow
<1> QED
  BY <1>1, Invariance, PTL

\* With nothing dirty every level holds what readers see.
LEMMA SyncedState == IInv => SyncDurable
<1> SUFFICES ASSUME IInv, pc = "sync_done", res = 0
             PROVE  /\ \A b \in SoundBlock : OnDisk(b)
                    /\ \A i \in SoundInode \ MultiLinked : InodeOnDisk(i)
  BY DEF SyncDurable
<1>1. /\ \A n \in ToSet(ic.queue) : ~ ic.info[n].dirty
      /\ \A n \in ToSet(bc.queue) : ~ bc.info[n].dirty
  BY DEF IInv, SyncPart
<1>2. StorageOK(Now) /\ Now.bc = bc /\ Now.ic = ic /\ Now.disk = disk
  BY DEF IInv, Now
<1>3. ASSUME NEW b \in SoundBlock PROVE BlockData(Now, b) = disk[b]
  <2>1. b \in Block
    BY DEF SoundBlock
  <2>2. bc.hash[b] # NULL => ~ bc.info[bc.hash[b]].dirty
    BY <1>1, <1>2, <2>1, BlockHash
  <2> QED
    BY <1>2, <2>2 DEF StorageOK, CleanBlocks, BlockData
<1>4. ASSUME NEW i \in Single PROVE InodeOnDisk(i)
  <2>1. i \in Inode /\ INODE_TO_BLOCK(i) \in SoundBlock
    BY SingleSubset, InodeAddress
  <2>2. InodeInBlock(Now, i) = disk[INODE_TO_BLOCK(i)][INODE_IN_BLOCK_ADDR(i)]
    BY <1>3, <2>1 DEF InodeInBlock
  <2>3. ic.hash[i] # NULL => ~ ic.info[ic.hash[i]].dirty
    BY <1>1, <1>2, <2>1, InodeHash
  <2>4. ic.hash[i] # NULL => ic.info[ic.hash[i]].val = InodeInBlock(Now, i)
    BY <1>2, <2>3 DEF IInv, CleanInodes
  <2> QED
    BY <1>2, <2>2, <2>4 DEF InodeOnDisk, InodeVal
<1> QED
  BY <1>3, <1>4 DEF OnDisk, Single

\* A sync that returns 0 has made everything a reader sees durable.
THEOREM SyncMakesDurable == Spec => []SyncDurable
BY SyncedState, Invariance, PTL

-----------------------------------------------------------------------------
(* What the actions do to the levels below, to what readers see and to the *)
(* lists.                                                                  *)

\* Inode i holds v for readers, everything else what it held.
Holding(s, t, i, v) ==
  /\ \A j \in SoundInode : InodeVal(t, j) = IF j = i THEN v ELSE InodeVal(s, j)
  /\ \A b \in DataBlock : BlockData(t, b) = BlockData(s, b)

\* No inode but i has got an entry.
Entered(s, t, i) == \A j \in Inode : j # i /\ t.ic.hash[j] # NULL => s.ic.hash[j] # NULL

\* The lists stay within their sizes.
StaysBounded(s, t) ==
  /\ Faults = {{}} /\ BlocksBounded(s) => BlocksBounded(t)
  /\ InodesBounded(s) => InodesBounded(t)

\* The entry at the tail stays, if the cache has room for two.
TailStays(s, t) == INODE_CACHESIZE >= 2 => TailSurvives(s.ic.queue, t.ic.queue)

\* A step that writes nothing, and a step that writes v to inode i.
Quiet == SameView(Now, Now') /\ Lower(Now, Now') /\ StaysBounded(Now, Now')
Wrote(i, v) ==
  /\ Holding(Now, Now', i, v) /\ Lower(Now, Now')
  /\ Entered(Now, Now', i) /\ ic'.hash[i] # NULL
  /\ StaysBounded(Now, Now') /\ TailStays(Now, Now')

\* Inode i can be brought in.
Known(i) == i \in SoundInode => ic.hash[i] # NULL \/ InodeVal(Now, i) # FREE

\* With one list of inodes the same, nothing else matters for it.
LEMMA InodeListSame ==
  ASSUME NEW s, NEW t, StorageOK(s), t.ic.queue = s.ic.queue
  PROVE  (InodesBounded(s) => InodesBounded(t)) /\ TailStays(s, t)
<1>1. s.ic.queue \in Seq(Nat)
  BY WellFormedParts DEF StorageOK
<1>2. s.ic.queue # << >> => Last(s.ic.queue) \in ToSet(s.ic.queue)
  BY <1>1 DEF Last, ToSet
<1> QED
  BY <1>2 DEF InodesBounded, TailStays, TailSurvives

\* With no failing sector every write succeeds.
LEMMA NoFault ==
  ASSUME NEW bad \in Faults
  PROVE  Faults = {{}} => bad = {}
OBVIOUS

\* Fetching a block writes nothing and leaves the inode cache alone.
LEMMA GetBlockEffect ==
  ASSUME NEW s, StorageOK(s), NEW b \in Block, NEW bad \in Faults
  PROVE  LET t == GetBlock(s, b, bad)
         IN  /\ StorageOK(t) /\ t.ic = s.ic
             /\ SameView(s, t) /\ Lower(s, t) /\ StaysBounded(s, t) /\ TailStays(s, t)
<1> DEFINE t == GetBlock(s, b, bad)
<1>1. StorageOK(t) /\ t.ic = s.ic
  BY GetBlockKeeps
<1>2. SameView(s, t) /\ Lower(s, t)
  BY GetBlockSinks
<1>3. Faults = {{}} /\ BlocksBounded(s) => BlocksBounded(t)
  BY NoFault, GetBlockBounded
<1> HIDE DEF t
<1> QED
  BY <1>1, <1>2, <1>3, InodeListSame DEF StaysBounded, t

\* Fetching an inode writes nothing and brings in no other.
LEMMA GetUseInodeEffect ==
  ASSUME IInv, NEW i \in Inode, NEW bad \in Faults
  PROVE  LET s == GetUseInode(Now, i, bad)
         IN  /\ StorageOK(s)
             /\ SameView(Now, s) /\ Lower(Now, s) /\ Entered(Now, s, i)
             /\ StaysBounded(Now, s) /\ TailStays(Now, s)
             /\ s.ic.hash[i] # NULL => Known(i)
<1> DEFINE s == GetUseInode(Now, i, bad)
<1>1. StorageOK(Now) /\ Now.ic = ic
  BY DEF IInv, Now
<1>2. /\ StorageOK(s) /\ Entered(Now, s, i)
      /\ i \in SoundInode /\ InodeVal(Now, i) = FREE /\ Now.ic.hash[i] = NULL => s.ic.hash[i] = NULL
  BY <1>1, GetUseInodeKeeps DEF Entered
<1>3. SameView(Now, s) /\ Lower(Now, s)
  BY <1>1, GetUseInodeSinks
<1>4. /\ bad = {} /\ BlocksBounded(Now) => BlocksBounded(s)
      /\ InodesBounded(Now) => InodesBounded(s)
      /\ INODE_CACHESIZE >= 2 /\ Now.ic.queue # << >> => Last(Now.ic.queue) \in ToSet(s.ic.queue)
  BY <1>1, GetUseInodeBounded
<1> HIDE DEF s
<1>5. StaysBounded(Now, s) /\ TailStays(Now, s)
  BY <1>4, NoFault DEF StaysBounded, TailStays, TailSurvives
<1>6. s.ic.hash[i] # NULL => Known(i)
  BY <1>1, <1>2 DEF Known
<1> QED
  BY <1>2, <1>3, <1>5, <1>6 DEF s

\* A store through the pointer to the entry of an inode.
LEMMA StoreThrough ==
  ASSUME NEW s, StorageOK(s), NEW i \in Inode, s.ic.hash[i] # NULL,
         \A j \in SoundInode : j # i => InodeVal(s, j) = InodeVal(Now, j),
         \A b \in DataBlock : BlockData(s, b) = BlockData(Now, b),
         Lower(Now, s), Entered(Now, s, i), StaysBounded(Now, s), TailStays(Now, s),
         NEW e \in Entry(Inode, Cell), e.num = i,
         Become(SetCachedInode(s, i, e))
  PROVE  /\ Wrote(i, e.val)
         /\ ic'.hash = s.ic.hash /\ ic'.info[s.ic.hash[i]] = e
<1> DEFINE t == SetCachedInode(s, i, e)
<1>1. /\ StorageOK(t)
      /\ t.disk = s.disk /\ t.bc = s.bc
      /\ t.ic.hash = s.ic.hash /\ t.ic.queue = s.ic.queue
      /\ t.ic.info[s.ic.hash[i]] = e
      /\ \A j \in SoundInode : InodeVal(t, j) = IF j = i THEN e.val ELSE InodeVal(s, j)
  BY SetCachedInodeKeeps
<1> HIDE DEF t
<1>2. Now' = t /\ ic' = t.ic
  <2>1. Now' = t
    BY <1>1, BecomeNow DEF t
  <2> QED
    BY <2>1 DEF Now
<1>3. Holding(Now, t, i, e.val)
  BY <1>1 DEF Holding, BlockData
<1>4. Lower(Now, t)
  BY <1>1, LowerBelow
<1>5. Entered(Now, t, i) /\ StaysBounded(Now, t) /\ TailStays(Now, t)
  BY <1>1 DEF Entered, StaysBounded, TailStays, BlocksBounded, InodesBounded
<1> QED
  BY <1>1, <1>2, <1>3, <1>4, <1>5 DEF Wrote

\* The fields free_inode sets, and where it goes from there.
Freeing(i) ==
  /\ pc' = "sync_inodes" /\ caller' = "free_inode"
  /\ info' = ic'.hash[i] /\ ic'.info[info'] = Dirty(i, FREE)

\* free_inode up to its sync writes FREE to the inode.
LEMMA StartFreeEffect ==
  ASSUME NEW s, StorageOK(s), NEW i \in Inode, s.ic.hash[i] # NULL,
         \A j \in SoundInode : j # i => InodeVal(s, j) = InodeVal(Now, j),
         \A b \in DataBlock : BlockData(s, b) = BlockData(Now, b),
         Lower(Now, s), Entered(Now, s, i), StaysBounded(Now, s), TailStays(Now, s),
         StartFree(s, i)
  PROVE  Wrote(i, FREE) /\ Freeing(i)
<1> DEFINE e == Dirty(i, FREE)
<1>1. e \in Entry(Inode, Cell) /\ e.num = i /\ e.val = FREE
  <2>1. FREE \in Cell
    BY DEF Cell
  <2> QED
    BY <2>1, DirtyEntry
<1>2. /\ Become(SetCachedInode(s, i, e)) /\ info' = s.ic.hash[i]
      /\ pc' = "sync_inodes" /\ caller' = "free_inode"
  BY DEF StartFree, Goto
<1> HIDE DEF e
<1>3. Wrote(i, e.val) /\ ic'.hash = s.ic.hash /\ ic'.info[s.ic.hash[i]] = e
  BY <1>1, <1>2, StoreThrough
<1> QED
  BY <1>1, <1>2, <1>3 DEF Freeing, e

\* ReadHandler writes nothing.
LEMMA ReadBlockEffect ==
  ASSUME IInv, NEW b \in DataBlock, ReadBlock(b)
  PROVE  Quiet /\ TailStays(Now, Now') /\ ic' = ic
<1>1. PICK bad \in Faults : Become(GetBlock(Now, b, bad))
  BY DEF ReadBlock
<1> DEFINE s == GetBlock(Now, b, bad)
<1>2. /\ StorageOK(s) /\ s.ic = Now.ic
      /\ SameView(Now, s) /\ Lower(Now, s) /\ StaysBounded(Now, s) /\ TailStays(Now, s)
  BY SlotBlockFacts, GetBlockEffect DEF IInv
<1> HIDE DEF s
<1>3. Now' = s
  BY <1>1, <1>2, BecomeNow DEF s
<1> QED
  BY <1>2, <1>3 DEF Quiet, Now

\* WriteHandler writes one slot of one block.
LEMMA WriteBlockEffect ==
  ASSUME IInv, NEW b \in DataBlock, NEW o \in DataSlot, NEW v \in Cell, WriteBlock(b, o, v)
  PROVE  /\ Lower(Now, Now') /\ StaysBounded(Now, Now') /\ TailStays(Now, Now') /\ ic' = ic
         /\ \A i \in SoundInode : InodeVal(Now', i) = InodeVal(Now, i)
         /\ \A x \in DataBlock : BlockData(Now', x) =
              IF x = b THEN [BlockData(Now, x) EXCEPT ![o] = v] ELSE BlockData(Now, x)
<1>1. PICK bad \in Faults : Become(PutCell(Now, b, o, v, bad))
  BY DEF WriteBlock
<1> DEFINE s == PutCell(Now, b, o, v, bad)
<1>2. StorageOK(Now) /\ o \in Slot /\ b \in Block
  BY SlotBlockFacts DEF IInv
<1>3. StorageOK(s) /\ s.ic = Now.ic
  BY <1>2, PutCellKeeps
<1>4. /\ Lower(Now, s)
      /\ \A i \in SoundInode : InodeVal(s, i) = InodeVal(Now, i)
      /\ \A x \in DataBlock : BlockData(s, x) =
           IF x = b THEN [BlockData(Now, x) EXCEPT ![o] = v] ELSE BlockData(Now, x)
  BY <1>2, PutDataSinks
<1>5. Faults = {{}} /\ BlocksBounded(Now) => BlocksBounded(s)
  BY <1>2, NoFault, PutCellBounded
<1> HIDE DEF s
<1>6. Now' = s
  BY <1>1, <1>3, BecomeNow DEF s
<1>7. StaysBounded(Now, s) /\ TailStays(Now, s)
  BY <1>2, <1>3, <1>5, InodeListSame DEF StaysBounded
<1>8. ic' = ic
  BY <1>3, <1>6 DEF Now
<1> QED
  BY <1>4, <1>6, <1>7, <1>8

\* Fetching an inode writes nothing.
LEMMA UseInodeEffect ==
  ASSUME IInv, NEW i \in Inode, UseInode(i)
  PROVE  /\ Quiet /\ TailStays(Now, Now') /\ Entered(Now, Now', i)
         /\ ic'.hash[i] # NULL => Known(i)
<1>1. PICK bad \in Faults : Become(GetUseInode(Now, i, bad))
  BY DEF UseInode
<1> DEFINE s == GetUseInode(Now, i, bad)
<1>2. /\ StorageOK(s)
      /\ SameView(Now, s) /\ Lower(Now, s) /\ Entered(Now, s, i)
      /\ StaysBounded(Now, s) /\ TailStays(Now, s)
      /\ s.ic.hash[i] # NULL => Known(i)
  BY GetUseInodeEffect
<1> HIDE DEF s
<1>3. Now' = s /\ ic' = s.ic
  BY <1>1, <1>2, BecomeNow DEF s, Become
<1> QED
  BY <1>2, <1>3 DEF Quiet

\* WriteHandler, extend and addEntry write an inode that is there.
LEMMA ChangeInodeEffect ==
  ASSUME IInv, NEW i \in Inode, NEW v \in Val, ChangeInode(i, v)
  PROVE  Wrote(i, v) /\ Known(i)
<1> DEFINE e == Dirty(i, v)
<1>1. PICK bad \in Faults :
        LET s == GetUseInode(Now, i, bad)
        IN  s.ic.hash[i] # NULL /\ Become(SetCachedInode(s, i, e))
  BY DEF ChangeInode
<1> DEFINE s == GetUseInode(Now, i, bad)
<1>2. /\ StorageOK(s)
      /\ SameView(Now, s) /\ Lower(Now, s) /\ Entered(Now, s, i)
      /\ StaysBounded(Now, s) /\ TailStays(Now, s)
      /\ s.ic.hash[i] # NULL => Known(i)
  BY GetUseInodeEffect
<1>3. s.ic.hash[i] # NULL /\ Become(SetCachedInode(s, i, e))
  BY <1>1
<1>4. e \in Entry(Inode, Cell) /\ e.num = i /\ e.val = v
  <2>1. v \in Cell
    BY DEF Cell
  <2> QED
    BY <2>1, DirtyEntry
<1> HIDE DEF s, e
<1>5. Wrote(i, e.val)
  BY <1>2, <1>3, <1>4, StoreThrough DEF SameView
<1> QED
  BY <1>2, <1>3, <1>4, <1>5

\* So does nlink--.
LEMMA DropLinkEffect ==
  ASSUME IInv, NEW i \in Inode, NEW v \in Val, DropLink(i, v)
  PROVE  Wrote(i, v) /\ Known(i)
<1>1. PICK bad \in Faults :
        LET s == GetUseInode(Now, i, bad)
        IN  /\ s.ic.hash[i] # NULL
            /\ Become(SetCachedInode(s, i, [s.ic.info[s.ic.hash[i]] EXCEPT !.val = v]))
  BY DEF DropLink
<1> DEFINE s == GetUseInode(Now, i, bad)
           x == s.ic.info[s.ic.hash[i]]
           e == [x EXCEPT !.val = v]
<1>2. /\ StorageOK(s)
      /\ SameView(Now, s) /\ Lower(Now, s) /\ Entered(Now, s, i)
      /\ StaysBounded(Now, s) /\ TailStays(Now, s)
      /\ s.ic.hash[i] # NULL => Known(i)
  BY GetUseInodeEffect
<1>3. s.ic.hash[i] # NULL /\ Become(SetCachedInode(s, i, e))
  BY <1>1
<1> HIDE DEF s
<1>4. e \in Entry(Inode, Cell) /\ e.num = i /\ e.val = v
  <2>1. x \in Entry(Inode, Cell) /\ x.num = i
    BY <1>2, <1>3, InodeHash, InodeEntry
  <2> HIDE DEF x
  <2> QED
    BY <2>1 DEF Entry, Cell
<1> HIDE DEF e
<1>5. Wrote(i, e.val)
  BY <1>2, <1>3, <1>4, StoreThrough DEF SameView
<1> QED
  BY <1>2, <1>3, <1>4, <1>5

\* free_inode writes FREE to an inode that is there.
LEMMA FreeInodeEffect ==
  ASSUME IInv, NEW i \in Inode, FreeInode(i)
  PROVE  Wrote(i, FREE) /\ Freeing(i) /\ Known(i)
<1>1. PICK bad \in Faults :
        LET s == GetUseInode(Now, i, bad)
        IN  s.ic.hash[i] # NULL /\ StartFree(s, i)
  BY DEF FreeInode
<1> DEFINE s == GetUseInode(Now, i, bad)
<1>2. /\ StorageOK(s)
      /\ SameView(Now, s) /\ Lower(Now, s) /\ Entered(Now, s, i)
      /\ StaysBounded(Now, s) /\ TailStays(Now, s)
      /\ s.ic.hash[i] # NULL => Known(i)
  BY GetUseInodeEffect
<1>3. s.ic.hash[i] # NULL /\ StartFree(s, i)
  BY <1>1
<1> HIDE DEF s
<1>4. Wrote(i, FREE) /\ Freeing(i)
  BY <1>2, <1>3, StartFreeEffect DEF SameView
<1> QED
  BY <1>2, <1>3, <1>4

\* createFile writes an inode that was not in use, and FREE again when addEntry
\* fails; or the server dies.
LEMMA CreateInodeEffect ==
  ASSUME IInv, NEW v \in Val, CreateInode(v)
  PROVE  \E i \in Inode \ inode_bitmap :
           \/ Wrote(i, v) /\ ic.hash[i] = NULL /\ inode_bitmap' = inode_bitmap \union {i} /\ NoLoop
           \/ Wrote(i, FREE) /\ ic.hash[i] = NULL /\ Freeing(i) /\ UNCHANGED inode_bitmap
           \/ ic.hash[i] # NULL /\ PowerOff
<1> DEFINE St(i, bad) == SetInodeLru(GetBlock(Now, INODE_TO_BLOCK(i), bad), i, v, bad)
<1>1. PICK i \in Inode \ inode_bitmap, bad \in Faults :
        \/ /\ ic.hash[i] = NULL
           /\ Become(SetCachedInode(St(i, bad), i, Dirty(i, v)))
           /\ inode_bitmap' = inode_bitmap \union {i}
           /\ NoLoop
        \/ /\ ic.hash[i] = NULL
           /\ StartFree(St(i, bad), i)
           /\ UNCHANGED inode_bitmap
        \/ ic.hash[i] # NULL /\ PowerOff
  BY DEF CreateInode
<1> DEFINE t == GetBlock(Now, INODE_TO_BLOCK(i), bad)
           s == St(i, bad)
<1>2. CASE ic.hash[i] # NULL /\ PowerOff
  BY <1>2
<1>3. ASSUME ic.hash[i] = NULL
      PROVE  /\ StorageOK(s) /\ s.ic.hash[i] # NULL
             /\ \A j \in SoundInode : j # i => InodeVal(s, j) = InodeVal(Now, j)
             /\ \A b \in DataBlock : BlockData(s, b) = BlockData(Now, b)
             /\ Lower(Now, s) /\ Entered(Now, s, i) /\ StaysBounded(Now, s) /\ TailStays(Now, s)
  <2>1. /\ StorageOK(t) /\ t.ic = Now.ic
        /\ SameView(Now, t) /\ Lower(Now, t) /\ StaysBounded(Now, t)
    BY InodeAddress, GetBlockEffect DEF IInv
  <2>2. s = SetInodeLru(t, i, v, bad)
    OBVIOUS
  <2> HIDE DEF s, t
  <2>3. t.ic.hash[i] = NULL /\ v \in Cell
    BY <2>1, <1>3 DEF Now, Cell
  <2>4. /\ StorageOK(s) /\ s.ic.hash[i] # NULL
        /\ \A j \in SoundInode : InodeVal(s, j) = IF j = i THEN v ELSE InodeVal(t, j)
        /\ \A j \in Inode : j # i /\ s.ic.hash[j] # NULL => t.ic.hash[j] # NULL
    BY <2>1, <2>2, <2>3, SetInodeLruKeeps
  <2>5. Lower(t, s) /\ \A b \in DataBlock : BlockData(s, b) = BlockData(t, b)
    BY <2>1, <2>2, SetInodeLruSinks
  <2>6. /\ bad = {} /\ BlocksBounded(t) => BlocksBounded(s)
        /\ InodesBounded(t) => InodesBounded(s)
        /\ INODE_CACHESIZE >= 2 /\ t.ic.queue # << >> => Last(t.ic.queue) \in ToSet(s.ic.queue)
    BY <2>1, <2>2, SetInodeLruBounded
  <2>7. StaysBounded(Now, s) /\ TailStays(Now, s)
    BY <2>1, <2>6, NoFault DEF StaysBounded, TailStays, TailSurvives
  <2>8. Lower(Now, s)
    BY <2>1, <2>5, LowerAfter
  <2> QED
    BY <2>1, <2>4, <2>5, <2>7, <2>8 DEF SameView, Entered
<1> HIDE DEF St
<1>4. CASE /\ ic.hash[i] = NULL
           /\ StartFree(s, i)
           /\ UNCHANGED inode_bitmap
  <2>1. Wrote(i, FREE) /\ Freeing(i)
    BY <1>3, <1>4, StartFreeEffect
  <2> QED
    BY <1>4, <2>1
<1>5. CASE /\ ic.hash[i] = NULL
           /\ Become(SetCachedInode(s, i, Dirty(i, v)))
           /\ inode_bitmap' = inode_bitmap \union {i}
           /\ NoLoop
  <2> DEFINE e == Dirty(i, v)
  <2>1. e \in Entry(Inode, Cell) /\ e.num = i /\ e.val = v
    <3>1. v \in Cell
      BY DEF Cell
    <3> QED
      BY <3>1, DirtyEntry
  <2>2. Become(SetCachedInode(s, i, e))
    BY <1>5
  <2> HIDE DEF e, s
  <2>3. Wrote(i, e.val)
    BY <1>3, <1>5, <2>1, <2>2, StoreThrough
  <2> QED
    BY <1>5, <2>1, <2>3
<1> QED
  BY <1>1, <1>2, <1>4, <1>5

\* Zeroing the hash tables loses nothing: boot has read one block and written none.
LEMMA BootEffect ==
  ASSUME IInv, Boot
  PROVE  Quiet /\ ic' = ic
<1> DEFINE s == GetBlock(Now, HeaderBlock, {})
           h == [b \in Block |-> NULL]
           t == [s EXCEPT !.bc.hash = h]
<1>1. /\ StorageOK(Now) /\ Now.bc = EmptyCache(Block) /\ Now.ic = ic
  BY DEF IInv, Now, Boot, BootPart
<1>2. /\ StorageOK(s) /\ s.ic = ic
      /\ StaysBounded(Now, s) /\ SectorsFollow(Now, s)
  BY <1>1, SlotBlockFacts, CacheAssumption, GetBlockEffect, GetBlockKeeps
<1> HIDE DEF s
<1>3. t = [disk |-> s.disk, bc |-> [hash |-> h, queue |-> s.bc.queue, info |-> s.bc.info], ic |-> s.ic]
  <2>1. s = [disk |-> s.disk, bc |-> s.bc, ic |-> s.ic]
    BY <1>2 DEF StorageOK
  <2>2. s.bc = [hash |-> s.bc.hash, queue |-> s.bc.queue, info |-> s.bc.info]
    BY <1>2, WellFormedParts DEF StorageOK
  <2> HIDE DEF h
  <2> QED
    BY <2>1, <2>2
<1>4. Now' = t
  BY <1>3 DEF Boot, Become, Now, s
<1>5. \A b \in SoundBlock : /\ BlockData(Now, b) = Now.disk[b]
                            /\ BlockData(t, b) = s.disk[b]
                            /\ s.disk[b] = Now.disk[b]
  <2>1. \A b \in SoundBlock : b \in Block
    BY DEF SoundBlock
  <2>2. \A b \in SoundBlock : BlockData(Now, b) = Now.disk[b]
    BY <1>1, <2>1 DEF BlockData, EmptyCache
  <2>3. \A b \in SoundBlock : BlockData(t, b) = s.disk[b]
    BY <1>3, <2>1 DEF BlockData
  <2> QED
    BY <1>2, <2>2, <2>3 DEF SectorsFollow
<1>6. t.ic = ic /\ t.disk = s.disk /\ t.bc.queue = s.bc.queue
  BY <1>2, <1>3
<1> HIDE DEF t
<1>7. SameView(Now, t) /\ Lower(Now, t)
  <2>1. \A i \in SoundInode : INODE_TO_BLOCK(i) \in SoundBlock
    BY InodeAddress DEF SoundInode
  <2>2. \A i \in SoundInode : InodeInBlock(t, i) = InodeInBlock(Now, i) /\ OnSector(t, i) = OnSector(Now, i)
    BY <1>5, <1>6, <2>1 DEF InodeInBlock, OnSector
  <2>3. \A b \in DataBlock : BlockData(t, b) = BlockData(Now, b) /\ t.disk[b] = Now.disk[b]
    BY <1>5, <1>6, DataBlockSound
  <2>4. \A i \in SoundInode : InodeVal(t, i) = InodeVal(Now, i)
    BY <1>1, <1>6, <2>2 DEF InodeVal
  <2> QED
    BY <2>2, <2>3, <2>4 DEF SameView, Lower
<1>8. StaysBounded(Now, t)
  BY <1>2, <1>6 DEF StaysBounded, BlocksBounded, InodesBounded
<1>9. ic' = ic
  BY <1>4, <1>6 DEF Now
<1> QED
  BY <1>4, <1>7, <1>8, <1>9 DEF Quiet

\* An iteration of init_inode_block marks the inode used exactly if it is.
LEMMA BootInodeEffect ==
  ASSUME IInv, BootInode
  PROVE  /\ Quiet /\ Entered(Now, Now', cursor)
         /\ cursor \in Inode /\ cursor >= 1 /\ cursor' = cursor + 1
         /\ \/ /\ ic' = ic /\ inode_bitmap' = inode_bitmap
               /\ cursor \in SoundInode => InodeVal(Now, cursor) = FREE
            \/ /\ inode_bitmap' = inode_bitmap \union {cursor}
               /\ cursor \in SoundInode => InodeVal(Now, cursor) # FREE
<1>1. PICK bad \in Faults, indirect \in DataBlock \union {NULL} :
        LET i == cursor
            s == GetBlock(Now, INODE_TO_BLOCK(i), bad)
            v == InodeInBlock(s, i)
            t == IF indirect = NULL THEN s ELSE GetBlock(s, indirect, bad)
        IN  IF v = FREE
            THEN Become(s) /\ UNCHANGED inode_bitmap
            ELSE Become(SetInodeLru(t, i, v, bad)) /\ inode_bitmap' = inode_bitmap \union {i}
  BY DEF BootInode
<1> DEFINE i == cursor
           s == GetBlock(Now, INODE_TO_BLOCK(i), bad)
           v == InodeInBlock(s, i)
           t == IF indirect = NULL THEN s ELSE GetBlock(s, indirect, bad)
           u == SetInodeLru(t, i, v, bad)
<1>2. i \in Inode /\ i >= 1 /\ cursor' = i + 1 /\ Now.ic = ic /\ ic.hash[i] = NULL
  <2>1. pc = "boot" /\ i \in Nat /\ i < NUM_INODES /\ cursor' = i + 1
    BY DEF BootInode, IInv, Control
  <2>2. i >= 1 /\ \A j \in Inode : j >= i => ic.hash[j] = NULL
    BY <2>1 DEF IInv, BootPart
  <2>3. i \in Inode
    BY <2>1, StorageAssumption DEF Inode
  <2> QED
    BY <2>1, <2>2, <2>3 DEF Now
<1>3. /\ StorageOK(s) /\ s.ic = ic
      /\ SameView(Now, s) /\ Lower(Now, s) /\ StaysBounded(Now, s)
  BY <1>2, InodeAddress, GetBlockEffect DEF IInv
<1>4. v \in Cell /\ (i \in SoundInode => v = InodeVal(Now, i))
  <2>1. v \in Cell
    BY <1>2, <1>3, InodeHash
  <2>2. InodeVal(s, i) = v
    BY <1>2, <1>3 DEF InodeVal
  <2> QED
    BY <1>3, <2>1, <2>2 DEF SameView
<1> HIDE DEF s, v
<1>5. CASE v = FREE
  <2>1. Become(s) /\ inode_bitmap' = inode_bitmap
    BY <1>1, <1>5 DEF s, v
  <2>2. Now' = s
    BY <1>3, <2>1, BecomeNow
  <2>3. ic' = ic
    BY <1>3, <2>2 DEF Now
  <2>4. Entered(Now, s, i)
    BY <1>2, <1>3 DEF Entered
  <2> QED
    BY <1>2, <1>3, <1>4, <1>5, <2>1, <2>2, <2>3, <2>4 DEF Quiet
<1>6. CASE v # FREE
  <2>1. Become(u) /\ inode_bitmap' = inode_bitmap \union {i}
    BY <1>1, <1>6 DEF s, v, t, u
  <2>2. /\ StorageOK(t) /\ t.ic = ic
        /\ SameView(Now, t) /\ Lower(Now, t) /\ StaysBounded(Now, t)
    <3>1. CASE indirect = NULL
      BY <3>1, <1>3
    <3>2. CASE indirect # NULL
      <4>1. /\ StorageOK(t) /\ t.ic = s.ic
            /\ SameView(s, t) /\ Lower(s, t) /\ StaysBounded(s, t)
        BY <1>3, <3>2, SlotBlockFacts, GetBlockEffect
      <4> HIDE DEF t
      <4>2. Lower(Now, t)
        BY <1>3, <4>1, LowerAfter
      <4> QED
        BY <1>3, <4>1, <4>2 DEF SameView, StaysBounded
    <3> QED
      BY <3>1, <3>2
  <2> HIDE DEF t
  <2>3. t.ic.hash[i] = NULL
    BY <1>2, <2>2
  <2>4. /\ StorageOK(u)
        /\ \A j \in SoundInode : InodeVal(u, j) = IF j = i THEN v ELSE InodeVal(t, j)
        /\ \A j \in Inode : j # i /\ u.ic.hash[j] # NULL => t.ic.hash[j] # NULL
    BY <1>2, <1>4, <2>2, <2>3, SetInodeLruKeeps
  <2>5. Lower(t, u) /\ \A b \in DataBlock : BlockData(u, b) = BlockData(t, b)
    BY <1>2, <1>4, <2>2, SetInodeLruSinks
  <2>6. /\ bad = {} /\ BlocksBounded(t) => BlocksBounded(u)
        /\ InodesBounded(t) => InodesBounded(u)
    BY <1>2, <1>4, <2>2, SetInodeLruBounded
  <2> HIDE DEF u
  <2>7. Now' = u
    BY <2>1, <2>4, BecomeNow
  <2>8. Lower(Now, u)
    BY <2>2, <2>5, LowerAfter
  <2>9. SameView(Now, u)
    BY <1>4, <2>2, <2>4, <2>5 DEF SameView
  <2>10. StaysBounded(Now, u)
    BY <2>2, <2>6, NoFault DEF StaysBounded
  <2>11. Entered(Now, u, i)
    BY <1>2, <2>2, <2>4 DEF Entered
  <2> QED
    BY <1>2, <1>4, <1>6, <2>1, <2>7, <2>8, <2>9, <2>10, <2>11 DEF Quiet
<1> QED
  BY <1>5, <1>6

\* The two loops of sync write nothing.
LEMMA SyncEffect ==
  ASSUME IInv, SyncInode \/ SyncBlock
  PROVE  Quiet
<1>1. CASE SyncInode
  <2>1. /\ SameView(Now, Now') /\ Lower(Now, Now')
        /\ ic'.queue = ic.queue
        /\ Faults = {{}} /\ BlocksBounded(Now) => BlocksBounded(Now')
    BY <1>1, SyncInodeEffect
  <2>2. StaysBounded(Now, Now')
    BY <2>1 DEF StaysBounded, InodesBounded, Now
  <2> QED
    BY <2>1, <2>2 DEF Quiet
<1>2. CASE SyncBlock
  <2>1. /\ ic' = ic /\ bc'.queue = bc.queue
        /\ \A b \in SoundBlock : BlockData(Now', b) = BlockData(Now, b)
        /\ SectorsFollow(Now, Now')
    BY <1>2, SyncBlockEffect
  <2>2. \A i \in SoundInode : InodeInBlock(Now', i) = InodeInBlock(Now, i)
    BY <2>1, InodeAddress DEF SoundInode, InodeInBlock
  <2>3. SameView(Now, Now')
    BY <2>1, <2>2, DataBlockSound DEF SameView, InodeVal, Now
  <2>4. Lower(Now, Now')
    BY <2>1, <2>2, FollowsSector DEF Lower
  <2>5. StaysBounded(Now, Now')
    BY <2>1 DEF StaysBounded, BlocksBounded, InodesBounded, Now
  <2> QED
    BY <2>3, <2>4, <2>5 DEF Quiet
<1> QED
  BY <1>1, <1>2

-----------------------------------------------------------------------------
(* The bitmap of inodes.                                                   *)

\* The inode free_inode is about to free.
freed == ic.info[info].num

\* The bitmap and the cache agree with what readers see of inode i.
Used(i) ==
  /\ i \in inode_bitmap <=> InodeVal(Now, i) # FREE
  /\ ic.hash[i] # NULL => i \in inode_bitmap

\* What boot has met.
Met(i) == pc # "down" /\ (pc = "boot" => i < cursor)

\* Boot settles one inode after the other; the one that is being freed is
\* still in the cache.
BitmapPart ==
  /\ pc = "boot" => \A i \in SoundInode : i >= cursor => i \notin inode_bitmap
  /\ \A i \in SoundInode : Met(i) /\ ~ (caller = "free_inode" /\ i = freed) => Used(i)

\* Its block gets the FREE it holds before the entry is freed.
FreedPart ==
  caller = "free_inode" /\ freed \in SoundInode =>
    /\ freed \notin inode_bitmap
    /\ ic.info[info].val = FREE
    /\ CleanInodes(Now, {freed})

\* Even when a sector cannot be written, sync has copied every inode.
DonePart == pc = "sync_done" => \A n \in ToSet(ic.queue) : ~ ic.info[n].dirty

Accounted == BitmapPart /\ FreedPart /\ DonePart

\* While requests are served nothing is being freed and every inode has been met.
LEMMA ReadyAccounted ==
  ASSUME IInv, Accounted, pc = "ready"
  PROVE  caller # "free_inode" /\ \A i \in SoundInode : Used(i)
<1>1. caller # "free_inode"
  BY DEF IInv, FreePart
<1> QED
  BY <1>1 DEF Accounted, BitmapPart, Met

\* A request that writes nothing keeps the accounts.
LEMMA QuietAccounted ==
  ASSUME IInv, Accounted, pc = "ready", pc' = "ready", caller' = caller, inode_bitmap' = inode_bitmap,
         Quiet, NEW i \in Inode, Entered(Now, Now', i), ic'.hash[i] # NULL => Known(i)
  PROVE  Accounted'
<1>1. caller # "free_inode" /\ \A j \in SoundInode : Used(j)
  BY ReadyAccounted
<1>2. ASSUME NEW j \in SoundInode
      PROVE  Used(j)'
  <2>1. InodeVal(Now', j) = InodeVal(Now, j)
    BY DEF Quiet, SameView
  <2>2. ic'.hash[j] # NULL => j \in inode_bitmap
    BY <1>1 DEF Used, Known, Entered, SoundInode, Now
  <2> QED
    BY <1>1, <2>1, <2>2 DEF Used
<1> QED
  BY <1>1, <1>2 DEF Accounted, BitmapPart, FreedPart, DonePart, SoundInode

\* So does one that writes an allocated inode, old or new.
LEMMA WroteAccounted ==
  ASSUME IInv, Accounted, pc = "ready", pc' = "ready", caller' = caller,
         NEW i \in Inode, NEW v \in Val, Wrote(i, v),
         \A j \in SoundInode : j \in inode_bitmap' <=> j \in inode_bitmap \/ j = i
  PROVE  Accounted'
<1>1. caller # "free_inode" /\ \A j \in SoundInode : Used(j)
  BY ReadyAccounted
<1>2. ASSUME NEW j \in SoundInode
      PROVE  Used(j)'
  <2>1. InodeVal(Now', j) = IF j = i THEN v ELSE InodeVal(Now, j)
    BY DEF Wrote, Holding
  <2>2. v # FREE
    BY StorageAssumption
  <2>3. ic'.hash[j] # NULL => j \in inode_bitmap'
    BY <1>1 DEF Used, Wrote, Entered, SoundInode, Now
  <2> QED
    BY <1>1, <2>1, <2>2, <2>3 DEF Used
<1> QED
  BY <1>1, <1>2 DEF Accounted, BitmapPart, FreedPart, DonePart, SoundInode

\* So does free_inode up to its sync.
LEMMA FreeingAccounted ==
  ASSUME IInv, Accounted, pc = "ready",
         NEW i \in Inode, Wrote(i, FREE), Freeing(i),
         \A j \in SoundInode : j \in inode_bitmap' <=> j \in inode_bitmap /\ j # i
  PROVE  Accounted'
<1>1. caller # "free_inode" /\ \A j \in SoundInode : Used(j)
  BY ReadyAccounted
<1>2. freed' = i /\ ic'.info[info'].val = FREE /\ ic'.info[info'].dirty /\ info' = ic'.hash[i]
  BY DEF Freeing, freed, Dirty
<1>3. ASSUME NEW j \in SoundInode, j # i
      PROVE  Used(j)'
  <2>1. InodeVal(Now', j) = InodeVal(Now, j)
    BY <1>3 DEF Wrote, Holding
  <2>2. ic'.hash[j] # NULL => j \in inode_bitmap'
    BY <1>1, <1>3 DEF Used, Wrote, Entered, SoundInode, Now
  <2> QED
    BY <1>1, <1>3, <2>1, <2>2 DEF Used
<1>4. BitmapPart'
  BY <1>2, <1>3 DEF BitmapPart, Freeing, SoundInode
<1>5. FreedPart'
  <2>1. CleanInodes(Now', {i})
    BY <1>2 DEF CleanInodes, Now
  <2> QED
    BY <1>2, <2>1 DEF FreedPart, SoundInode
<1>6. DonePart'
  BY DEF DonePart, Freeing
<1> QED
  BY <1>4, <1>5, <1>6 DEF Accounted

\* The loop of sync over the inodes moves nothing the accounts are about.
LEMMA SyncInodeAccounted == IInv /\ Accounted /\ SyncInode => Accounted'
<1> SUFFICES ASSUME IInv, Accounted, SyncInode PROVE Accounted'
  OBVIOUS
<1>1. /\ pc' = pc /\ pc = "sync_inodes" /\ UNCHANGED <<inode_bitmap, caller, info>>
  BY Zenon DEF SyncInode
<1>2. /\ SameView(Now, Now') /\ ic'.hash = ic.hash
      /\ \A J \in SUBSET SoundInode : CleanInodes(Now, J) => CleanInodes(Now', J)
      /\ \A m \in ToSet(ic.queue) : ic'.info[m].num = ic.info[m].num /\ ic'.info[m].val = ic.info[m].val
  BY SyncInodeEffect
<1>3. caller = "free_inode" => freed' = freed /\ ic'.info[info'].val = ic.info[info].val
  BY <1>1, <1>2 DEF IInv, FreePart, freed
<1>4. \A i \in SoundInode : Used(i) => Used(i)'
  BY <1>1, <1>2 DEF Used, SameView
<1>5. BitmapPart'
  BY <1>1, <1>3, <1>4 DEF Accounted, BitmapPart, Met, SoundInode
<1>6. FreedPart'
  <2> SUFFICES ASSUME caller = "free_inode", freed \in SoundInode PROVE FreedPart'
    BY <1>1, <1>3 DEF FreedPart, SoundInode
  <2>1. {freed} \in SUBSET SoundInode
    OBVIOUS
  <2>2. freed \notin inode_bitmap /\ ic.info[info].val = FREE /\ CleanInodes(Now, {freed})
    BY DEF Accounted, FreedPart
  <2>3. CleanInodes(Now', {freed})
    BY <1>2, <2>1, <2>2
  <2> QED
    BY <1>1, <1>3, <2>2, <2>3 DEF FreedPart
<1>7. DonePart'
  BY <1>1 DEF DonePart
<1> QED
  BY <1>5, <1>6, <1>7 DEF Accounted

\* Nor does the loop over the blocks, whether it writes or gives up.
LEMMA SyncBlockAccounted == IInv /\ Accounted /\ SyncBlock => Accounted'
<1> SUFFICES ASSUME IInv, Accounted, SyncBlock PROVE Accounted'
  OBVIOUS
<1>1. /\ pc = "sync_blocks" /\ pc' \in {"sync_blocks", "sync_done"}
      /\ UNCHANGED <<ic, inode_bitmap, caller, info>>
      /\ \A b \in SoundBlock : BlockData(Now', b) = BlockData(Now, b)
  BY SyncBlockEffect DEF Goto
<1>2. SameView(Now, Now')
  BY SyncEffect DEF Quiet
<1>3. \A i \in SoundInode : Used(i) => Used(i)'
  BY <1>1, <1>2 DEF Used, SameView
<1>4. freed' = freed
  BY <1>1 DEF freed
<1>5. BitmapPart'
  BY <1>1, <1>3, <1>4 DEF Accounted, BitmapPart, Met, SoundInode
<1>6. FreedPart'
  <2>1. \A i \in SoundInode : InodeInBlock(Now', i) = InodeInBlock(Now, i)
    BY <1>1, InodeAddress DEF SoundInode, InodeInBlock
  <2>2. Now'.ic = Now.ic
    BY <1>1 DEF Now
  <2>3. freed \in SoundInode /\ CleanInodes(Now, {freed}) => CleanInodes(Now', {freed})
    BY <2>1, <2>2 DEF CleanInodes
  <2> QED
    BY <1>1, <1>4, <2>3 DEF Accounted, FreedPart, SoundInode
<1>7. DonePart'
  BY <1>1 DEF DonePart, IInv, SyncPart
<1> QED
  BY <1>5, <1>6, <1>7 DEF Accounted

\* Steps that leave the storage and the bitmap alone.
LEMMA SameAccounted ==
  ASSUME IInv, Accounted, UNCHANGED <<disk, bc, ic, inode_bitmap>>,
         \/ BootDone \/ SyncInodesDone \/ SyncBlocksDone \/ SyncReply \/ UNCHANGED vars
         \/ \E who \in {"SyncHandler", "ShutdownHandler"} : StartSync(who)
  PROVE  Accounted'
<1>1. Now' = Now
  BY DEF Now
<1>2. \A i \in SoundInode : Used(i) => Used(i)'
  BY <1>1 DEF Used
<1>3. caller' = "free_inode" => caller = "free_inode" /\ info' = info /\ freed' = freed
  BY DEF BootDone, SyncInodesDone, SyncBlocksDone, SyncReply, StartSync, vars, freed
<1>4. caller = "free_inode" => caller' = "free_inode" /\ freed' = freed
  BY DEF BootDone, SyncInodesDone, SyncBlocksDone, SyncReply, StartSync, vars, freed, IInv, FreePart
<1>5. /\ pc' = "boot" => pc = "boot" /\ cursor' = cursor
      /\ \A i \in SoundInode : Met(i)' => Met(i)
  <2>1. \A i \in SoundInode : i < NUM_INODES
    BY StorageAssumption DEF SoundInode, Inode
  <2>2. pc' = "boot" => pc = "boot" /\ cursor' = cursor
    BY DEF BootDone, SyncInodesDone, SyncBlocksDone, SyncReply, StartSync, vars, Goto
  <2>3. pc' # "down" => pc # "down"
    BY DEF BootDone, SyncInodesDone, SyncBlocksDone, SyncReply, StartSync, vars, Goto
  <2>4. pc = "boot" /\ pc' # "boot" => cursor = NUM_INODES
    BY DEF BootDone, SyncInodesDone, SyncBlocksDone, SyncReply, StartSync, vars, Goto
  <2> QED
    BY <2>1, <2>2, <2>3, <2>4 DEF Met
<1>6. BitmapPart'
  <2>1. inode_bitmap' = inode_bitmap
    OBVIOUS
  <2> QED
    BY <1>2, <1>3, <1>4, <1>5, <2>1 DEF Accounted, BitmapPart, SoundInode
<1>7. FreedPart'
  BY <1>1, <1>3 DEF Accounted, FreedPart, SoundInode
<1>8. DonePart'
  <2>1. pc' = "sync_done" => pc \in {"sync_blocks", "sync_done"}
    BY DEF BootDone, SyncInodesDone, SyncBlocksDone, SyncReply, StartSync, vars, Goto
  <2> QED
    BY <2>1 DEF Accounted, DonePart, IInv, SyncPart
<1> QED
  BY <1>6, <1>7, <1>8 DEF Accounted

\* Freeing the entry of an inode changes nothing for readers: its block holds
\* the FREE already.
LEMMA FreeDoneEffect ==
  ASSUME IInv, Accounted, FreeDone
  PROVE  Quiet /\ Accounted'
<1> DEFINE c == Drop(ic, info)
           x == freed
<1>1. StorageOK(Now) /\ info \in ToSet(ic.queue) /\ Now.ic = ic /\ caller = "free_inode" /\ pc = "sync_done"
  BY DEF IInv, FreePart, FreeDone, Now
<1>2. WellFormed(ic, Inode, Cell, Inode)
  BY <1>1 DEF StorageOK
<1>3. x \in Inode /\ ic.hash[x] = info /\ info # NULL
  BY <1>1, InodeEntry DEF freed
<1>4. /\ c.hash = [ic.hash EXCEPT ![x] = NULL]
      /\ Len(c.queue) = Len(ic.queue) - 1
      /\ \A m \in ToSet(ic.queue) \ {info} : c.info[m] = ic.info[m]
  BY <1>1, <1>2, DropWellFormed DEF freed
<1>5. \A j \in Inode : c.hash[j] = IF j = x THEN NULL ELSE ic.hash[j]
  BY <1>2, <1>3, <1>4, WellFormedParts
<1>6. Now' = [disk |-> disk, bc |-> bc, ic |-> c]
  BY DEF FreeDone, Now
<1> HIDE DEF c, x
<1>7. Now'.ic = c /\ ic' = c /\ Now'.disk = Now.disk /\ Now'.bc = Now.bc
  BY <1>6 DEF Now
<1>8. \A j \in Inode : InodeInBlock(Now', j) = InodeInBlock(Now, j)
  BY <1>7 DEF InodeInBlock, BlockData
<1>9. x \in SoundInode => x \notin inode_bitmap /\ ic.info[info].val = FREE /\ InodeInBlock(Now, x) = FREE
  <2>1. ~ ic.info[info].dirty
    BY <1>1 DEF Accounted, DonePart
  <2>2. x \in SoundInode => x \notin inode_bitmap /\ ic.info[info].val = FREE /\ CleanInodes(Now, {x})
    BY <1>1 DEF Accounted, FreedPart, x
  <2> QED
    BY <1>1, <1>3, <2>1, <2>2 DEF CleanInodes
<1>10. \A j \in SoundInode : InodeVal(Now', j) = InodeVal(Now, j)
  <2> SUFFICES ASSUME NEW j \in SoundInode PROVE InodeVal(Now', j) = InodeVal(Now, j)
    OBVIOUS
  <2>1. j \in Inode
    BY DEF SoundInode
  <2>2. CASE j = x
    BY <2>2, <1>1, <1>3, <1>5, <1>7, <1>8, <1>9 DEF InodeVal
  <2>3. CASE j # x
    <3>1. c.hash[j] = ic.hash[j]
      BY <2>1, <2>3, <1>5
    <3>2. ic.hash[j] # NULL => ic.hash[j] \in ToSet(ic.queue) /\ ic.hash[j] # info
      BY <2>1, <2>3, <1>1, InodeHash DEF x, freed
    <3>3. ic.hash[j] # NULL => c.info[ic.hash[j]] = ic.info[ic.hash[j]]
      BY <3>2, <1>4
    <3> QED
      BY <2>1, <3>1, <3>3, <1>1, <1>7, <1>8 DEF InodeVal
  <2> QED
    BY <2>2, <2>3
<1>11. SameView(Now, Now') /\ Lower(Now, Now')
  BY <1>7, <1>10, LowerSame DEF SameView
<1>12. StaysBounded(Now, Now')
  BY <1>1, <1>4, <1>7, Lengths DEF StaysBounded, BlocksBounded, InodesBounded
<1>13. ASSUME NEW j \in SoundInode
       PROVE  Used(j)'
  <2>1. j \in Inode /\ inode_bitmap' = inode_bitmap
    BY DEF SoundInode, FreeDone
  <2>2. CASE j = x
    <3>1. InodeVal(Now', j) = FREE /\ c.hash[j] = NULL /\ j \notin inode_bitmap
      BY <2>1, <2>2, <1>5, <1>7, <1>8, <1>9 DEF InodeVal
    <3> QED
      BY <2>1, <3>1, <1>7 DEF Used
  <2>3. CASE j # x
    <3>1. Used(j)
      BY <2>3, <1>1 DEF Accounted, BitmapPart, Met, x
    <3> QED
      BY <2>1, <2>3, <3>1, <1>5, <1>7, <1>10 DEF Used
  <2> QED
    BY <2>2, <2>3
<1>14. Accounted'
  <2>1. pc' = "ready" /\ caller' = "none"
    BY DEF FreeDone, Goto
  <2> QED
    BY <1>13, <2>1 DEF Accounted, BitmapPart, FreedPart, DonePart, SoundInode
<1> QED
  BY <1>11, <1>12, <1>14 DEF Quiet

\* Boot keeps the accounts of what it has met.
LEMMA BootAccounted == IInv /\ Accounted /\ (Boot \/ BootInode) => Accounted'
<1> SUFFICES ASSUME IInv, Accounted, Boot \/ BootInode PROVE Accounted'
  OBVIOUS
<1>1. caller' = caller /\ caller # "free_inode" /\ pc' = "boot"
  BY DEF Boot, BootInode, Goto, IInv, FreePart
<1>2. FreedPart' /\ DonePart'
  BY <1>1 DEF FreedPart, DonePart
<1>3. \A i \in SoundInode : i \in Inode /\ i \in Int
  BY DEF SoundInode, Inode
<1>4. CASE Boot
  <2>1. inode_bitmap' = {0} /\ cursor' = 1
    BY <1>4 DEF Boot, Goto
  <2>2. \A i \in SoundInode : i # 0 /\ ~ (i < 1)
    <3>1. 0 \notin SoundInode
      BY DEF SoundInode, HeaderBlock
    <3> QED
      BY <3>1, StorageAssumption DEF SoundInode, Inode
  <2>3. BitmapPart'
    BY <1>1, <2>1, <2>2 DEF BitmapPart, Met, SoundInode
  <2> QED
    BY <1>2, <2>3 DEF Accounted
<1>5. CASE BootInode
  <2>1. /\ Quiet /\ Entered(Now, Now', cursor)
        /\ cursor \in Inode /\ cursor \in Int /\ cursor' = cursor + 1
        /\ \/ /\ ic' = ic /\ inode_bitmap' = inode_bitmap
              /\ cursor \in SoundInode => InodeVal(Now, cursor) = FREE
           \/ /\ inode_bitmap' = inode_bitmap \union {cursor}
              /\ cursor \in SoundInode => InodeVal(Now, cursor) # FREE
    BY <1>5, BootInodeEffect DEF Inode
  <2>2. pc = "boot"
    BY <1>5 DEF BootInode
  <2>3. \A i \in SoundInode : i >= cursor => i \notin inode_bitmap /\ ic.hash[i] = NULL
    BY <1>3, <2>2 DEF IInv, BootPart, Accounted, BitmapPart
  <2>4. \A i \in SoundInode : i < cursor => Used(i)
    BY <1>1, <2>2 DEF Accounted, BitmapPart, Met
  <2>5. ASSUME NEW i \in SoundInode, i < cursor + 1
        PROVE  Used(i)'
    <3>1. InodeVal(Now', i) = InodeVal(Now, i)
      BY <2>1 DEF Quiet, SameView
    <3>2. CASE i = cursor
      <4>1. ic.hash[i] = NULL /\ i \notin inode_bitmap
        BY <2>1, <2>3, <3>2
      <4> QED
        BY <2>1, <3>1, <3>2, <4>1 DEF Used
    <3>3. CASE i < cursor
      <4>1. i \in inode_bitmap' <=> i \in inode_bitmap
        BY <1>3, <2>1, <3>3
      <4>2. ic'.hash[i] # NULL => ic.hash[i] # NULL
        BY <1>3, <2>1, <3>3 DEF Entered, Now
      <4> QED
        BY <2>4, <3>1, <3>3, <4>1, <4>2 DEF Used
    <3> QED
      BY <1>3, <2>1, <2>5, <3>2, <3>3
  <2>6. \A i \in SoundInode : i >= cursor + 1 => i \notin inode_bitmap'
    BY <1>3, <2>1, <2>3
  <2>7. BitmapPart'
    BY <1>1, <2>1, <2>5, <2>6 DEF BitmapPart, Met, SoundInode
  <2> QED
    BY <1>2, <2>7 DEF Accounted
<1> QED
  BY <1>4, <1>5

\* Nothing is accounted for while the power is off.
LEMMA PowerOffAccounted == PowerOff => Accounted'
BY DEF PowerOff, Goto, Accounted, BitmapPart, FreedPart, DonePart, Met

-----------------------------------------------------------------------------
(* What any step does.                                                     *)

\* A step of one of these kinds keeps what readers see, except for one item.
QuietStep == Quiet /\ (pc = "ready" => TailStays(Now, Now'))

DataStep(b, o, v) ==
  /\ WriteBlock(b, o, v) /\ pc' = "ready"
  /\ Lower(Now, Now') /\ StaysBounded(Now, Now') /\ TailStays(Now, Now')
  /\ \A i \in SoundInode : InodeVal(Now', i) = InodeVal(Now, i)
  /\ \A x \in DataBlock : BlockData(Now', x) =
       IF x = b THEN [BlockData(Now, x) EXCEPT ![o] = v] ELSE BlockData(Now, x)

\* The requests that write v to inode i.
WritesInode(i, v) ==
  \/ v # FREE /\ (ChangeInode(i, v) \/ DropLink(i, v) \/ CreateInode(v))
  \/ v = FREE /\ (FreeInode(i) \/ \E w \in Val : CreateInode(w))

InodeStep(i, v) == Wrote(i, v) /\ pc' \in {"ready", "sync_inodes"} /\ WritesInode(i, v)

Effect ==
  \/ PowerOff
  \/ QuietStep
  \/ \E b \in DataBlock, o \in DataSlot, v \in Cell : DataStep(b, o, v)
  \/ \E i \in Inode, v \in Cell : InodeStep(i, v)

\* Steps that leave the storage alone are quiet.
LEMMA UnmovedStep ==
  ASSUME IInv, Accounted, UNCHANGED <<disk, bc, ic, inode_bitmap>>,
         \/ BootDone \/ SyncInodesDone \/ SyncBlocksDone \/ SyncReply \/ UNCHANGED vars
         \/ \E who \in {"SyncHandler", "ShutdownHandler"} : StartSync(who)
  PROVE  QuietStep /\ Accounted'
<1>1. Now' = Now
  BY DEF Now
<1>2. Accounted'
  BY SameAccounted
<1>3. SameView(Now, Now') /\ Lower(Now, Now') /\ StaysBounded(Now, Now')
  BY <1>1, LowerSame DEF SameView, StaysBounded
<1>4. TailStays(Now, Now')
  BY <1>1, InodeListSame DEF IInv
<1> QED
  BY <1>2, <1>3, <1>4 DEF QuietStep, Quiet

\* What a request does.
LEMMA RequestStep ==
  ASSUME IInv, Accounted, Request
  PROVE  Effect /\ Accounted'
<1>1. ASSUME NEW b \in DataBlock, ReadBlock(b) PROVE Effect /\ Accounted'
  <2>1. Quiet /\ TailStays(Now, Now') /\ ic' = ic
    BY <1>1, ReadBlockEffect
  <2>2. /\ pc = "ready" /\ pc' = "ready" /\ caller' = caller /\ inode_bitmap' = inode_bitmap
    BY <1>1 DEF ReadBlock, NoLoop
  <2>3. 0 \in Inode /\ Entered(Now, Now', 0) /\ (ic'.hash[0] # NULL => Known(0))
    BY <2>1, SlotBlockFacts DEF Entered, Known, Now
  <2>4. Accounted'
    BY <2>1, <2>2, <2>3, QuietAccounted
  <2> QED
    BY <2>1, <2>4 DEF Effect, QuietStep
<1>2. ASSUME NEW b \in DataBlock, NEW o \in DataSlot, NEW v \in Cell, WriteBlock(b, o, v)
      PROVE  Effect /\ Accounted'
  <2>1. /\ pc = "ready" /\ pc' = "ready" /\ caller' = caller /\ inode_bitmap' = inode_bitmap
    BY <1>2 DEF WriteBlock, NoLoop
  <2>2. DataStep(b, o, v) /\ ic' = ic
    BY <1>2, <2>1, WriteBlockEffect DEF DataStep
  <2>3. caller # "free_inode" /\ \A i \in SoundInode : Used(i)
    BY <2>1, ReadyAccounted
  <2>4. \A i \in SoundInode : Used(i)'
    BY <2>1, <2>2, <2>3 DEF Used, DataStep
  <2>5. Accounted'
    BY <2>1, <2>3, <2>4 DEF Accounted, BitmapPart, FreedPart, DonePart, SoundInode
  <2> QED
    BY <2>2, <2>5 DEF Effect
<1>3. ASSUME NEW i \in Inode, UseInode(i) PROVE Effect /\ Accounted'
  <2>1. /\ Quiet /\ TailStays(Now, Now') /\ Entered(Now, Now', i)
        /\ ic'.hash[i] # NULL => Known(i)
    BY <1>3, UseInodeEffect
  <2>2. /\ pc = "ready" /\ pc' = "ready" /\ caller' = caller /\ inode_bitmap' = inode_bitmap
    BY <1>3 DEF UseInode, NoLoop
  <2>3. Accounted'
    BY <2>1, <2>2, QuietAccounted
  <2> QED
    BY <2>1, <2>3 DEF Effect, QuietStep
<1>4. ASSUME NEW i \in Inode, NEW v \in Val, ChangeInode(i, v) \/ DropLink(i, v)
      PROVE  Effect /\ Accounted'
  <2>1. Wrote(i, v) /\ Known(i)
    BY <1>4, ChangeInodeEffect, DropLinkEffect
  <2>2. /\ pc = "ready" /\ pc' = "ready" /\ caller' = caller /\ inode_bitmap' = inode_bitmap
    BY <1>4 DEF ChangeInode, DropLink, NoLoop
  <2>3. \A j \in SoundInode : j \in inode_bitmap' <=> j \in inode_bitmap \/ j = i
    BY <2>1, <2>2, ReadyAccounted DEF Known, Used
  <2>4. Accounted'
    BY <2>1, <2>2, <2>3, WroteAccounted
  <2>5. v \in Cell /\ v # FREE
    BY StorageAssumption DEF Cell
  <2> QED
    BY <1>4, <2>1, <2>2, <2>4, <2>5 DEF Effect, InodeStep, WritesInode
<1>5. ASSUME NEW i \in Inode, FreeInode(i) PROVE Effect /\ Accounted'
  <2>1. Wrote(i, FREE) /\ Freeing(i)
    BY <1>5, FreeInodeEffect
  <2>2. pc = "ready" /\ inode_bitmap' = inode_bitmap \ {i}
    BY <1>5 DEF FreeInode
  <2>3. Accounted'
    BY <2>1, <2>2, FreeingAccounted
  <2> QED
    BY <1>5, <2>1, <2>3 DEF Effect, InodeStep, WritesInode, Freeing, Cell
<1>6. ASSUME NEW v \in Val, CreateInode(v) PROVE Effect /\ Accounted'
  <2>1. pc = "ready"
    BY <1>6 DEF CreateInode
  <2>2. PICK i \in Inode \ inode_bitmap :
           \/ Wrote(i, v) /\ ic.hash[i] = NULL /\ inode_bitmap' = inode_bitmap \union {i} /\ NoLoop
           \/ Wrote(i, FREE) /\ ic.hash[i] = NULL /\ Freeing(i) /\ UNCHANGED inode_bitmap
           \/ ic.hash[i] # NULL /\ PowerOff
    BY <1>6, CreateInodeEffect
  <2>3. CASE Wrote(i, v) /\ ic.hash[i] = NULL /\ inode_bitmap' = inode_bitmap \union {i} /\ NoLoop
    <3>1. Accounted'
      BY <2>1, <2>3, WroteAccounted DEF NoLoop
    <3>2. v \in Cell /\ v # FREE
      BY StorageAssumption DEF Cell
    <3> QED
      BY <1>6, <2>1, <2>3, <3>1, <3>2 DEF Effect, InodeStep, WritesInode, NoLoop
  <2>4. CASE Wrote(i, FREE) /\ ic.hash[i] = NULL /\ Freeing(i) /\ UNCHANGED inode_bitmap
    <3>1. Accounted'
      BY <2>1, <2>4, FreeingAccounted
    <3> QED
      BY <1>6, <2>4, <3>1 DEF Effect, InodeStep, WritesInode, Freeing, Cell
  <2>5. CASE ic.hash[i] # NULL /\ PowerOff
    BY <2>5, PowerOffAccounted DEF Effect
  <2> QED
    BY <2>2, <2>3, <2>4, <2>5
<1>7. ASSUME NEW who \in {"SyncHandler", "ShutdownHandler"}, StartSync(who)
      PROVE  Effect /\ Accounted'
  <2>1. UNCHANGED <<disk, bc, ic, inode_bitmap>>
    BY <1>7 DEF StartSync
  <2> QED
    BY <1>7, <2>1, UnmovedStep DEF Effect
<1> QED
  BY <1>1, <1>2, <1>3, <1>4, <1>5, <1>6, <1>7 DEF Request

\* What any step does.
LEMMA StepEffect ==
  ASSUME IInv, Accounted, [Next]_vars
  PROVE  Effect /\ Accounted'
<1>1. CASE Boot \/ BootInode
  <2>1. Quiet /\ pc # "ready"
    BY <1>1, BootEffect, BootInodeEffect DEF Boot, BootInode
  <2> QED
    BY <1>1, <2>1, BootAccounted DEF Effect, QuietStep
<1>2. CASE SyncInode \/ SyncBlock
  <2>1. Quiet /\ pc # "ready"
    BY <1>2, SyncEffect, Zenon DEF SyncInode, SyncBlock
  <2> QED
    BY <1>2, <2>1, SyncInodeAccounted, SyncBlockAccounted DEF Effect, QuietStep
<1>3. CASE FreeDone
  <2>1. Quiet /\ Accounted' /\ pc # "ready"
    BY <1>3, FreeDoneEffect DEF FreeDone
  <2> QED
    BY <2>1 DEF Effect, QuietStep
<1>4. CASE BootDone \/ SyncInodesDone \/ SyncBlocksDone \/ SyncReply \/ UNCHANGED vars
  <2>1. UNCHANGED <<disk, bc, ic, inode_bitmap>>
    BY <1>4 DEF BootDone, SyncInodesDone, SyncBlocksDone, SyncReply, vars
  <2> QED
    BY <1>4, <2>1, UnmovedStep DEF Effect
<1>5. CASE Crash \/ ShutdownExit
  BY <1>5, PowerOffAccounted DEF Effect, Crash, ShutdownExit
<1>6. CASE Request
  BY <1>6, RequestStep
<1> QED
  BY <1>1, <1>2, <1>3, <1>4, <1>5, <1>6 DEF Next, Progress

\* The accounts are kept from the first boot on.
LEMMA AlwaysAccounted == Spec => [](IInv /\ Accounted)
<1>1. Init => IInv /\ Accounted
  <2> SUFFICES ASSUME Init PROVE IInv /\ Accounted
    OBVIOUS
  <2>1. pc = "down" /\ caller = "none"
    BY DEF Init, Idle
  <2>2. Accounted
    BY <2>1 DEF Accounted, BitmapPart, FreedPart, DonePart, Met
  <2> QED
    BY <2>2, InitInvariant
<1>2. IInv /\ Accounted /\ [Next]_vars => IInv' /\ Accounted'
  BY NextInvariant, StepEffect
<1> QED
  BY <1>1, <1>2, PTL DEF Spec

\* The bitmap says in use exactly of the inodes that are allocated, and a free
\* one is never cached, so createFile never takes an inode that is in use and
\* never links an entry twice, whatever failed, was evicted or was freed before.
THEOREM BitmapAccounts == Spec => []InodesAccounted
<1>1. IInv /\ Accounted => InodesAccounted
  BY ReadyAccounted DEF InodesAccounted, Used
<1> QED
  BY <1>1, AlwaysAccounted, PTL

\* Both lists stay within their sizes as long as every sector can be written.
THEOREM CachesStayBounded ==
  ASSUME Faults = {{}}
  PROVE  Spec => []CacheBounded
<1> DEFINE Fits == BlocksBounded(Now) /\ InodesBounded(Now)
<1>1. ASSUME bc = EmptyCache(Block), ic = EmptyCache(Inode)
      PROVE  Fits
  <2>1. Len(bc.queue) = 0 /\ Len(ic.queue) = 0
    BY <1>1 DEF EmptyCache
  <2> QED
    BY <2>1, StorageAssumption DEF BlocksBounded, InodesBounded, Now
<1>2. Init => Fits
  BY <1>1 DEF Init
<1>3. IInv /\ Accounted /\ Fits /\ [Next]_vars => Fits'
  <2> SUFFICES ASSUME IInv, Accounted, Fits, [Next]_vars PROVE Fits'
    OBVIOUS
  <2>1. CASE StaysBounded(Now, Now')
    BY <2>1 DEF StaysBounded
  <2>2. CASE PowerOff
    <3>1. Len(bc'.queue) = 0 /\ Len(ic'.queue) = 0
      BY <2>2 DEF PowerOff, EmptyCache
    <3> QED
      BY <3>1, StorageAssumption DEF BlocksBounded, InodesBounded, Now
  <2> QED
    BY <2>1, <2>2, StepEffect DEF Effect, QuietStep, Quiet, DataStep, InodeStep, Wrote
<1>4. Fits => CacheBounded
  BY DEF BlocksBounded, InodesBounded, CacheBounded, Now
<1> HIDE DEF Fits
<1> QED
  BY <1>2, <1>3, <1>4, AlwaysAccounted, PTL DEF Spec

\* The inode a handler got last stays in the cache while the handler gets blocks
\* and one more inode, as long as the cache has room for two.
THEOREM HeldInodeStays ==
  ASSUME INODE_CACHESIZE >= 2
  PROVE  Spec => HeldInodeSurvives
<1>1. IInv /\ Accounted /\ [Next]_vars
        => [ pc = "ready" /\ pc' # "down" => TailSurvives(ic.queue, ic'.queue) ]_vars
  <2> SUFFICES ASSUME IInv, Accounted, [Next]_vars, pc = "ready", pc' # "down"
               PROVE  TailSurvives(ic.queue, ic'.queue)
    OBVIOUS
  <2>1. ~ PowerOff
    BY DEF PowerOff, Goto
  <2>2. TailStays(Now, Now')
    BY <2>1, StepEffect DEF Effect, QuietStep, DataStep, InodeStep, Wrote
  <2> QED
    BY <2>2 DEF TailStays, Now
<1> QED
  BY <1>1, AlwaysAccounted, PTL DEF Spec, HeldInodeSurvives

-----------------------------------------------------------------------------
(* The store.                                                              *)

SurvivorsOf(x) == {DiskOf(x), BlockOf(x), ViewOf(x)}

\* The values of the three levels are contents.
LEMMA ItemValues ==
  ASSUME IInv, NEW x \in StoreItem
  PROVE  DiskOf(x) \in Cell /\ BlockOf(x) \in Cell /\ ViewOf(x) \in Cell
<1>1. StorageOK(Now) /\ Now.disk = disk
  BY DEF IInv, Now
<1>2. CASE x \in InodeItem
  <2>1. x.kind = "inode" /\ x.num \in Inode /\ x.num \in SoundInode
    BY <1>2 DEF InodeItem, SoundInode
  <2>2. DiskOf(x) \in Cell
    <3>1. INODE_TO_BLOCK(x.num) \in Block /\ INODE_IN_BLOCK_ADDR(x.num) \in Slot
      BY <2>1, InodeAddress
    <3>2. disk[INODE_TO_BLOCK(x.num)] \in [Slot -> Cell]
      BY <1>1, <3>1, BlockHash
    <3> QED
      BY <2>1, <3>1, <3>2 DEF DiskOf, BlockOf, ViewOf
  <2>3. InodeInBlock(Now, x.num) \in Cell /\ InodeVal(Now, x.num) \in Cell
    BY <1>1, <2>1, InodeHash, InodeEntry DEF InodeVal
  <2> QED
    BY <2>1, <2>2, <2>3 DEF BlockOf, ViewOf
<1>3. CASE x \in DataItem
  <2>1. x.kind = "data" /\ x.num \in Block /\ x.slot \in Slot
    BY <1>3, SlotBlockFacts DEF DataItem
  <2>2. disk[x.num] \in [Slot -> Cell] /\ BlockData(Now, x.num) \in [Slot -> Cell]
    BY <1>1, <2>1, BlockHash
  <2> QED
    BY <2>1, <2>2 DEF DiskOf, BlockOf, ViewOf
<1> QED
  BY <1>2, <1>3 DEF StoreItem

\* What an item is.
LEMMA ItemCases ==
  ASSUME NEW x \in StoreItem
  PROVE  \/ x.kind = "inode" /\ x.num \in SoundInode /\ x = [kind |-> "inode", num |-> x.num]
         \/ /\ x.kind = "data" /\ x.num \in DataBlock /\ x.slot \in Slot
            /\ x = [kind |-> "data", num |-> x.num, slot |-> x.slot]
BY DEF StoreItem, InodeItem, DataItem

\* Values only sink: a power failure brings back nothing it could not have
\* brought back before, except for what is written.
LEMMA ItemsSink ==
  ASSUME Lower(Now, Now'), NEW x \in StoreItem
  PROVE  SurvivorsOf(x)' \subseteq SurvivorsOf(x) \union {ViewOf(x)'}
<1>1. CASE x.kind = "inode" /\ x.num \in SoundInode
  <2>1. /\ InodeInBlock(Now', x.num) \in {InodeInBlock(Now, x.num), InodeVal(Now, x.num)}
        /\ OnSector(Now', x.num) \in {OnSector(Now, x.num), InodeInBlock(Now, x.num), InodeVal(Now, x.num)}
    BY <1>1 DEF Lower
  <2>2. /\ DiskOf(x) = OnSector(Now, x.num) /\ DiskOf(x)' = OnSector(Now', x.num)
        /\ BlockOf(x) = InodeInBlock(Now, x.num) /\ BlockOf(x)' = InodeInBlock(Now', x.num)
        /\ ViewOf(x) = InodeVal(Now, x.num)
    BY <1>1 DEF DiskOf, BlockOf, ViewOf, OnSector, Now
  <2> QED
    BY <2>1, <2>2 DEF SurvivorsOf
<1>2. CASE x.kind = "data" /\ x.num \in DataBlock
  <2>1. Now'.disk[x.num] \in {Now.disk[x.num], BlockData(Now, x.num)}
    BY <1>2 DEF Lower
  <2>2. /\ DiskOf(x) = Now.disk[x.num][x.slot] /\ DiskOf(x)' = Now'.disk[x.num][x.slot]
        /\ BlockOf(x) = BlockData(Now, x.num)[x.slot] /\ BlockOf(x)' = ViewOf(x)'
    BY <1>2 DEF DiskOf, BlockOf, ViewOf, Now
  <2> QED
    BY <2>1, <2>2 DEF SurvivorsOf
<1> QED
  BY <1>1, <1>2, ItemCases

\* A quiet step changes no item.
LEMMA QuietView ==
  ASSUME Quiet, NEW x \in StoreItem
  PROVE  ViewOf(x)' = ViewOf(x)
BY ItemCases DEF Quiet, SameView, ViewOf, BlockOf

\* A write to an inode changes its item.
LEMMA InodeStepView ==
  ASSUME NEW i \in Inode, NEW v \in Cell, Wrote(i, v), NEW x \in StoreItem
  PROVE  ViewOf(x)' = IF x.kind = "inode" /\ x.num = i THEN v ELSE ViewOf(x)
BY ItemCases DEF Wrote, Holding, ViewOf, BlockOf

\* A write to a data block changes its item.
LEMMA DataStepView ==
  ASSUME IInv, NEW b \in DataBlock, NEW o \in DataSlot, NEW v \in Cell, DataStep(b, o, v),
         NEW x \in StoreItem
  PROVE  ViewOf(x)' = IF x.kind = "data" /\ x.num = b /\ x.slot = o THEN v ELSE ViewOf(x)
<1>1. BlockData(Now, b) \in [Slot -> Cell]
  BY BlockHash, SlotBlockFacts DEF IInv
<1>2. /\ \A i \in SoundInode : InodeVal(Now', i) = InodeVal(Now, i)
      /\ \A y \in DataBlock : BlockData(Now', y) =
           IF y = b THEN [BlockData(Now, y) EXCEPT ![o] = v] ELSE BlockData(Now, y)
  BY DEF DataStep
<1>3. CASE x.kind = "inode" /\ x.num \in SoundInode
  BY <1>2, <1>3 DEF ViewOf, BlockOf
<1>4. CASE x.kind = "data" /\ x.num \in DataBlock /\ x.slot \in Slot
  <2>1. ViewOf(x) = BlockData(Now, x.num)[x.slot] /\ ViewOf(x)' = BlockData(Now', x.num)[x.slot]
    BY <1>4 DEF ViewOf, BlockOf
  <2> QED
    BY <1>1, <1>2, <1>4, <2>1
<1> QED
  BY <1>3, <1>4, ItemCases

\* With nothing cached every item is what its sector holds.
EmptyAgrees ==
  bc = EmptyCache(Block) /\ ic = EmptyCache(Inode)
    => \A x \in StoreItem : ViewOf(x) = DiskOf(x) /\ SurvivorsOf(x) = {ViewOf(x)}

LEMMA EmptyView == EmptyAgrees
<1> SUFFICES ASSUME bc = EmptyCache(Block), ic = EmptyCache(Inode), NEW x \in StoreItem
             PROVE  BlockOf(x) = DiskOf(x) /\ ViewOf(x) = DiskOf(x)
  BY DEF EmptyAgrees, SurvivorsOf
<1>1. \A b \in Block : BlockData(Now, b) = disk[b]
  BY DEF BlockData, EmptyCache, Now
<1>2. CASE x.kind = "inode" /\ x.num \in SoundInode
  <2>1. x.num \in Inode /\ INODE_TO_BLOCK(x.num) \in Block
    BY <1>2, InodeAddress DEF SoundInode
  <2>2. InodeInBlock(Now, x.num) = DiskOf(x)
    <3>1. InodeInBlock(Now, x.num) = disk[INODE_TO_BLOCK(x.num)][INODE_IN_BLOCK_ADDR(x.num)]
      BY <1>1, <2>1 DEF InodeInBlock
    <3> QED
      BY <1>2, <3>1 DEF DiskOf, BlockOf, ViewOf
  <2>3. InodeVal(Now, x.num) = InodeInBlock(Now, x.num)
    BY <2>1 DEF InodeVal, EmptyCache, Now
  <2> QED
    BY <1>2, <2>2, <2>3 DEF ViewOf, BlockOf
<1>3. CASE x.kind = "data" /\ x.num \in DataBlock
  BY <1>1, <1>3, SlotBlockFacts DEF ViewOf, BlockOf, DiskOf
<1> QED
  BY <1>2, <1>3, ItemCases

\* So it is after a power failure.
LEMMA PowerOffView ==
  ASSUME PowerOff, NEW x \in StoreItem
  PROVE  /\ ViewOf(x)' = DiskOf(x)
         /\ SurvivorsOf(x)' = {ViewOf(x)'}
<1>1. disk' = disk /\ bc' = EmptyCache(Block) /\ ic' = EmptyCache(Inode)
  BY DEF PowerOff
<1>2. EmptyAgrees'
  BY EmptyView, PTL
<1>3. ViewOf(x)' = DiskOf(x)' /\ SurvivorsOf(x)' = {ViewOf(x)'}
  BY <1>1, <1>2 DEF EmptyAgrees, StoreItem, InodeItem, DataItem, SoundInode
<1>4. DiskOf(x)' = DiskOf(x)
  BY <1>1 DEF DiskOf, BlockOf, ViewOf
<1> QED
  BY <1>3, <1>4

\* When sync has returned 0 there is nothing else to bring back.
LEMMA DurableItem ==
  SyncDurable /\ pc = "sync_done" /\ res = 0
    => \A x \in StoreItem : x \notin [kind : {"inode"}, num : MultiLinked \intersect SoundInode]
         => SurvivorsOf(x) = {ViewOf(x)}
<1> SUFFICES ASSUME SyncDurable, pc = "sync_done", res = 0, NEW x \in StoreItem,
                    x \notin [kind : {"inode"}, num : MultiLinked \intersect SoundInode]
             PROVE  BlockOf(x) = DiskOf(x) /\ ViewOf(x) = DiskOf(x)
  BY DEF SurvivorsOf
<1>1. /\ \A b \in SoundBlock : BlockData(Now, b) = disk[b]
      /\ \A i \in SoundInode \ MultiLinked :
           InodeVal(Now, i) = disk[INODE_TO_BLOCK(i)][INODE_IN_BLOCK_ADDR(i)]
  BY DEF SyncDurable, OnDisk, InodeOnDisk
<1>2. CASE x.kind = "inode" /\ x.num \in SoundInode
  <2>1. INODE_TO_BLOCK(x.num) \in SoundBlock
    BY <1>2, InodeAddress DEF SoundInode
  <2>2. x.num \notin MultiLinked
    BY <1>2, ItemCases
  <2> QED
    BY <1>1, <1>2, <2>1, <2>2 DEF ViewOf, BlockOf, DiskOf, InodeInBlock
<1>3. CASE x.kind = "data" /\ x.num \in DataBlock
  BY <1>1, <1>3, DataBlockSound DEF ViewOf, BlockOf, DiskOf
<1> QED
  BY <1>2, <1>3, ItemCases

\* What a reader sees of an item changes only by a request that writes that item,
\* to the value it writes: no read, eviction, boot, step of sync, free or write of
\* another item disturbs it.
THEOREM ViewsChangeByWrites == Spec => OnlyWritesChange
<1>1. IInv /\ Accounted /\ [Next]_vars => OnlyWrites
  <2> SUFFICES ASSUME IInv, Accounted, [Next]_vars, pc' # "down", NEW x \in StoreItem
               PROVE  ViewOf(x)' = ViewOf(x) \/ WritesItem(x, ViewOf(x)')
    BY DEF OnlyWrites
  <2>1. CASE Quiet
    BY <2>1, QuietView
  <2>2. ASSUME NEW b \in DataBlock, NEW o \in DataSlot, NEW v \in Cell, DataStep(b, o, v)
        PROVE  ViewOf(x)' = ViewOf(x) \/ WritesItem(x, ViewOf(x)')
    <3>1. ViewOf(x)' = IF x.kind = "data" /\ x.num = b /\ x.slot = o THEN v ELSE ViewOf(x)
      BY <2>2, DataStepView
    <3>2. CASE x.kind = "data" /\ x.num = b /\ x.slot = o
      <4>1. ViewOf(x)' = v /\ WriteBlock(b, o, v)
        BY <2>2, <3>1, <3>2 DEF DataStep
      <4> QED
        BY <3>2, <4>1 DEF WritesItem
    <3> QED
      BY <3>1, <3>2
  <2>3. ASSUME NEW i \in Inode, NEW v \in Cell, InodeStep(i, v)
        PROVE  ViewOf(x)' = ViewOf(x) \/ WritesItem(x, ViewOf(x)')
    <3>1. ViewOf(x)' = IF x.kind = "inode" /\ x.num = i THEN v ELSE ViewOf(x)
      BY <2>3, InodeStepView DEF InodeStep
    <3>2. CASE x.kind = "inode" /\ x.num = i
      <4>1. ViewOf(x)' = v /\ WritesInode(i, v)
        BY <2>3, <3>1, <3>2 DEF InodeStep
      <4> QED
        BY <3>2, <4>1 DEF WritesItem, WritesInode
    <3> QED
      BY <3>1, <3>2
  <2>4. ~ PowerOff
    BY DEF PowerOff, Goto
  <2> QED
    BY <2>1, <2>2, <2>3, <2>4, StepEffect DEF Effect, QuietStep
<1> QED
  BY <1>1, AlwaysAccounted, PTL DEF Spec, OnlyWritesChange

\* The store's variables, as the refinement mapping defines them.
View == [x \in StoreItem |-> ViewOf(x)]
Survivors == [x \in StoreItem |-> SurvivorsOf(x)]
Acked == pc = "sync_done" /\ res = 0

\* The mapping gives the store's variables their types.
StoreTyped == View \in [StoreItem -> Cell] /\ Survivors \in [StoreItem -> SUBSET Cell]

LEMMA StoreTypes == IInv => StoreTyped
BY ItemValues DEF StoreTyped, View, Survivors, SurvivorsOf

\* The mapping after a step.
LEMMA StorePrimes ==
  /\ View' = [x \in StoreItem |-> ViewOf(x)']
  /\ Survivors' = [x \in StoreItem |-> SurvivorsOf(x)']
BY DEF View, Survivors, StoreItem, InodeItem, DataItem, SoundInode

\* When nothing is written, or one item, no other value can come back.
LEMMA StoreSettles ==
  ASSUME IInv', Lower(Now, Now')
  PROVE  Store!Settle(View')
<1>1. Survivors' \in [StoreItem -> SUBSET Cell]
  <2>1. StoreTyped'
    BY StoreTypes, PTL
  <2> QED
    BY <2>1 DEF StoreTyped, StoreItem, InodeItem, DataItem, SoundInode
<1>2. \A x \in StoreItem :
        /\ View'[x] \in Survivors'[x]
        /\ Survivors'[x] \subseteq Survivors[x] \union {View'[x]}
  BY ItemsSink, StorePrimes DEF Survivors, SurvivorsOf
<1> QED
  BY <1>1, <1>2 DEF Store!Settle, Survivors, SurvivorsOf

\* A quiet step is a step of the store in the background, or the return of sync.
LEMMA QuietRefines ==
  ASSUME IInv, IInv', Quiet
  PROVE  Store!Background \/ Store!Sync
<1>1. View' = View
  BY QuietView, StorePrimes DEF View
<1>2. Store!Settle(View')
  BY StoreSettles DEF Quiet
<1>3. CASE ~ Acked'
  BY <1>1, <1>2, <1>3 DEF Store!Background, View, Acked
<1>4. CASE Acked'
  <2>1. SyncDurable'
    BY SyncedState, PTL
  <2>2. (SyncDurable /\ pc = "sync_done" /\ res = 0
           => \A x \in StoreItem : x \notin [kind : {"inode"}, num : MultiLinked \intersect SoundInode]
                => SurvivorsOf(x) = {ViewOf(x)})'
    BY DurableItem, PTL
  <2>3. ASSUME NEW x \in StoreItem, x \notin [kind : {"inode"}, num : MultiLinked \intersect SoundInode]
        PROVE  Survivors'[x] = {View[x]}
    <3>1. SurvivorsOf(x)' = {ViewOf(x)'}
      BY <1>4, <2>1, <2>2, <2>3 DEF Acked, StoreItem, InodeItem, DataItem, SoundInode
    <3> QED
      BY <1>1, <3>1, StorePrimes
  <2> QED
    BY <1>1, <1>2, <1>4, <2>3 DEF Store!Sync, View, Survivors, SurvivorsOf, Acked
<1> QED
  BY <1>3, <1>4

\* A step that writes an item is a write of the store.
LEMMA WriteRefines ==
  ASSUME IInv, IInv', Lower(Now, Now'), pc' # "sync_done", NEW x \in StoreItem, NEW v \in Cell,
         \A y \in StoreItem : ViewOf(y)' = IF y = x THEN v ELSE ViewOf(y)
  PROVE  Store!Write(x, v)
<1>1. View' = [View EXCEPT ![x] = v]
  BY StorePrimes DEF View
<1>2. Store!Settle(View')
  BY StoreSettles
<1> QED
  BY <1>1, <1>2 DEF Store!Write, View, Acked

\* A power failure sets each item back to a survivor.
LEMMA PowerOffRefines ==
  ASSUME IInv', PowerOff
  PROVE  Store!Crash
<1>1. View' \in [StoreItem -> Cell]
  <2>1. StoreTyped'
    BY StoreTypes, PTL
  <2> QED
    BY <2>1 DEF StoreTyped, StoreItem, InodeItem, DataItem, SoundInode
<1>2. \A x \in StoreItem : View'[x] \in Survivors[x]
  BY PowerOffView, StorePrimes DEF Survivors, SurvivorsOf
<1>3. Survivors' = [x \in StoreItem |-> {View'[x]}]
  BY PowerOffView, StorePrimes
<1>4. pc' # "sync_done"
  BY DEF PowerOff, Goto
<1> QED
  BY <1>1, <1>2, <1>3, <1>4 DEF Store!Crash, Store!Certain, View, Survivors, SurvivorsOf

\* Every step of the caches is a step of the store.
LEMMA StoreStep ==
  ASSUME IInv, IInv', Effect
  PROVE  Store!Next
<1>1. CASE PowerOff
  BY <1>1, PowerOffRefines DEF Store!Next
<1>2. CASE QuietStep
  BY <1>2, QuietRefines DEF QuietStep, Store!Next
<1>3. ASSUME NEW b \in DataBlock, NEW o \in DataSlot, NEW v \in Cell, DataStep(b, o, v)
      PROVE  Store!Next
  <2> DEFINE x == [kind |-> "data", num |-> b, slot |-> o]
  <2>1. x \in StoreItem
    BY SlotBlockFacts DEF StoreItem, DataItem
  <2>2. \A y \in StoreItem : y = x <=> y.kind = "data" /\ y.num = b /\ y.slot = o
    BY ItemCases
  <2>3. \A y \in StoreItem : ViewOf(y)' = IF y = x THEN v ELSE ViewOf(y)
    BY <1>3, <2>2, DataStepView
  <2>4. Store!Write(x, v)
    BY <1>3, <2>1, <2>3, WriteRefines DEF DataStep
  <2> QED
    BY <2>1, <2>4 DEF Store!Next
<1>4. ASSUME NEW i \in Inode, NEW v \in Cell, InodeStep(i, v)
      PROVE  Store!Next
  <2> DEFINE x == [kind |-> "inode", num |-> i]
  <2>1. \A y \in StoreItem : ViewOf(y)' = IF y.kind = "inode" /\ y.num = i THEN v ELSE ViewOf(y)
    BY <1>4, InodeStepView DEF InodeStep
  <2>2. Lower(Now, Now') /\ pc' # "sync_done"
    BY <1>4 DEF InodeStep, Wrote
  <2>3. CASE i \in SoundInode
    <3>1. x \in StoreItem
      BY <2>3 DEF StoreItem, InodeItem
    <3>2. \A y \in StoreItem : y = x <=> y.kind = "inode" /\ y.num = i
      BY ItemCases
    <3>3. Store!Write(x, v)
      BY <2>1, <2>2, <3>1, <3>2, WriteRefines
    <3> QED
      BY <3>1, <3>3 DEF Store!Next
  <2>4. CASE i \notin SoundInode
    <3>1. \A y \in StoreItem : ViewOf(y)' = ViewOf(y)
      BY <2>1, <2>4, ItemCases
    <3>2. Store!Background
      <4>1. View' = View
        BY <3>1, StorePrimes DEF View
      <4>2. Store!Settle(View')
        BY <2>2, StoreSettles
      <4> QED
        BY <2>2, <4>1, <4>2 DEF Store!Background, View, Acked
    <3> QED
      BY <3>2 DEF Store!Next
  <2> QED
    BY <2>3, <2>4
<1> QED
  BY <1>1, <1>2, <1>3, <1>4 DEF Effect

\* The caches over the disk are a store: a reader sees the last value written, a
\* power failure brings back a value that was on its way to the disk, and a sync
\* that returns 0 leaves nothing else to bring back, except for inodes with more
\* than one link.
THEOREM StoreIsImplemented == Spec => ImplementsStore
<1>1. Init => Store!Init
  <2> SUFFICES ASSUME Init PROVE Store!Init
    OBVIOUS
  <2>1. IInv
    BY InitInvariant
  <2>2. ASSUME NEW x \in StoreItem
        PROVE  SurvivorsOf(x) = {ViewOf(x)}
    BY EmptyView DEF EmptyAgrees, Init
  <2>3. View \in [StoreItem -> Cell]
    BY <2>1, StoreTypes DEF StoreTyped
  <2>4. pc # "sync_done"
    BY DEF Init
  <2> QED
    BY <2>2, <2>3, <2>4 DEF Store!Init, Store!Certain, View, SurvivorsOf
<1>2. IInv /\ Accounted /\ IInv' /\ [Next]_vars => [Store!Next]_(Store!vars)
  BY StepEffect, StoreStep
<1> QED
  BY <1>1, <1>2, AlwaysAccounted, PTL DEF Spec, ImplementsStore, Store!Spec
=============================================================================
