------------------------------ MODULE YfsCache ------------------------------
(***************************************************************************)
(* The life of the server's caches: boot, the requests as the caches see   *)
(* them, sync one list entry at a time, shutdown and power failure.        *)
(*                                                                         *)
(* A request is a row of actions, each the use a handler makes of one      *)
(* block or inode; handlers differ in the rows they run, and every row is  *)
(* a behaviour here.  The loops of init_inode_block and sync are one       *)
(* action per iteration.  Any of these actions may write a sector, and a   *)
(* power failure between two of them leaves a disk neither old nor new.    *)
(***************************************************************************)
EXTENDS YfsStorage, FiniteSets

CONSTANTS
  Faults,       \* sets of sectors on which WriteSector may fail during a step
  MultiLinked,  \* inodes that can have more than one hard link
  DataSlot      \* the slots of a data block that clients write

ASSUME CacheAssumption ==
  /\ {} \in Faults
  /\ MultiLinked \subseteq Inode \ {0}
  /\ DataSlot \subseteq Slot

VARIABLES
  disk,         \* the sectors
  bc,           \* block_head .. block_tail and block_hashtable
  ic,           \* inode_head .. inode_tail and inode_hashtable
  inode_bitmap, \* the inodes marked used
  pc,           \* where the server is
  cursor,       \* the loop position of boot or sync
  caller,       \* who called sync
  info,         \* the entry free_inode frees once sync returns
  res           \* what sync returned

vars == <<disk, bc, ic, inode_bitmap, pc, cursor, caller, info, res>>

Now == [disk |-> disk, bc |-> bc, ic |-> ic]

Become(s) == disk' = s.disk /\ bc' = s.bc /\ ic' = s.ic

Idle == caller = "none" /\ info = NULL /\ res = 0 /\ cursor = 0

\* The variables of boot and sync do not change.
NoLoop == UNCHANGED <<pc, cursor, caller, info, res>>

Goto(p, k) == pc' = p /\ cursor' = k

-----------------------------------------------------------------------------
(* Power on, boot, power failure.                                          *)

\* mkyfs, or another tool that writes a DISK file, ran before the first boot.
\* Inode 0 holds the fs_header, whose first bytes never read as INODE_FREE.
Init ==
  /\ disk \in [Block -> [Slot -> Cell]]
  /\ disk[HeaderBlock][0] # FREE
  /\ bc = EmptyCache(Block)
  /\ ic = EmptyCache(Inode)
  /\ inode_bitmap = {}
  /\ pc = "down"
  /\ Idle

\* init_lru, then init_inode_block up to its loop: the header block is read
\* through get_block, and then both hash tables are zeroed.
Boot ==
  /\ pc = "down"
  /\ LET s == GetBlock(Now, HeaderBlock, {})
     IN  Become([s EXCEPT !.bc.hash = [b \in Block |-> NULL]])
  /\ inode_bitmap' = {0}
  /\ Goto("boot", 1)
  /\ UNCHANGED <<caller, info, res>>

\* A faulty variant of BootInode: a free inode is met again and again.
BootInodeStuck ==
  /\ pc = "boot"
  /\ cursor < NUM_INODES
  /\ LET s == GetBlock(Now, INODE_TO_BLOCK(cursor), {})
         v == InodeInBlock(s, cursor)
     IN  IF v = FREE
         THEN Become(s) /\ UNCHANGED <<inode_bitmap, cursor>>
         ELSE /\ Become(SetInodeLru(s, cursor, v, {}))
              /\ inode_bitmap' = inode_bitmap \union {cursor}
              /\ cursor' = cursor + 1
  /\ UNCHANGED <<pc, caller, info, res>>

\* One iteration of the loop over all inodes.  A file longer than NUM_DIRECT
\* blocks also has its indirect block read.
BootInode ==
  /\ pc = "boot"
  /\ cursor < NUM_INODES
  /\ \E bad \in Faults, indirect \in DataBlock \union {NULL} :
       LET i == cursor
           s == GetBlock(Now, INODE_TO_BLOCK(i), bad)
           v == InodeInBlock(s, i)
           t == IF indirect = NULL THEN s ELSE GetBlock(s, indirect, bad)
       IN  IF v = FREE
           THEN Become(s) /\ UNCHANGED inode_bitmap
           ELSE Become(SetInodeLru(t, i, v, bad)) /\ inode_bitmap' = inode_bitmap \union {i}
  /\ cursor' = cursor + 1
  /\ UNCHANGED <<pc, caller, info, res>>

BootDone ==
  /\ pc = "boot"
  /\ cursor = NUM_INODES
  /\ Goto("ready", 0)
  /\ UNCHANGED <<disk, bc, ic, inode_bitmap, caller, info, res>>

\* Memory is gone; the sectors are not.
PowerOff ==
  /\ bc' = EmptyCache(Block)
  /\ ic' = EmptyCache(Inode)
  /\ inode_bitmap' = {}
  /\ Goto("down", 0)
  /\ caller' = "none" /\ info' = NULL /\ res' = 0
  /\ UNCHANGED disk

Crash == pc # "down" /\ PowerOff

-----------------------------------------------------------------------------
(* Requests, as the caches see them.                                       *)

\* ReadHandler and path resolution fetch a data block.
ReadBlock(b) ==
  /\ pc = "ready"
  /\ \E bad \in Faults : Become(GetBlock(Now, b, bad))
  /\ UNCHANGED inode_bitmap /\ NoLoop

\* WriteHandler and extend store into a data block.
WriteBlock(b, o, v) ==
  /\ pc = "ready"
  /\ \E bad \in Faults : Become(PutCell(Now, b, o, v, bad))
  /\ UNCHANGED inode_bitmap /\ NoLoop

UseInode(i) ==
  /\ pc = "ready"
  /\ \E bad \in Faults : Become(GetUseInode(Now, i, bad))
  /\ UNCHANGED inode_bitmap /\ NoLoop

\* WriteHandler, extend and addEntry change the inode and mark it dirty.
ChangeInode(i, v) ==
  /\ pc = "ready"
  /\ \E bad \in Faults :
       LET s == GetUseInode(Now, i, bad)
       IN  s.ic.hash[i] # NULL /\ Become(SetCachedInode(s, i, Dirty(i, v)))
  /\ UNCHANGED inode_bitmap /\ NoLoop

\* UnlinkHandler, when other links are left: nlink-- and no isDirty.
DropLink(i, v) ==
  /\ pc = "ready"
  /\ i \in MultiLinked
  /\ \E bad \in Faults :
       LET s == GetUseInode(Now, i, bad)
       IN  /\ s.ic.hash[i] # NULL
           /\ Become(SetCachedInode(s, i, [s.ic.info[s.ic.hash[i]] EXCEPT !.val = v]))
  /\ UNCHANGED inode_bitmap /\ NoLoop

\* The fields free_inode sets before it calls sync.
StartFree(s, i) ==
  /\ Become(SetCachedInode(s, i, Dirty(i, FREE)))
  /\ info' = s.ic.hash[i]
  /\ caller' = "free_inode"
  /\ Goto("sync_inodes", 1)
  /\ UNCHANGED res

\* A faulty variant of FreeInode: the bitmap still says in use.
FreeInodeStillUsed(i) ==
  /\ pc = "ready"
  /\ i # 0
  /\ \E bad \in Faults :
       LET s == GetUseInode(Now, i, bad)
       IN  s.ic.hash[i] # NULL /\ StartFree(s, i)
  /\ UNCHANGED inode_bitmap

\* UnlinkHandler, when the last link goes.
FreeInode(i) ==
  /\ pc = "ready"
  /\ i # 0
  /\ \E bad \in Faults :
       LET s == GetUseInode(Now, i, bad)
       IN  s.ic.hash[i] # NULL /\ StartFree(s, i)
  /\ inode_bitmap' = inode_bitmap \ {i}

\* createFile: get_new_inode, the new fields, and addEntry, which marks the
\* inode dirty; when addEntry fails the inode is freed again.  The entry is
\* unlinked first if the number is cached already, which a new entry cannot
\* be: its prev and next are NULL and the server dies.
CreateInode(v) ==
  /\ pc = "ready"
  /\ \E i \in Inode \ inode_bitmap, bad \in Faults :
       LET t == GetBlock(Now, INODE_TO_BLOCK(i), bad)
           s == SetInodeLru(t, i, v, bad)
       IN  /\ \A j \in Inode \ inode_bitmap : i <= j
           /\ \/ /\ ic.hash[i] = NULL
                 /\ Become(SetCachedInode(s, i, Dirty(i, v)))
                 /\ inode_bitmap' = inode_bitmap \union {i}
                 /\ NoLoop
              \/ /\ ic.hash[i] = NULL
                 /\ StartFree(s, i)
                 /\ UNCHANGED inode_bitmap
              \/ ic.hash[i] # NULL /\ PowerOff

-----------------------------------------------------------------------------
(* sync, one entry of a list at a time.                                    *)

\* SyncHandler and ShutdownHandler call sync.
StartSync(who) ==
  /\ pc = "ready"
  /\ caller' = who
  /\ Goto("sync_inodes", 1)
  /\ UNCHANGED <<disk, bc, ic, inode_bitmap, info, res>>

\* Faulty variants of SyncInode: the block is not marked dirty, a clean inode
\* is met again and again.
SyncInodeUnmarked ==
  /\ pc = "sync_inodes"
  /\ cursor <= Len(ic.queue)
  /\ LET n == ic.queue[cursor]
         e == ic.info[n]
     IN  IF e.dirty
         THEN \E bad \in Faults :
                LET s == PutCellUnmarked(Now, INODE_TO_BLOCK(e.num), INODE_IN_BLOCK_ADDR(e.num), e.val, bad)
                IN  Become([s EXCEPT !.ic.info[n] = [e EXCEPT !.dirty = FALSE]])
         ELSE UNCHANGED <<disk, bc, ic>>
  /\ cursor' = cursor + 1
  /\ UNCHANGED <<inode_bitmap, pc, caller, info, res>>
SyncInodeStuck ==
  /\ pc = "sync_inodes"
  /\ cursor <= Len(ic.queue)
  /\ LET n == ic.queue[cursor]
         e == ic.info[n]
         s == StoreInode(Now, e.num, e.val, {})
     IN  IF e.dirty
         THEN Become([s EXCEPT !.ic.info[n] = [e EXCEPT !.dirty = FALSE]]) /\ cursor' = cursor + 1
         ELSE UNCHANGED <<disk, bc, ic, cursor>>
  /\ UNCHANGED <<inode_bitmap, pc, caller, info, res>>

SyncInode ==
  /\ pc = "sync_inodes"
  /\ cursor <= Len(ic.queue)
  /\ LET n == ic.queue[cursor]
         e == ic.info[n]
     IN  IF e.dirty
         THEN \E bad \in Faults :
                LET s == StoreInode(Now, e.num, e.val, bad)
                IN  Become([s EXCEPT !.ic.info[n] = [e EXCEPT !.dirty = FALSE]])
         ELSE UNCHANGED <<disk, bc, ic>>
  /\ cursor' = cursor + 1
  /\ UNCHANGED <<inode_bitmap, pc, caller, info, res>>

SyncInodesDone ==
  /\ pc = "sync_inodes"
  /\ cursor > Len(ic.queue)
  /\ Goto("sync_blocks", 1)
  /\ UNCHANGED <<disk, bc, ic, inode_bitmap, caller, info, res>>

\* Faulty variants of SyncBlock: after a failed write sync goes on, leaving
\* the block dirty, or marking it clean.
SyncBlockGoesOn ==
  /\ pc = "sync_blocks"
  /\ cursor <= Len(bc.queue)
  /\ LET n == bc.queue[cursor]
         e == bc.info[n]
     IN  \E bad \in Faults :
           IF e.dirty /\ e.num \in bad
           THEN UNCHANGED <<disk, bc>>
           ELSE /\ disk' = IF e.dirty THEN [disk EXCEPT ![e.num] = e.val] ELSE disk
                /\ bc' = [bc EXCEPT !.info[n] = [e EXCEPT !.dirty = FALSE]]
  /\ cursor' = cursor + 1
  /\ UNCHANGED <<ic, inode_bitmap, pc, caller, info, res>>
SyncBlockMarksClean ==
  /\ pc = "sync_blocks"
  /\ cursor <= Len(bc.queue)
  /\ LET n == bc.queue[cursor]
         e == bc.info[n]
     IN  \E bad \in Faults :
           /\ disk' = IF e.dirty /\ e.num \notin bad THEN [disk EXCEPT ![e.num] = e.val] ELSE disk
           /\ bc' = [bc EXCEPT !.info[n] = [e EXCEPT !.dirty = FALSE]]
  /\ cursor' = cursor + 1
  /\ UNCHANGED <<ic, inode_bitmap, pc, caller, info, res>>

\* A sector that cannot be written ends sync at once.
SyncBlock ==
  /\ pc = "sync_blocks"
  /\ cursor <= Len(bc.queue)
  /\ LET n == bc.queue[cursor]
         e == bc.info[n]
     IN  \E bad \in Faults :
           IF e.dirty /\ e.num \in bad
           THEN /\ Goto("sync_done", 0)
                /\ res' = -1
                /\ UNCHANGED <<disk, bc>>
           ELSE /\ disk' = IF e.dirty THEN [disk EXCEPT ![e.num] = e.val] ELSE disk
                /\ bc' = [bc EXCEPT !.info[n] = [e EXCEPT !.dirty = FALSE]]
                /\ cursor' = cursor + 1
                /\ UNCHANGED <<pc, res>>
  /\ UNCHANGED <<ic, inode_bitmap, caller, info>>

\* A faulty variant of SyncBlocksDone: the block at the tail is left out.
SyncBlocksDoneEarly ==
  /\ pc = "sync_blocks"
  /\ cursor >= Len(bc.queue)
  /\ Goto("sync_done", 0)
  /\ UNCHANGED <<disk, bc, ic, inode_bitmap, caller, info, res>>

SyncBlocksDone ==
  /\ pc = "sync_blocks"
  /\ cursor > Len(bc.queue)
  /\ Goto("sync_done", 0)
  /\ UNCHANGED <<disk, bc, ic, inode_bitmap, caller, info, res>>

\* The rest of each caller of sync.
SyncReply ==
  /\ pc = "sync_done"
  /\ caller = "SyncHandler"
  /\ Goto("ready", 0)
  /\ caller' = "none" /\ res' = 0
  /\ UNCHANGED <<disk, bc, ic, inode_bitmap, info>>

FreeDone ==
  /\ pc = "sync_done"
  /\ caller = "free_inode"
  /\ ic' = Drop(ic, info)
  /\ Goto("ready", 0)
  /\ caller' = "none" /\ info' = NULL /\ res' = 0
  /\ UNCHANGED <<disk, bc, inode_bitmap>>

ShutdownExit ==
  /\ pc = "sync_done"
  /\ caller = "ShutdownHandler"
  /\ PowerOff

-----------------------------------------------------------------------------
Request ==
  \/ \E b \in DataBlock : ReadBlock(b) \/ \E o \in DataSlot, v \in Cell : WriteBlock(b, o, v)
  \/ \E i \in Inode :
       \/ UseInode(i)
       \/ FreeInode(i)
       \/ \E v \in Val : ChangeInode(i, v) \/ DropLink(i, v)
  \/ \E v \in Val : CreateInode(v)
  \/ \E who \in {"SyncHandler", "ShutdownHandler"} : StartSync(who)

\* What the server does without waiting for a client.
Progress ==
  \/ BootInode \/ BootDone
  \/ SyncInode \/ SyncInodesDone \/ SyncBlock \/ SyncBlocksDone
  \/ SyncReply \/ FreeDone \/ ShutdownExit

Next == Boot \/ Request \/ Progress \/ Crash

Spec == Init /\ [][Next]_vars

\* The server never waits inside boot or sync.
FairSpec == Spec /\ WF_vars(Progress)

-----------------------------------------------------------------------------
(* Properties.                                                             *)

\* The variables stay in their types; an entry is allocated exactly while it
\* is in the list (lrucache.c, block.c).
TypeOK ==
  /\ disk \in [Block -> [Slot -> Cell]]
  /\ CacheType(bc, Block, [Slot -> Cell])
  /\ CacheType(ic, Inode, Cell)
  /\ inode_bitmap \subseteq Inode
  /\ pc \in {"down", "boot", "ready", "sync_inodes", "sync_blocks", "sync_done"}
  /\ cursor \in Nat
  /\ caller \in {"none", "SyncHandler", "ShutdownHandler", "free_inode"}
  /\ info \in Nat \union {NULL}
  /\ res \in {0, -1}

\* Both caches are linked, however gets, evictions, frees and failed sector
\* writes interleave (get_block, evict_block, set_inode_lru, free_inode).
CachesLinked == Linked(bc, SoundBlock) /\ Linked(ic, Inode)

\* What is not marked dirty is already below: a clean block in its sector,
\* a clean inode in its block.  An entry dropped or skipped by sync because
\* it is clean loses nothing.
CleanIsBelow ==
  /\ \A b \in SoundBlock : bc.hash[b] # NULL =>
       LET e == bc.info[bc.hash[b]] IN ~ e.dirty => e.val = disk[b]
  /\ \A i \in SoundInode \ MultiLinked : ic.hash[i] # NULL =>
       LET e == ic.info[ic.hash[i]] IN ~ e.dirty => e.val = InodeInBlock(Now, i)

\* An inode that is allocated is in use in the bitmap, a free one is in
\* neither the bitmap nor the cache, so get_new_inode always brings in an
\* entry that set_inode_lru has not linked yet.
InodesAccounted ==
  pc = "ready" =>
    \A i \in SoundInode :
      /\ i \in inode_bitmap <=> InodeVal(Now, i) # FREE
      /\ ic.hash[i] # NULL => i \in inode_bitmap

OnDisk(b) == BlockData(Now, b) = disk[b]
InodeOnDisk(i) == InodeVal(Now, i) = disk[INODE_TO_BLOCK(i)][INODE_IN_BLOCK_ADDR(i)]

\* When sync returns 0, what a reader sees is what the disk holds: a power
\* failure from here loses nothing (sync, SyncHandler, ShutdownHandler).
SyncDurable ==
  pc = "sync_done" /\ res = 0 =>
    /\ \A b \in SoundBlock : OnDisk(b)
    /\ \A i \in SoundInode \ MultiLinked : InodeOnDisk(i)

\* evict_block and evict_inode keep the lists within their sizes, as long as
\* no sector write fails.
CacheBounded ==
  Len(bc.queue) <= BLOCK_CACHESIZE /\ Len(ic.queue) <= INODE_CACHESIZE

\* A handler keeps the pointer to the inode it got last while it gets other
\* blocks and another inode: the entry at the tail is not freed under it.
TailSurvives(q, qq) == q # << >> => Last(q) \in ToSet(qq)
HeldInodeSurvives ==
  [][ pc = "ready" /\ pc' # "down" => TailSurvives(ic.queue, ic'.queue) ]_vars

\* Boot and sync come to an end, also when sector reads and writes fail on the
\* way (init_inode_block, sync).
BootEnds == pc = "boot" ~> pc \in {"ready", "down"}
SyncEnds == pc = "sync_inodes" ~> pc \in {"ready", "down"}

-----------------------------------------------------------------------------
(* The caches implement the store.  Its items are the inodes and the slots *)
(* of the data blocks; the inodes that share the block of the fs_header    *)
(* are left out.                                                           *)

InodeItem == [kind : {"inode"}, num : SoundInode]
DataItem  == [kind : {"data"}, num : DataBlock, slot : Slot]
StoreItem == InodeItem \union DataItem

DiskOf(x)  == IF x.kind = "inode"
              THEN disk[INODE_TO_BLOCK(x.num)][INODE_IN_BLOCK_ADDR(x.num)]
              ELSE disk[x.num][x.slot]
BlockOf(x) == IF x.kind = "inode" THEN InodeInBlock(Now, x.num)
                                  ELSE BlockData(Now, x.num)[x.slot]
ViewOf(x)  == IF x.kind = "inode" THEN InodeVal(Now, x.num) ELSE BlockOf(x)

Store == INSTANCE YfsStore WITH
  Item      <- StoreItem,
  Content   <- Cell,
  Lossy     <- [kind : {"inode"}, num : MultiLinked \intersect SoundInode],
  view      <- [x \in StoreItem |-> ViewOf(x)],
  survivors <- [x \in StoreItem |-> {DiskOf(x), BlockOf(x), ViewOf(x)}],
  ack       <- pc = "sync_done" /\ res = 0

\* Whatever the caches do, a reader sees the last value written, a power
\* failure brings back a value that was on its way to the disk, and a sync
\* that returns 0 leaves only the last value.
ImplementsStore == Store!Spec

\* What a reader sees of an item changes only by a request that writes that
\* item, to the value it writes, or by a power failure: no read, eviction,
\* step of sync or write of another item disturbs it.
WritesItem(x, v) ==
  IF x.kind = "data"
  THEN WriteBlock(x.num, x.slot, v)
  ELSE \/ v # FREE /\ (ChangeInode(x.num, v) \/ DropLink(x.num, v) \/ CreateInode(v))
       \/ v = FREE /\ (FreeInode(x.num) \/ \E w \in Val : CreateInode(w))
OnlyWrites ==
  pc' # "down" => \A x \in StoreItem : ViewOf(x)' = ViewOf(x) \/ WritesItem(x, ViewOf(x)')
OnlyWritesChange == [][OnlyWrites]_vars

-----------------------------------------------------------------------------
(* What the comments of the code say, beyond the properties above.         *)

\* yfs.c:1082-1085, for the block the fs_header is in: sync does not complete
\* until all dirty inodes and blocks are written to the disk.
SyncDurableHeaderBlock ==
  pc = "sync_done" /\ res = 0 => OnDisk(HeaderBlock)
=============================================================================
