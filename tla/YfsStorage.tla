----------------------------- MODULE YfsStorage -----------------------------
(***************************************************************************)
(* The two write-back caches of the YFS server and the disk below them, as *)
(* operators on one record                                                 *)
(*                                                                         *)
(*   s = [disk |-> what each sector holds,                                 *)
(*        bc   |-> the block cache, ic |-> the inode cache]                *)
(*                                                                         *)
(* Either cache is the pair the code keeps: a hash table from numbers to   *)
(* entries and a list of the same entries, least recently used first.  An  *)
(* entry is found through its address (a node), so that two entries of one *)
(* number, or an entry the hash table has lost, are states of the model.   *)
(*                                                                         *)
(* A block is a function from slots to values.  A slot of an inode block   *)
(* is an inode; a slot of a data block stands for some of its bytes.       *)
(***************************************************************************)
EXTENDS Integers, Sequences, SequencesExt

CONSTANTS
  NUM_INODES,        \* inodes are numbered 0 .. NUM_INODES-1, 0 is the fs_header
  NUM_BLOCKS,        \* blocks are numbered 0 .. NUM_BLOCKS-1, 0 is the boot block
  INODES_PER_BLOCK,  \* BLOCKSIZE / INODESIZE
  BLOCK_CACHESIZE,
  INODE_CACHESIZE,
  Val,               \* contents of an allocated inode, or of a slot of a data block
  FREE               \* an inode of type INODE_FREE, or zeroed data

\* Addresses of entries are natural numbers; NULL is none of them.
NULL == -1

INODE_TO_BLOCK(i) == 1 + (i \div INODES_PER_BLOCK)
INODE_IN_BLOCK_ADDR(i) == i % INODES_PER_BLOCK
NUM_BLOCKS_FOR_INODES ==
  (NUM_INODES + INODES_PER_BLOCK - 1) \div INODES_PER_BLOCK

ASSUME StorageAssumption ==
  /\ INODES_PER_BLOCK \in Nat \ {0}
  /\ NUM_INODES \in Nat \ {0}
  /\ NUM_BLOCKS \in Nat
  /\ NUM_BLOCKS_FOR_INODES < NUM_BLOCKS
  /\ BLOCK_CACHESIZE \in Nat \ {0}
  /\ INODE_CACHESIZE \in Nat \ {0}
  /\ FREE \notin Val

Inode     == 0 .. NUM_INODES - 1
Block     == 1 .. NUM_BLOCKS - 1
DataBlock == NUM_BLOCKS_FOR_INODES + 1 .. NUM_BLOCKS - 1
Slot      == 0 .. INODES_PER_BLOCK - 1
Cell      == Val \union {FREE}
HeaderBlock == INODE_TO_BLOCK(0)

-----------------------------------------------------------------------------
(* The list and the hash table of one cache.                               *)

EmptyCache(K) == [hash |-> [k \in K |-> NULL], queue |-> << >>, info |-> << >>]

\* Unlink an entry wherever it stands in the list.
RemoveQueue(q, n) == RemoveAt(q, CHOOSE k \in DOMAIN q : q[k] = n)

\* A hit moves the entry to the tail.
Touch(c, n) == [c EXCEPT !.queue = Append(RemoveQueue(@, n), n)]

\* A fresh entry is put at the tail and the hash table points to it.
Insert(c, n, e) ==
  [hash  |-> [c.hash EXCEPT ![e.num] = n],
   queue |-> Append(c.queue, n),
   info  |-> [m \in ToSet(c.queue) \union {n} |-> IF m = n THEN e ELSE c.info[m]]]

\* Faulty variants of Drop: the entry is not freed, the hash table keeps it.
DropUnfreed(c, n) ==
  [c EXCEPT !.hash[c.info[n].num] = NULL, !.queue = RemoveQueue(@, n)]
DropStillHashed(c, n) ==
  [c EXCEPT !.queue = RemoveQueue(@, n),
            !.info = [m \in ToSet(c.queue) \ {n} |-> c.info[m]]]

\* Whatever entry the hash table holds for the number of n is forgotten, and
\* n is unlinked and freed.
Drop(c, n) ==
  [hash  |-> [c.hash EXCEPT ![c.info[n].num] = NULL],
   queue |-> RemoveQueue(c.queue, n),
   info  |-> [m \in ToSet(c.queue) \ {n} |-> c.info[m]]]

\* An address no live entry has.
Malloc(c) == CHOOSE n \in 0 .. Len(c.queue) : n \notin ToSet(c.queue)

-----------------------------------------------------------------------------
(* Blocks.  bad is the set of sectors on which WriteSector fails.          *)

\* Faulty variants of EvictBlock: the hash table forgets the victim before its
\* sector is written, the list may hold one entry too many.
EvictBlockForgetsFirst(s, bad) ==
  LET n == Head(s.bc.queue)
      e == s.bc.info[n]
  IN  IF Len(s.bc.queue) < BLOCK_CACHESIZE THEN s
      ELSE IF e.dirty /\ e.num \in bad THEN [s EXCEPT !.bc.hash[e.num] = NULL]
      ELSE [s EXCEPT !.disk = IF e.dirty THEN [@ EXCEPT ![e.num] = e.val] ELSE @,
                     !.bc = Drop(@, n)]
EvictBlockLate(s, bad) ==
  LET n == Head(s.bc.queue)
      e == s.bc.info[n]
  IN  IF Len(s.bc.queue) <= BLOCK_CACHESIZE \/ (e.dirty /\ e.num \in bad)
      THEN s
      ELSE [s EXCEPT !.disk = IF e.dirty THEN [@ EXCEPT ![e.num] = e.val] ELSE @,
                     !.bc = Drop(@, n)]

\* A victim that cannot be written stays, and the list grows.
EvictBlock(s, bad) ==
  LET n == Head(s.bc.queue)
      e == s.bc.info[n]
  IN  IF Len(s.bc.queue) < BLOCK_CACHESIZE \/ (e.dirty /\ e.num \in bad)
      THEN s
      ELSE [s EXCEPT !.disk = IF e.dirty THEN [@ EXCEPT ![e.num] = e.val] ELSE @,
                     !.bc = Drop(@, n)]

SetBlockLru(s, b, v, bad) ==
  LET n == Malloc(s.bc)
      e == [num |-> b, dirty |-> FALSE, val |-> v]
  IN  [EvictBlock(s, bad) EXCEPT !.bc = Insert(@, n, e)]

GetBlock(s, b, bad) ==
  IF s.bc.hash[b] # NULL
  THEN [s EXCEPT !.bc = Touch(@, @.hash[b])]
  ELSE SetBlockLru(s, b, s.disk[b], bad)

\* A faulty variant of PutCell: the block is not marked dirty.
PutCellUnmarked(s, b, o, v, bad) ==
  LET t == GetBlock(s, b, bad)
      n == t.bc.hash[b]
  IN  [t EXCEPT !.bc.info[n] = [@ EXCEPT !.val[o] = v]]

\* get_block followed by a store through the data pointer it returned.
PutCell(s, b, o, v, bad) ==
  LET t == GetBlock(s, b, bad)
      n == t.bc.hash[b]
  IN  [t EXCEPT !.bc.info[n] = [@ EXCEPT !.val[o] = v, !.dirty = TRUE]]

\* The content of block b for a caller of get_block(b).
BlockData(s, b) ==
  IF s.bc.hash[b] # NULL THEN s.bc.info[s.bc.hash[b]].val ELSE s.disk[b]

-----------------------------------------------------------------------------
(* Inodes.                                                                 *)

StoreInode(s, i, v, bad) ==
  PutCell(s, INODE_TO_BLOCK(i), INODE_IN_BLOCK_ADDR(i), v, bad)

\* A faulty variant of EvictInode: the victim is the entry used last.
EvictInodeLast(s, bad) ==
  LET n == Last(s.ic.queue)
      e == s.ic.info[n]
  IN  IF Len(s.ic.queue) < INODE_CACHESIZE
      THEN s
      ELSE [StoreInode(s, e.num, e.val, bad) EXCEPT !.ic = Drop(@, n)]

\* The victim is copied into its block whether it is dirty or not.
EvictInode(s, bad) ==
  LET n == Head(s.ic.queue)
      e == s.ic.info[n]
  IN  IF Len(s.ic.queue) < INODE_CACHESIZE
      THEN s
      ELSE [StoreInode(s, e.num, e.val, bad) EXCEPT !.ic = Drop(@, n)]

SetInodeLru(s, i, v, bad) ==
  LET n == Malloc(s.ic)
      e == [num |-> i, dirty |-> FALSE, val |-> v]
  IN  [EvictInode(s, bad) EXCEPT !.ic = Insert(@, n, e)]

\* The inode as its block holds it, and as get_use_inode returns it.
InodeInBlock(s, i) == BlockData(s, INODE_TO_BLOCK(i))[INODE_IN_BLOCK_ADDR(i)]
InodeVal(s, i) ==
  IF s.ic.hash[i] # NULL THEN s.ic.info[s.ic.hash[i]].val ELSE InodeInBlock(s, i)

GetUseInode(s, i, bad) ==
  IF s.ic.hash[i] # NULL
  THEN [s EXCEPT !.ic = Touch(@, @.hash[i])]
  ELSE LET t == GetBlock(s, INODE_TO_BLOCK(i), bad)
           v == InodeInBlock(t, i)
       IN  IF v = FREE THEN t ELSE SetInodeLru(t, i, v, bad)

\* A store through the INODE_INFO pointer of a cached inode.
SetCachedInode(s, i, e) == [s EXCEPT !.ic.info[s.ic.hash[i]] = e]

Dirty(i, v) == [num |-> i, dirty |-> TRUE, val |-> v]

-----------------------------------------------------------------------------
(* Well-formed caches.                                                     *)

Entry(K, V) == [num : K, dirty : BOOLEAN, val : V]

\* An entry is allocated exactly while it is in the list.
CacheType(c, K, V) ==
  /\ c \in [hash : [K -> Nat \union {NULL}], queue : Seq(Nat), info : [ToSet(c.queue) -> Entry(K, V)]]

\* What the hash table holds is in the list, under its number.
HashIsLive(c) ==
  \A k \in DOMAIN c.hash : c.hash[k] # NULL =>
    c.hash[k] \in ToSet(c.queue) /\ c.info[c.hash[k]].num = k

\* An entry in the list whose number is in K is the one the hash table holds.
NoOrphan(c, K) ==
  \A n \in ToSet(c.queue) : c.info[n].num \in K => c.hash[c.info[n].num] = n

Linked(c, K) == IsInjective(c.queue) /\ HashIsLive(c) /\ NoOrphan(c, K)

\* init_inode_block leaves a second entry of the block that holds the
\* fs_header, which the hash table does not hold.
SoundBlock == Block \ {HeaderBlock}
SoundInode == {i \in Inode : INODE_TO_BLOCK(i) # HeaderBlock}
=============================================================================
