------------------------------ MODULE YfsFile ------------------------------
(***************************************************************************)
(* Blocks and files: the bitmaps, extend, the data side of ReadHandler,    *)
(* WriteHandler and free_inode, and the scan that rebuilds the bitmaps at  *)
(* boot.  Inodes and blocks are seen here as get_use_inode and get_block   *)
(* show them; YfsCache is about what lies below these calls.               *)
(*                                                                         *)
(* A word is an int.  Positions, sizes and lengths count words, so that a  *)
(* block read as data and a block read as a table of block numbers are the *)
(* same sequence of words.                                                 *)
(***************************************************************************)
EXTENDS Integers, FiniteSets

CONSTANTS
  NUM_INODES,            \* as the fs_header has it
  NUM_BLOCKS,
  INODES_PER_BLOCK,
  BLOCKSIZE,             \* words in a block
  NUM_DIRECT,
  ROOTSIZE,              \* words of the root directory mkyfs makes
  Word,                  \* words that clients write
  MAXEND,                \* bound: no request reaches past this position
  MAXLEN                 \* bound: no request is longer

ASSUME FileAssumption ==
  /\ NUM_INODES \in Nat /\ NUM_INODES > 1
  /\ NUM_BLOCKS \in Nat
  /\ INODES_PER_BLOCK \in Nat \ {0}
  /\ NUM_BLOCKS > (NUM_INODES + INODES_PER_BLOCK) \div INODES_PER_BLOCK + 1
  /\ BLOCKSIZE \in Nat \ {0}
  /\ NUM_DIRECT \in Nat \ {0}
  /\ ROOTSIZE \in 1 .. BLOCKSIZE
  /\ Word \subseteq Int
  /\ MAXEND \in Nat /\ MAXLEN \in Nat

NUM_BLOCKS_FOR_INODES == (NUM_INODES + INODES_PER_BLOCK - 1) \div INODES_PER_BLOCK

\* mkyfs counts the fs_header as well when it makes room for the inodes.
RootBlock == (NUM_INODES + INODES_PER_BLOCK) \div INODES_PER_BLOCK + 1

ROOTINODE  == 1
Inode      == 1 .. NUM_INODES - 1   \* those the server looks at
Block      == 0 .. NUM_BLOCKS - 1
InodeBlock == 0 .. NUM_BLOCKS_FOR_INODES          \* and the boot block
DataBlock  == NUM_BLOCKS_FOR_INODES + 1 .. NUM_BLOCKS - 1
Offset     == 0 .. BLOCKSIZE - 1
Direct     == 0 .. NUM_DIRECT - 1
Place      == 0 .. NUM_DIRECT + BLOCKSIZE - 1     \* the blocks a file can have

VARIABLES
  live,          \* inodes whose type is not INODE_FREE
  size, direct, indirect,
  data,          \* the words of every data block
  block_bitmap, inode_bitmap,  \* what is marked used
  pc,            \* where WriteHandler is
  req,           \* its arguments
  next,          \* in extend: cur_block_max, in blocks
  count,         \* total_write_count
  res            \* what it returns

vars == <<live, size, direct, indirect, data, block_bitmap, inode_bitmap,
          pc, req, next, count, res>>

inodes  == <<live, size, direct, indirect>>
request == <<req, count, res>>

-----------------------------------------------------------------------------
(* What an inode refers to.                                                *)

\* Place k of a file of n words holds some of them.
Holds(k, n) == k * BLOCKSIZE < n

BlockAt(i, k) ==
  IF k < NUM_DIRECT THEN direct[i][k] ELSE data[indirect[i]][k - NUM_DIRECT]

WordAt(i, p) == data[BlockAt(i, p \div BLOCKSIZE)][p % BLOCKSIZE]

\* The blocks of inode i that init_inode_block finds in use, and with the
\* indirect block those that free_inode frees.
Scanned(i) == {BlockAt(i, k) : k \in {k \in Place : Holds(k, size[i])}}
Owned(i) ==
  Scanned(i) \union IF Holds(NUM_DIRECT, size[i]) THEN {indirect[i]} ELSE {}

\* ReadHandler: how many words, and which.
ReadLen(i, p, n) == IF p >= size[i] THEN 0 ELSE IF n < size[i] - p THEN n ELSE size[i] - p
Read(i, p, n) == [k \in 0 .. ReadLen(i, p, n) - 1 |-> WordAt(i, p + k)]

-----------------------------------------------------------------------------
(* Boot.                                                                   *)

NoRequest == [inum |-> 0, pos |-> 0, len |-> 0, word |-> 0]

Idle == pc = "ready" /\ req = NoRequest /\ next = 0 /\ count = 0 /\ res = 0

\* mkyfs has made a root directory of one block, and the server has booted.
Init ==
  /\ live = {ROOTINODE}
  /\ size = [i \in Inode |-> IF i = ROOTINODE THEN ROOTSIZE ELSE 0]
  /\ direct = [i \in Inode |-> [k \in Direct |->
                 IF i = ROOTINODE /\ k = 0 THEN RootBlock ELSE 0]]
  /\ indirect = [i \in Inode |-> 0]
  /\ data = [b \in DataBlock |-> [o \in Offset |->
               IF b = RootBlock /\ o < ROOTSIZE THEN ROOTINODE ELSE 0]]
  /\ block_bitmap = InodeBlock \union {RootBlock}
  /\ inode_bitmap = {0, ROOTINODE}
  /\ Idle

\* A faulty variant of Restart: the scan takes only blocks that are full.
RestartFullBlocks ==
  /\ pc = "ready"
  /\ block_bitmap' = InodeBlock \union (DataBlock \intersect
       UNION {{BlockAt(i, k) : k \in {k \in Place : (k + 1) * BLOCKSIZE <= size[i]}} : i \in live})
  /\ inode_bitmap' = {0} \union live
  /\ UNCHANGED <<inodes, data, pc, next, request>>

\* Shutdown, with everything written, and the next boot.  The scan marks the
\* blocks of every inode that are in range; the indirect block it reads the
\* block numbers from is not one of them.
Restart ==
  /\ pc = "ready"
  /\ block_bitmap' = InodeBlock \union (DataBlock \intersect UNION {Scanned(i) : i \in live})
  /\ inode_bitmap' = {0} \union live
  /\ UNCHANGED <<inodes, data, pc, next, request>>

-----------------------------------------------------------------------------
(* Inodes come and go.                                                     *)

\* get_new_inode and the fields createFile sets.
CreateInode ==
  /\ pc = "ready"
  /\ \E i \in Inode \ inode_bitmap :
       /\ \A j \in Inode \ inode_bitmap : i <= j
       /\ live' = live \union {i}
       /\ size' = [size EXCEPT ![i] = 0]
       /\ inode_bitmap' = inode_bitmap \union {i}
  /\ UNCHANGED <<direct, indirect, data, block_bitmap, pc, next, request>>

\* Faulty variants of FreeInode: directories are not refused, the first block
\* is not marked free.
FreeInodeAny(i) ==
  /\ pc = "ready"
  /\ i \in live
  /\ block_bitmap' = block_bitmap \ Owned(i)
  /\ inode_bitmap' = inode_bitmap \ {i}
  /\ live' = live \ {i}
  /\ size' = [size EXCEPT ![i] = 0]
  /\ direct' = [direct EXCEPT ![i] = [k \in Direct |-> 0]]
  /\ indirect' = [indirect EXCEPT ![i] = 0]
  /\ UNCHANGED <<data, pc, next, request>>
FreeInodeFromOne(i) ==
  /\ pc = "ready"
  /\ i \in live \ {ROOTINODE}
  /\ block_bitmap' = block_bitmap \ {b \in Owned(i) : b # direct[i][0]}
  /\ inode_bitmap' = inode_bitmap \ {i}
  /\ live' = live \ {i}
  /\ size' = [size EXCEPT ![i] = 0]
  /\ direct' = [direct EXCEPT ![i] = [k \in Direct |-> 0]]
  /\ indirect' = [indirect EXCEPT ![i] = 0]
  /\ UNCHANGED <<data, pc, next, request>>

\* free_inode, for a file whose last link is gone.  Its early returns are for
\* block numbers outside the data blocks.
FreeInode(i) ==
  /\ pc = "ready"
  /\ i \in live \ {ROOTINODE}
  /\ Owned(i) \subseteq DataBlock
  /\ block_bitmap' = block_bitmap \ Owned(i)
  /\ inode_bitmap' = inode_bitmap \ {i}
  /\ live' = live \ {i}
  /\ size' = [size EXCEPT ![i] = 0]
  /\ direct' = [direct EXCEPT ![i] = [k \in Direct |-> 0]]
  /\ indirect' = [indirect EXCEPT ![i] = 0]
  /\ UNCHANGED <<data, pc, next, request>>

-----------------------------------------------------------------------------
(* WriteHandler, and extend inside it, one iteration of a loop at a time.  *)

newsize == req.pos + req.len

Blocks(n) == (n + BLOCKSIZE - 1) \div BLOCKSIZE

\* A faulty variant of NeedBlock: the indirect block is forgotten.
NeedBlockDirectOnly(m, n) == Blocks(n) - Blocks(m)

\* What extend takes the growth of a file of m words to n words to need.
NeedBlock(m, n) ==
  Blocks(n) - Blocks(m)
  + IF Blocks(n) > NUM_DIRECT /\ Blocks(m) < NUM_DIRECT THEN 1 ELSE 0

ValidBlock == Cardinality(DataBlock \ block_bitmap)

\* find_free
FirstFree(b) == b \in Block \ block_bitmap /\ \A c \in Block \ block_bitmap : b <= c

\* The handler begins: extend only when the request ends past the block after
\* the last full one, and only if the free blocks suffice.
WriteHandler(i, p, n, w) ==
  /\ pc = "ready"
  /\ i \in live
  /\ req' = [inum |-> i, pos |-> p, len |-> n, word |-> w]
  /\ IF /\ p + n > BLOCKSIZE * ((size[i] \div BLOCKSIZE) + 1)
        /\ NeedBlock(size[i], p + n) <= ValidBlock
     THEN pc' = "extend" /\ next' = Blocks(size[i])
     ELSE pc' = "write" /\ next' = 0
  /\ UNCHANGED <<inodes, data, block_bitmap, inode_bitmap, count, res>>

\* A faulty variant of AllocDirect: the block is not marked used.
AllocDirectUnmarked ==
  /\ pc = "extend"
  /\ next < NUM_DIRECT /\ Holds(next, newsize)
  /\ \E b \in Block :
       /\ FirstFree(b)
       /\ data' = [data EXCEPT ![b] = [o \in Offset |-> 0]]
       /\ direct' = [direct EXCEPT ![req.inum][next] = b]
  /\ next' = next + 1
  /\ UNCHANGED <<live, size, indirect, block_bitmap, inode_bitmap, pc, request>>

\* A direct block is found and zeroed.
AllocDirect ==
  /\ pc = "extend"
  /\ next < NUM_DIRECT /\ Holds(next, newsize)
  /\ \E b \in Block :
       /\ FirstFree(b)
       /\ block_bitmap' = block_bitmap \union {b}
       /\ data' = [data EXCEPT ![b] = [o \in Offset |-> 0]]
       /\ direct' = [direct EXCEPT ![req.inum][next] = b]
  /\ next' = next + 1
  /\ UNCHANGED <<live, size, indirect, inode_bitmap, pc, request>>

\* A faulty variant of AllocIndirect: the block is not marked used.
AllocIndirectUnmarked ==
  /\ pc = "extend"
  /\ next = NUM_DIRECT /\ Holds(next, newsize)
  /\ \E b \in Block : FirstFree(b) /\ indirect' = [indirect EXCEPT ![req.inum] = b]
  /\ pc' = "entries"
  /\ UNCHANGED <<live, size, direct, data, block_bitmap, inode_bitmap, next, request>>

\* The indirect block is found when the file grows past its direct blocks.
AllocIndirect ==
  /\ pc = "extend"
  /\ next = NUM_DIRECT /\ Holds(next, newsize)
  /\ \E b \in Block :
       /\ FirstFree(b)
       /\ block_bitmap' = block_bitmap \union {b}
       /\ indirect' = [indirect EXCEPT ![req.inum] = b]
  /\ pc' = "entries"
  /\ UNCHANGED <<live, size, direct, data, inode_bitmap, next, request>>

HasIndirect ==
  /\ pc = "extend"
  /\ next > NUM_DIRECT /\ Holds(next, newsize)
  /\ pc' = "entries"
  /\ UNCHANGED <<inodes, data, block_bitmap, inode_bitmap, next, request>>

MoreEntries == next < NUM_DIRECT + BLOCKSIZE /\ Holds(next, newsize)

\* A faulty variant of AllocEntry: the block is not marked used.
AllocEntryUnmarked ==
  /\ pc = "entries" /\ MoreEntries
  /\ \E b \in Block :
       /\ FirstFree(b)
       /\ data' = [data EXCEPT ![indirect[req.inum]][next - NUM_DIRECT] = b]
  /\ next' = next + 1
  /\ UNCHANGED <<inodes, block_bitmap, inode_bitmap, pc, request>>

\* A block of the indirect block is found; it is not zeroed.
AllocEntry ==
  /\ pc = "entries" /\ MoreEntries
  /\ \E b \in Block :
       /\ FirstFree(b)
       /\ block_bitmap' = block_bitmap \union {b}
       /\ data' = [data EXCEPT ![indirect[req.inum]][next - NUM_DIRECT] = b]
  /\ next' = next + 1
  /\ UNCHANGED <<inodes, inode_bitmap, pc, request>>

Growing ==
  pc \in {"extend", "entries"} /\ Holds(next, newsize) /\ (pc = "entries" => MoreEntries)

\* extend returns -1, and WriteHandler does not look at it.
ExtendFails ==
  /\ Growing /\ (pc = "extend" => next <= NUM_DIRECT)
  /\ Block \subseteq block_bitmap
  /\ pc' = "write" /\ next' = 0
  /\ UNCHANGED <<inodes, data, block_bitmap, inode_bitmap, request>>

\* extend returns 0.
ExtendDone ==
  /\ pc \in {"extend", "entries"} /\ ~ Growing
  /\ size' = [size EXCEPT ![req.inum] = newsize]
  /\ pc' = "write" /\ next' = 0
  /\ UNCHANGED <<live, direct, indirect, data, block_bitmap, inode_bitmap, request>>

MoreWords == count < req.len /\ req.pos + count < size[req.inum]

\* Faulty variants of WriteBlock: the offset is the one of the first word, the
\* count does not move.
WriteBlockSameOffset ==
  /\ pc = "write" /\ MoreWords
  /\ LET p == req.pos + count
         k == p \div BLOCKSIZE
         o == req.pos % BLOCKSIZE
         n == IF req.len - count < BLOCKSIZE - o THEN req.len - count ELSE BLOCKSIZE - o
     IN  IF k \in Place
         THEN /\ data' = [data EXCEPT ![BlockAt(req.inum, k)] =
                            [x \in Offset |-> IF x \in o .. o + n - 1 THEN req.word ELSE @[x]]]
              /\ count' = count + n
              /\ UNCHANGED <<pc, res>>
         ELSE pc' = "reply" /\ res' = -1 /\ UNCHANGED <<data, count>>
  /\ UNCHANGED <<inodes, block_bitmap, inode_bitmap, req, next>>
WriteBlockStuck ==
  /\ pc = "write" /\ MoreWords
  /\ LET p == req.pos + count
         k == p \div BLOCKSIZE
         o == p % BLOCKSIZE
         n == IF req.len - count < BLOCKSIZE - o THEN req.len - count ELSE BLOCKSIZE - o
     IN  IF k \in Place
         THEN /\ data' = [data EXCEPT ![BlockAt(req.inum, k)] =
                            [x \in Offset |-> IF x \in o .. o + n - 1 THEN req.word ELSE @[x]]]
              /\ count' = count
              /\ UNCHANGED <<pc, res>>
         ELSE pc' = "reply" /\ res' = -1 /\ UNCHANGED <<data, count>>
  /\ UNCHANGED <<inodes, block_bitmap, inode_bitmap, req, next>>

\* One iteration: as much as fits in the block, be it in the file or not.
WriteBlock ==
  /\ pc = "write" /\ MoreWords
  /\ LET p == req.pos + count
         k == p \div BLOCKSIZE
         o == p % BLOCKSIZE
         n == IF req.len - count < BLOCKSIZE - o THEN req.len - count ELSE BLOCKSIZE - o
     IN  IF k \in Place
         THEN /\ data' = [data EXCEPT ![BlockAt(req.inum, k)] =
                            [x \in Offset |-> IF x \in o .. o + n - 1 THEN req.word ELSE @[x]]]
              /\ count' = count + n
              /\ UNCHANGED <<pc, res>>
         ELSE pc' = "reply" /\ res' = -1 /\ UNCHANGED <<data, count>>
  /\ UNCHANGED <<inodes, block_bitmap, inode_bitmap, req, next>>

WriteDone ==
  /\ pc = "write" /\ ~ MoreWords
  /\ pc' = "reply" /\ res' = count
  /\ UNCHANGED <<inodes, data, block_bitmap, inode_bitmap, req, next, count>>

Reply ==
  /\ pc = "reply"
  /\ pc' = "ready" /\ req' = NoRequest /\ next' = 0 /\ count' = 0 /\ res' = 0
  /\ UNCHANGED <<inodes, data, block_bitmap, inode_bitmap>>

-----------------------------------------------------------------------------
Extend == AllocDirect \/ AllocIndirect \/ HasIndirect \/ AllocEntry \/ ExtendFails \/ ExtendDone

\* What the server does without waiting for a client.
Progress == Extend \/ WriteBlock \/ WriteDone \/ Reply

Request ==
  \/ CreateInode
  \/ \E i \in Inode :
       \/ FreeInode(i)
       \/ \E n \in 0 .. MAXLEN, w \in Word : \E p \in 0 .. MAXEND - n : WriteHandler(i, p, n, w)

\* One life of the server, and any number of them.
Serve == Request \/ Progress
Next  == Serve \/ Restart

ServeSpec == Init /\ [][Serve]_vars
Spec      == Init /\ [][Next]_vars
FairSpec  == ServeSpec /\ WF_vars(Progress)

-----------------------------------------------------------------------------
(* Properties.                                                             *)

\* The variables stay in their types, the root directory stays, the boot block
\* and the inode blocks stay marked (createFile, extend, free_inode).
TypeOK ==
  /\ live \subseteq Inode /\ ROOTINODE \in live
  /\ size \in [Inode -> Nat]
  /\ direct \in [Inode -> [Direct -> Block]]
  /\ indirect \in [Inode -> Block]
  /\ data \in [DataBlock -> [Offset -> Int]]
  /\ block_bitmap \subseteq Block /\ InodeBlock \subseteq block_bitmap
  /\ inode_bitmap = {0} \union live
  /\ pc \in {"ready", "extend", "entries", "write", "reply"}
  /\ req \in [inum : Inode \union {0}, pos : Nat, len : Nat, word : Int]
  /\ pc # "ready" => req.inum \in live
  /\ next \in Nat /\ count \in Nat /\ res \in Nat \union {-1}

\* No block is in two files, in two places of a file, or both an indirect block
\* and a place, and none is outside the data blocks: neither extend giving up
\* half-way nor blocks freed and found again bring that about.
OwnsApart(i) ==
  /\ Owned(i) \subseteq DataBlock
  /\ \A k, l \in Place :
       Holds(k, size[i]) /\ Holds(l, size[i]) /\ BlockAt(i, k) = BlockAt(i, l) => k = l
  /\ Holds(NUM_DIRECT, size[i]) => indirect[i] \notin Scanned(i)
NoSharedBlock ==
  /\ \A i \in live : OwnsApart(i)
  /\ \A i, j \in live : i # j => Owned(i) \intersect Owned(j) = {}

\* What a file owns is marked used, so find_free cannot hand it out again.
OwnedMarked == \A i \in live : Owned(i) \subseteq block_bitmap

\* Between requests, what is marked used is owned.
NoLeak ==
  pc = "ready" => block_bitmap \subseteq InodeBlock \union UNION {Owned(i) : i \in live}

\* What WriteHandler reports as written, ReadHandler returns, as far as the file
\* goes: no iteration of the loop writes over the blocks of an earlier one, nor
\* over the table it finds its blocks in.
WrittenIsRead ==
  pc = "reply" /\ res >= 0 =>
    LET r == Read(req.inum, req.pos, res) IN \A k \in DOMAIN r : r[k] = req.word

\* extend counts before it takes a block, and find_free then lets it down in one
\* place only: where a file that had exactly its direct blocks got an indirect
\* block, which was not counted, and only at the last block of the growth
\* (block.c:354-361, and find_free in the three loops below).
RunsOutAtLast ==
  Growing /\ Block \subseteq block_bitmap =>
    /\ pc = "entries" /\ Blocks(size[req.inum]) = NUM_DIRECT
    /\ next + 1 = Blocks(newsize)

\* Every request of WriteHandler is answered: the loops of extend and of
\* WriteHandler end.
WriteEnds == pc # "ready" ~> pc = "ready"

\* The block layer implements files: a request changes one file, an extension
\* keeps the words there are, a restart changes nothing.
fileWords ==
  [i \in Inode |->
     IF i \in live THEN [p \in 0 .. size[i] - 1 |-> WordAt(i, p)] ELSE [p \in {} |-> 0]]
Files == INSTANCE YfsFiles WITH Name <- Inode, exists <- live, words <- fileWords
ImplementsFiles == Files!Spec

-----------------------------------------------------------------------------
(* What the comments of the code say, beyond the properties above.         *)

\* yfs.h:43-44: WriteHandler returns the length on success, else ERROR.  Of a
\* client's file, for a write that starts in it or at its end, as the one of
\* samples/writeread.c:17 into a file just made.
WriteReturnsLen ==
  pc = "reply" /\ req.inum # ROOTINODE /\ req.pos <= size[req.inum] => res \in {req.len, -1}
=============================================================================
