------------------------------ MODULE YfsTree ------------------------------
(***************************************************************************)
(* The name space of the YFS server and its handlers, as operators on one  *)
(* record                                                                  *)
(*                                                                         *)
(*   t = [type, nlink, reuse, target |-> fields of every inode,            *)
(*        ents                       |-> what every inode holds,           *)
(*        used                       |-> the inode_bitmap]                 *)
(*                                                                         *)
(* What an inode holds is a sequence of directory entries, so its size is  *)
(* counted in entries; the words of a file read as entries that are not    *)
(* used.  A handler is an operator with the tree it leaves and its reply.  *)
(* Inodes are as get_use_inode shows them, blocks are those of YfsFile.    *)
(***************************************************************************)
EXTENDS Integers, Sequences, FiniteSets, SequencesExt

CONSTANTS
  NUM_INODES,
  BLOCK_ENTRIES,   \* BLOCKSIZE / sizeof(struct dir_entry)
  MAXSYMLINKS,
  REUSES,          \* the reuse count wraps here
  Name             \* file names other than "", "." and ".."

INODE_FREE      == 0
INODE_DIRECTORY == 1
INODE_REGULAR   == 2
INODE_SYMLINK   == 3
FS_HEADER       == 4   \* the fs_header read as an inode: some other type

Type  == INODE_FREE .. FS_HEADER
Inode == 0 .. NUM_INODES - 1
ROOTINODE == 1

ERROR == -1
LOST  == -2            \* no reply: the server is dead

ASSUME TreeAssumption ==
  /\ NUM_INODES \in Nat /\ NUM_INODES > 1
  /\ BLOCK_ENTRIES \in Nat /\ BLOCK_ENTRIES > 1
  /\ MAXSYMLINKS \in Nat
  /\ REUSES \in Nat \ {0}
  /\ Name \intersect {"", ".", ".."} = {}

AnyName == Name \union {"", ".", ".."}
Entry   == [inum : Inode, name : AnyName]
Unused  == [inum |-> 0, name |-> ""]

\* A path is absolute or not and has names; after a trailing '/' the last name
\* is empty.  A symbolic link whose target was not stored has NoPath.
Path   == [abs : BOOLEAN, names : Seq(AnyName)]
NoPath == [abs |-> FALSE, names |-> << >>]
Root   == [abs |-> TRUE, names |-> << >>]

TreeType ==
  [type : [Inode -> Type], nlink : [Inode -> Int], reuse : [Inode -> 0 .. REUSES - 1],
   target : [Inode -> Path], ents : [Inode -> Seq(Entry)], used : SUBSET Inode]

\* The disk mkyfs makes.
Mkyfs ==
  [type   |-> [i \in Inode |-> IF i = 0 THEN FS_HEADER
                               ELSE IF i = ROOTINODE THEN INODE_DIRECTORY ELSE INODE_FREE],
   nlink  |-> [i \in Inode |-> IF i = ROOTINODE THEN 2 ELSE 0],
   reuse  |-> [i \in Inode |-> IF i = ROOTINODE THEN 1 % REUSES ELSE 0],
   target |-> [i \in Inode |-> NoPath],
   ents   |-> [i \in Inode |-> IF i # ROOTINODE THEN << >>
                ELSE << [inum |-> ROOTINODE, name |-> "."], [inum |-> ROOTINODE, name |-> ".."] >>],
   used   |-> {0, ROOTINODE}]

\* The inode_bitmap that init_inode_block makes.
Boot(t) == [t EXCEPT !.used = {0} \union {i \in Inode : t.type[i] # INODE_FREE}]

-----------------------------------------------------------------------------
(* Path names.                                                             *)

\* The first entry of inode d with name n; 0 when there is none.
findInumInDir(t, d, n) ==
  IF t.type[d] = INODE_FREE THEN ERROR
  ELSE LET k == SelectInSeq(t.ents[d], LAMBDA e : e.name = n)
       IN  IF k = 0 THEN 0 ELSE t.ents[d][k].inum

\* A faulty variant of StepPath: a link is followed from where it stands.
StepPathStays(t, s) ==
  LET i    == findInumInDir(t, s.dir, Head(s.names))
      rest == Tail(s.names)
      to   == t.target[i]
  IN  IF i = ERROR THEN [s EXCEPT !.dir = ERROR]
      ELSE IF t.type[i] = INODE_FREE THEN [s EXCEPT !.dir = LOST]
      ELSE IF t.type[i] # INODE_SYMLINK THEN [s EXCEPT !.dir = i, !.names = rest]
      ELSE IF s.links >= MAXSYMLINKS THEN [s EXCEPT !.dir = ERROR]
      ELSE [dir   |-> IF to = NoPath /\ rest # << >> THEN ROOTINODE ELSE i,
            names |-> to.names \o rest,
            links |-> s.links + 1]

\* One name of a path, by the loop of resolvePath: s.dir is cur_dir, s.names
\* what is left, s.links the count of links.  A link with a relative target is
\* looked into as if it were a directory; one without a target and with names
\* behind it starts at the root, since a '/' is put in between.
StepPath(t, s) ==
  LET i    == findInumInDir(t, s.dir, Head(s.names))
      rest == Tail(s.names)
      to   == t.target[i]
  IN  IF i = ERROR THEN [s EXCEPT !.dir = ERROR]
      ELSE IF t.type[i] = INODE_FREE THEN [s EXCEPT !.dir = LOST]
      ELSE IF t.type[i] # INODE_SYMLINK THEN [s EXCEPT !.dir = i, !.names = rest]
      ELSE IF s.links >= MAXSYMLINKS THEN [s EXCEPT !.dir = ERROR]
      ELSE [dir   |-> IF to.abs \/ (to = NoPath /\ rest # << >>) THEN ROOTINODE ELSE i,
            names |-> to.names \o rest,
            links |-> s.links + 1]

\* The loop ends: a step takes a name away or follows one more link, or it is an
\* error.
Walk == [dir : Inode \union {ERROR, LOST}, names : Seq(AnyName), links : 0 .. MAXSYMLINKS]
resolvePath(t, p, cur) ==
  LET walk[s \in Walk] ==
        IF s.names = << >> \/ s.dir < 0 THEN s.dir ELSE walk[StepPath(t, s)]
  IN  walk[[dir |-> IF p.abs THEN ROOTINODE ELSE cur, names |-> p.names, links |-> 0]]

HasSlash(p)  == p.abs \/ Len(p.names) > 1
EndsInSlash(p) == p.names = << >> \/ Last(p.names) = ""
ParentPath(p) == [p EXCEPT !.names = IF @ = << >> THEN @ ELSE Front(@)]

\* A path without '/' makes it copy -1 bytes.
getParentInum(t, p, cur) ==
  IF HasSlash(p) THEN resolvePath(t, ParentPath(p), cur) ELSE LOST

getFilename(p) == IF p.names = << >> THEN "" ELSE Last(p.names)

-----------------------------------------------------------------------------
(* Entries and inodes.                                                     *)

Reply(t, r) == [tree |-> t, res |-> r]

\* Faulty variants of FreeInode: the links stay, the bitmap is not told.
FreeInodeKeepsLinks(t, i) ==
  [t EXCEPT !.type[i] = INODE_FREE, !.target[i] = NoPath, !.ents[i] = << >>, !.used = @ \ {i}]
FreeInodeStillUsed(t, i) ==
  [t EXCEPT !.type[i] = INODE_FREE, !.nlink[i] = 0, !.target[i] = NoPath, !.ents[i] = << >>]

\* free_inode.
FreeInode(t, i) ==
  [t EXCEPT !.type[i] = INODE_FREE, !.nlink[i] = 0, !.target[i] = NoPath, !.ents[i] = << >>,
            !.used = @ \ {i}]

\* Where addEntry puts an entry: the first free slot, never looking at the last.
Slot(es) ==
  LET k == SelectInSeq(Front(es), LAMBDA e : e.inum = 0) IN IF k = 0 THEN Len(es) ELSE k

\* The entry is written and its link counted; only the link is.
CountLink(t, i)      == [t EXCEPT !.nlink[i] = @ + 1]
PutEntry(t, d, k, e) == [t EXCEPT !.ents[d][k] = e, !.nlink[e.inum] = @ + 1]

\* Faulty variants of addEntry: the link is not counted, the scan starts behind
\* the first two slots and takes the next one, free or not.
addEntryUncounted(t, d, e, junk) ==
  IF t.type[d] # INODE_DIRECTORY \/ t.type[e.inum] = INODE_FREE THEN Reply(t, ERROR)
  ELSE IF t.ents[d] # << >> THEN Reply([t EXCEPT !.ents[d][Slot(t.ents[d])] = e], 1)
  ELSE Reply(t, IF junk.inum = 0 THEN 0 ELSE LOST)
addEntrySecond(t, d, e, junk) ==
  IF t.type[d] # INODE_DIRECTORY \/ t.type[e.inum] = INODE_FREE THEN Reply(t, ERROR)
  ELSE IF t.ents[d] # << >>
       THEN LET k == IF Len(t.ents[d]) > 2 THEN 3 ELSE 2
            IN  Reply(PutEntry(t, d, k, e), 1)
       ELSE Reply(CountLink(t, e.inum), IF junk.inum = 0 THEN 0 ELSE LOST)

\* The bound of the loop is unsigned: in a directory of size 0 it goes on until
\* the entry nobody has read into, junk, reads as free, and then nothing is
\* written.  The link counts in any case.
addEntry(t, d, e, junk) ==
  IF t.type[d] # INODE_DIRECTORY \/ t.type[e.inum] = INODE_FREE THEN Reply(t, ERROR)
  ELSE IF t.ents[d] # << >>
       THEN Reply(PutEntry(t, d, Slot(t.ents[d]), e), 1)
       ELSE Reply(CountLink(t, e.inum), IF junk.inum = 0 THEN 0 ELSE LOST)

\* get_new_inode
NewInode(t) == CHOOSE i \in Inode \ t.used : \A j \in Inode \ t.used : i <= j

Linkable(t, i, type) ==
  [t EXCEPT !.type[i] = type, !.nlink[i] = 0, !.ents[i] = << >>,
            !.reuse[i] = (@ + 1) % REUSES, !.used = @ \union {i}]

Unlinkable(t, i) == FreeInode([t EXCEPT !.reuse[i] = (@ - 1) % REUSES], i)

\* A faulty variant of createFile: the name is not looked up.
createFileUnchecked(t, n, d, type, junk) ==
  LET i == NewInode(t)
      a == addEntry(Linkable(t, i, type), d, [inum |-> i, name |-> n], junk)
  IN  IF t.type[d] = INODE_FREE \/ Inode \subseteq t.used THEN Reply(t, ERROR)
      ELSE IF a.res = ERROR
           THEN Reply(Unlinkable(a.tree, i), ERROR)
           ELSE Reply(a.tree, IF a.res = LOST THEN LOST ELSE i)

\* A name that is there, or that cannot be looked up, is an error.
createFile(t, n, d, type, junk) ==
  LET i == NewInode(t)
      a == addEntry(Linkable(t, i, type), d, [inum |-> i, name |-> n], junk)
  IN  IF findInumInDir(t, d, n) # 0 \/ Inode \subseteq t.used THEN Reply(t, ERROR)
      ELSE IF a.res = ERROR
           THEN Reply(Unlinkable(a.tree, i), ERROR)
           ELSE Reply(a.tree, IF a.res = LOST THEN LOST ELSE i)

-----------------------------------------------------------------------------
(* Handlers.  cur is the current directory of the client, junk what memory *)
(* holds that nobody has written: the entry on the stack.                  *)

OpenHandler(t, p, cur) == Reply(t, resolvePath(t, p, cur))

CreateHandler(t, p, cur, junk) ==
  LET d == getParentInum(t, p, cur)
  IN  IF EndsInSlash(p) THEN Reply(t, ERROR)
      ELSE IF d < 0 THEN Reply(t, d)
      ELSE createFile(t, getFilename(p), d, INODE_REGULAR, junk)

\* A faulty variant of LinkHandler: the new name is not looked up.
LinkHandlerUnchecked(t, p, q, cur, junk) ==
  LET i == resolvePath(t, p, cur)
      d == getParentInum(t, q, cur)
      a == addEntry(t, d, [inum |-> i, name |-> getFilename(q)], junk)
  IN  IF i <= 0 THEN Reply(t, IF i = LOST THEN LOST ELSE ERROR)
      ELSE IF t.type[i] \in {INODE_FREE, INODE_DIRECTORY} THEN Reply(t, ERROR)
      ELSE IF d < 0 THEN Reply(t, LOST)
      ELSE Reply(a.tree, IF a.res = LOST THEN LOST ELSE 0)

\* Whether the entry could be added is not looked at.
LinkHandler(t, p, q, cur, junk) ==
  LET i == resolvePath(t, p, cur)
      j == resolvePath(t, q, cur)
      d == getParentInum(t, q, cur)
      a == addEntry(t, d, [inum |-> i, name |-> getFilename(q)], junk)
  IN  IF i <= 0 THEN Reply(t, IF i = LOST THEN LOST ELSE ERROR)
      ELSE IF t.type[i] \in {INODE_FREE, INODE_DIRECTORY} THEN Reply(t, ERROR)
      ELSE IF j # 0 THEN Reply(t, IF j = LOST THEN LOST ELSE ERROR)
      ELSE IF d < 0 THEN Reply(t, LOST)
      ELSE Reply(a.tree, IF a.res = LOST THEN LOST ELSE 0)

\* Targets are shorter than a block, and WriteHandler stores nothing of them in
\* a new inode.  The parent's number is used as it is, and what is read in front
\* of the first inode for the number -1 is free or kills the server.
SymLinkHandler(t, q, cur, junk) ==
  LET d == getParentInum(t, q, cur)
      c == createFile(t, getFilename(q), d, INODE_SYMLINK, junk)
  IN  IF d < 0 THEN Reply(t, IF d = ERROR /\ junk = Unused THEN ERROR ELSE LOST)
      ELSE Reply(c.tree, IF c.res < 0 THEN c.res ELSE 0)

\* What is read is the inode found under the name, a link or not, and the
\* header when there is none.  The number -1 is used as in SymLink.
ReadLinkHandler(t, p, cur, junk) ==
  LET d == getParentInum(t, p, cur)
      i == findInumInDir(t, d, getFilename(p))
  IN  IF d < 0 \/ i < 0 THEN Reply(t, IF d # LOST /\ junk = Unused THEN ERROR ELSE LOST)
      ELSE IF t.type[i] = INODE_FREE THEN Reply(t, ERROR)
      ELSE Reply(t, Len(t.ents[i]))

\* The new directory has size 0, so "." and ".." are counted and not stored.
MkDirHandler(t, p, cur, junk) ==
  LET d == getParentInum(t, p, cur)
      c == createFile(t, getFilename(p), d, INODE_DIRECTORY, junk)
      a == addEntry(c.tree, c.res, [inum |-> c.res, name |-> "."], junk)
      b == addEntry(a.tree, c.res, [inum |-> d, name |-> ".."], junk)
  IN  IF d < 0 THEN Reply(t, d)
      ELSE IF c.res < 0 THEN c
      ELSE Reply(b.tree, IF LOST \in {a.res, b.res} THEN LOST ELSE 0)

\* What is meant: an empty directory other than the root goes away.  The code
\* behind the first test would clear an entry of the directory it removes.
RmDirHandlerMeant(t, p, cur) ==
  LET i == resolvePath(t, p, cur)
      d == getParentInum(t, p, cur)
  IN  IF i <= ROOTINODE \/ d < 0 THEN Reply(t, ERROR)
      ELSE IF t.type[i] # INODE_DIRECTORY \/ \E k \in 3 .. Len(t.ents[i]) : t.ents[i][k].inum # 0
           THEN Reply(t, ERROR)
      ELSE Reply([t EXCEPT !.type[i] = INODE_FREE, !.used = @ \ {i}], 0)

\* strcmp(pathname, "/") || strcmp(pathname, ".") is true of every path.
RmDirHandler(t, p, cur) == Reply(t, ERROR)

\* A faulty variant of DropLink: the inode is freed with its first link.
DropLinkFirst(t, i) == FreeInode(t, i)

\* The end of UnlinkHandler.
DropLink(t, i) ==
  IF t.nlink[i] <= 1 THEN FreeInode(t, i) ELSE [t EXCEPT !.nlink[i] = @ - 1]

ClearEntry(t, d, k) == [t EXCEPT !.ents[d][k] = Unused]

\* Where Unlink finds a name: the last slot is never looked at.
NameSlot(es, n) == SelectInSeq(Front(es), LAMBDA e : e.name = n)

\* In a directory of size 0 the loop runs on
\* what was on the stack.  When nothing is found node_info is NULL.
UnlinkHandler(t, p, cur, junk) ==
  LET d == getParentInum(t, p, cur)
      n == getFilename(p)
      k == NameSlot(t.ents[d], n)
      e == IF t.ents[d] = << >> THEN junk ELSE t.ents[d][k]
      c == IF t.ents[d] = << >> THEN t ELSE ClearEntry(t, d, k)
  IN  IF d < 0 THEN Reply(t, d)
      ELSE IF t.type[d] = INODE_FREE THEN Reply(t, LOST)
      ELSE IF IF t.ents[d] = << >> THEN junk.name # n ELSE k = 0 THEN Reply(t, LOST)
      ELSE IF t.type[e.inum] = INODE_FREE THEN Reply(t, LOST)
      ELSE IF t.type[e.inum] = INODE_DIRECTORY THEN Reply(t, ERROR)
      ELSE Reply(DropLink(c, e.inum), 0)

\* A trailing '/' gets a '.' behind it.
WithDot(p) ==
  IF p.names = << >> THEN [p EXCEPT !.names = <<".">>]
  ELSE IF Last(p.names) = "" THEN [p EXCEPT !.names = Append(Front(@), ".")] ELSE p

ChDirHandler(t, p, cur) ==
  LET i == resolvePath(t, WithDot(p), cur)
  IN  Reply(t, IF i < 0 THEN i ELSE IF t.type[i] = INODE_DIRECTORY THEN i ELSE ERROR)

StatHandler(t, p, cur) ==
  LET i == resolvePath(t, p, cur)
  IN  Reply(t, IF i = LOST THEN LOST
               ELSE IF i <= 0 THEN ERROR ELSE IF t.type[i] = INODE_FREE THEN ERROR ELSE 0)

\* SeekHandler: there is no inode to ask when the number is free.
SeekHandler(t, i) ==
  Reply(t, IF t.type[i] = INODE_FREE THEN LOST ELSE Len(t.ents[i]))

\* ReadHandler and WriteHandler as far as size and reply go (YfsFile has the
\* rest); what is written are words that do not read as an entry.  extend may
\* find no room.  Position -1 is in front of the data of block 0, in a pointer:
\* writing there does no harm if the first byte is zero.
ReadHandler(t, i, p, n) ==
  Reply(t, IF t.type[i] = INODE_FREE THEN ERROR
           ELSE IF p >= Len(t.ents[i]) THEN 0
           ELSE IF n < Len(t.ents[i]) - p THEN n ELSE Len(t.ents[i]) - p)

\* A faulty variant of WriteHandler: it writes to an inode that is free.
WriteHandlerAny(t, i, p, n, room, zero) ==
  Reply([t EXCEPT !.ents[i] = [k \in 1 .. p + n |-> Unused]], n)

WriteHandler(t, i, p, n, room, zero) ==
  LET m    == Len(t.ents[i])
      size == IF room /\ p + n > BLOCK_ENTRIES * ((m \div BLOCK_ENTRIES) + 1) THEN p + n ELSE m
      last == BLOCK_ENTRIES * Max({1, (size + BLOCK_ENTRIES - 1) \div BLOCK_ENTRIES})
      end  == IF p >= size THEN p ELSE IF p + n < last THEN p + n ELSE last
  IN  IF t.type[i] = INODE_FREE THEN Reply(t, ERROR)
      ELSE IF p < 0 /\ ~zero THEN Reply(t, LOST)
      ELSE Reply([t EXCEPT !.ents[i] = [k \in 1 .. size |->
                    IF k \in p + 1 .. end \/ k > m THEN Unused ELSE @[k]]], end - p)

-----------------------------------------------------------------------------
(* What a tree should be.                                                  *)

Dirs(t) == {i \in Inode : t.type[i] = INODE_DIRECTORY}
Allocated(t) == {i \in Inode \ {0} : t.type[i] # INODE_FREE}

\* The entries that name inode i.
Links(t, i) ==
  {dk \in UNION {{d} \X DOMAIN t.ents[d] : d \in Inode} : t.ents[dk[1]][dk[2]].inum = i}
=============================================================================
