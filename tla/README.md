# A TLA+ model of the Yalnix file system (OuO_FS)

This directory holds a formal model of the YFS server in `src/`: TLA+ modules,
TLC configurations and proofs checked by TLAPS. `PROJECT.json` lists the
components, runs, mutants, findings, hazards and theorems, and maps each
definition to the lines it stands for.

## 1. The system

YFS is a user-level file server of the Yalnix kernel. Clients call a library
(`iolib.c`) that packs each call into a 32-byte message, sends it and waits for
the reply. The server (`yfs.c`) receives one message at a time, runs the handler
to its end and replies: it has no threads, and a client has at most one request
outstanding. What makes it hard is not concurrency in the server but the state
that requests leave behind: two write-back caches over each other and over the
disk, bitmaps in memory only, pointers kept across calls that evict, loops that
give up half-way, and power failures. Concurrency is between clients: each keeps
inode numbers (in descriptors and as its current directory) and a count of its
descriptors while others change what the numbers stand for.

| component | state | operations | talks to |
|---|---|---|---|
| block cache (`block.c`, `lrucache.c`) | list `block_head..block_tail`, `block_hashtable`, `block_cache_len`, dirty bits | `get_block`, `set_block_lru`, `evict_block` | disk: `ReadSector`, `WriteSector` |
| inode cache | list, `inode_hashtable`, dirty bits | `get_use_inode`, `get_new_inode`, `set_inode_lru`, `evict_inode` | block cache |
| boot, sync, shutdown | hash tables, bitmaps | `init_lru`, `init_inode_block`, `sync`, `ShutdownHandler` | both caches |
| block allocation and file data | `block_bitmap`, `inode_bitmap`, `size`, `direct`, `indirect` of inodes | `extend`, `free_inode`, `ReadHandler`, `WriteHandler` | both caches |
| directories and path names | directory entries, `type`, `nlink`, `reuse` of inodes, `inode_bitmap` | `resolvePath`, `addEntry`, `createFile`, the Open, Create, Link, Unlink, SymLink, ReadLink, MkDir, RmDir, ChDir and Stat handlers | file data |
| client library (`iolib.c`) | `open_files`, `open_files_count`, `proc_cur_dir` | Open .. Shutdown | server, by Send |
| server loop | the message | `main`, `MessageHandler` | clients, kernel |

What makes each of them correct:

- caches: what a reader gets is the last value written whatever was evicted;
  list and hash table hold the same entries; nothing is freed while a handler
  points to it; the lists keep their sizes; a sync that reports success leaves
  the disk equal to what readers see; a power failure leaves values that were
  written, never a mixture inside one inode;
- allocation: no block belongs to two files or to two places of one file, what a
  file owns is marked used, what nobody owns is free, a write changes only the
  file it is for, and what a write reports as written can be read back;
- directories: every entry names an inode in use, `nlink` is never below the
  number of entries, no name is twice in a directory, a request changes the one
  name it is about, a symbolic link stands for its target;
- library: the count of open files is right and a descriptor is there when the
  server has opened a file, current directories stay directories, a descriptor
  of a file that is gone does no harm, every call returns.

### How the code is read

The repository does not compile and link as it stands, and some lines cannot
run. The model follows the evident meaning of these lines, and only of these:

- `init_lru` allocates the two heads twice and the tails never
  (`lrucache.c:47-50`); taken as one sentinel at either end of each list.
- `search_*_hashTable` return the entry (`block.c:241`, `block.c:253`), and
  their callers read it as the wrap that holds the entry (`lrucache.c:170-177`,
  `lrucache.c:196-203`); taken as the entry.
- `main` calls neither `init_lru` nor `init_inode_block` nor `Register`
  (`yfs.c:1048-1076`); taken as called once before the first `Receive`.
- globals are defined in a header, and the cases of `MessageHandler` declare the
  same names; taken as one global each, one scope per case.

Everything else is taken literally, including what is wrong: section 5.

## 2. Modules

| module | what it models |
|---|---|
| `YfsStorage` | both caches and the disk as operators on one record: lists, tables, hit, insert, drop, eviction, `get_block`, `get_use_inode` |
| `YfsCache` | the state machine over them: boot, requests, sync, shutdown, power failure |
| `YfsStore` | the abstract promise: a store of items that only writes change and a power failure may set back |
| `MCYfsCache` | its instances for TLC |
| `YfsStorageProofs` | lemmas: what each operator of `YfsStorage` preserves and changes |
| `YfsCacheProofs` | the inductive invariant of `YfsCache` and the theorems |
| `YfsFile` | bitmaps, `extend`, `WriteHandler`, `ReadHandler`, `free_inode`, the scan at boot |
| `YfsFiles` | the abstract promise: files of words, no step touches two of them |
| `MCYfsFile` | its instances for TLC |
| `YfsFileProofs` | who owns which block: the inductive invariant of `YfsFile` and the theorems on ownership |
| `YfsFileData` | what is in the blocks: writes are read back, the refinement, restarts |
| `YfsTree` | the name space and every handler as operators on one record: path resolution, entries, inodes |
| `YfsDir` | the state machine over them: any sequence of requests and restarts |
| `YfsNames` | the abstract promise: bindings of names to objects, changed one name at a time |
| `MCYfsDir` | its instances for TLC |
| `YfsTreeProofs` | what path resolution returns, and what each handler of `YfsTree` preserves |
| `YfsDirProofs` | the inductive invariant of `YfsDir` and the theorems on the name space |
| `YfsIolib` | client processes, the library, messages and the loop of the server, over `YfsTree` |
| `MCYfsIolib` | its instances for TLC |
| `YfsIolibProofs` | the inductive invariant of the library and the theorems on descriptors |
| `YfsIolibTree` | what clients remember of the tree while others change it: the other theorems on `YfsIolib` |

`YfsFile` stands on the promise of `YfsStore`: it sees inodes and blocks as
`get_use_inode` and `get_block` show them, and `YfsCache` is about what lies
below these calls. In the same way `YfsTree` stands on `YfsFile`: it sees an inode
as the entries it holds. `YfsDir` and `YfsIolib` both use the handlers of `YfsTree`,
the first with every sequence of requests, the second with processes that send
them. The layers are checked one by one, not in one state space.

### YfsStorage and YfsCache

A cache is the record `[hash, queue, info]`: the hash table as a function from
numbers to addresses or `NULL`, the list as a sequence of addresses with the
least recently used first, and what is stored at each allocated address.
Addresses are explicit because the code can have two entries of one number, or
an entry in the list that the table has lost; `Drop` removes from the table
whatever it holds for the entry's number, as `delete_block_hashTable` does, and
not necessarily the entry itself. A sector is a function from slots to values: a
slot of an inode block is an inode, a slot of a data block is some of its bytes.
The hash chains (`HASH_TABLE_SIZE` buckets) are taken as a function (section 6
says why).

An inode is one value of `Val`, or `FREE` (type `INODE_FREE`): the caches move
inodes as a whole. Handlers are rows of cache uses: `UseInode`, `ReadBlock`,
`WriteBlock`, `ChangeInode` (a store followed by `isDirty = 1`), `DropLink`
(the store of `UnlinkHandler` that is not followed by it), `FreeInode`,
`CreateInode`. Every row of them is a behaviour of the model, those of the
handlers included; between any two the power may fail. `free_inode` calls
`sync` in its middle: it is `FreeInode`, the steps of sync, then `FreeDone`.
`sync` and the loop of `init_inode_block` take one step per iteration, because
each may write a sector. When `free_inode` reads an indirect block, that is a
`ReadBlock` before the `FreeInode`.

`Faults` gives the sets of sectors on which `WriteSector` may fail during a
step; reads never fail, as the code ignores their result (`block.c:67`).
`MultiLinked` names the inodes that may have several links; the others never
reach the `nlink--` that is not followed by `free_inode`. `CreateInode` with a
number that is still cached would unlink an entry whose `prev` and `next` are
`NULL` (`lrucache.c:215`); the server dies, which is a `PowerOff`.

The block of the fs_header and the inodes in it are left out of most properties
(`SoundBlock`, `SoundInode`), since boot leaves a stale entry of that block
(finding 1). They take part in the behaviour all the same.

### YfsFile

Positions, sizes and lengths count words (an `int`), so that a block read as data
and a block read as a table of block numbers are the same sequence; a byte
inside a word has no part in any decision of the code. `BlockAt(i, k)` is the
block of place `k` of file `i`, through `direct` or through the indirect block.

`WriteHandler` is one action that decides whether to extend (`yfs.c:615`), then
one action per iteration of each loop: `AllocDirect`, `AllocIndirect`,
`AllocEntry`, `WriteBlock`; `ExtendFails` and `ExtendDone` are the two ways out of
`extend`, whose result `WriteHandler` ignores. Only one request runs at a time,
so these steps interleave with nothing; they are kept apart because a loop can
give up between them and because an invariant must hold in the middle.
`HasIndirect` is the way past `AllocIndirect` for a file that has its indirect
block. `ReadHandler` changes nothing and is the operator `Read`.

`CreateInode` is `get_new_inode` with the fields `createFile` sets; `FreeInode`
is `free_inode`, which the handlers call for files, never for the root
directory. Its early returns (a block number outside the data blocks) are
guarded away; `NoSharedBlock` says that they cannot happen. Three more returns
of the code have no action for the same reason: `extend` with
`newsize < inode->size` (the caller has compared them), no free block in the
loop over the direct blocks (`RunsOutAtLast`), and position past the last place
in `ReadHandler`. `Restart` is a shutdown with everything written followed by
`init_inode_block`; power failures are in `YfsCache`.

`mkyfs` makes room for `num_inodes + 1` inodes, the server for `num_inodes`: the
root directory's block may leave one block free behind the inode blocks
(`RootBlock`).

### YfsTree and YfsDir

A tree has the fields of every inode that the handlers look at, what each inode
holds as a sequence of directory entries, and the `inode_bitmap`. Sizes count
entries; words of a file read as entries that are not used. Handlers are
operators that return a tree and a reply, with two more answers than the code's:
`ERROR` is -1, and `LOST` means that the handler kills the server (a NULL or wild
pointer, `memcpy` of -1 bytes) and nobody gets a reply. An action of `YfsDir` is
one request with its reply, since the server runs handlers to their end.

What is easy to overlook in the code is kept:

- `addEntry` and `UnlinkHandler` never look at the last slot of a directory; with
  no other slot free `addEntry` overwrites what is there. In a directory of size
  0, as `MkDirHandler` leaves it, the bound of their loops is unsigned and they
  compare an entry on the stack that nobody has written: `junk`, any member of
  `Residue`.
- Directories never grow by themselves, since a write that ends inside the block
  after the last full one does not extend (`yfs.c:615`). A client can write to a
  descriptor on a directory, and only so directories get more slots: `Grow`.
- `findInumInDir` gives 0 for a name that is not there, and `resolvePath` goes on
  in inode 0: the fs_header, read as an inode of no type (`FS_HEADER`) that holds
  nothing. Open of a missing path answers 0.
- A link with a relative target is looked into as if it were a directory, a link
  without a target and with names behind it starts at the root (`StepPath`).
- `RmDirHandler` answers `ERROR` for every path: `strcmp` is true of all of them.
- `createFile` gives the inode number back when `addEntry` fails; `LinkHandler`
  does not look at what `addEntry` says.

`SymLinkHandler` stores nothing: the target is written to a file of size 0, and a
target is shorter than a block (`MAXPATHNAMELEN` is 256), see finding 2. A tree
with a link that leads somewhere is nevertheless reached, by a client that
writes more than a block to a descriptor on the link; the initial tree `Linked`
of `MCYfsDir` is such a one.

`YfsNames` has objects and a binding of names to objects in each of them. A step
makes an object, binds one name, or unbinds one; an object goes away with its
last name. Two things it allows are there because the code does them: a new name
may push one other out of the same directory, and a new object may stay without
a name. `binding` maps a tree to it through `findInumInDir`.

### YfsIolib

A process is between calls, in `Send` with its message waiting, or behind it with
a reply. Calls of the library are two actions, up to `Send` and behind it
(`Returns`); those that send nothing are one. The queue is what the kernel holds
for `Receive`; `Serve` is one round of the loop of `main`. When the server exits or
dies, `Send` fails for everybody who waits (`SendFails`), and for everybody who
calls later. A client may exit between any two calls (`Exit`), and when all have,
`Receive` returns 0 and the server exits (`NobodyLeft`).

`open_files` starts as zeros and is set up by the first call that uses
descriptors (`Files`). Positions count entries; the library lets a position drop
to -1 (finding 6), and the module follows it there and no further: a `Read` or
`Write` at -1 is sent, one at -2 is not made. `WriteHandler` at -1 writes in front of
the data of the block, into a pointer of `BLOCK_INFO`, which is `LOST` unless the
byte was zero already (`zero`). The disk does not fail and the server does not
lose power here; that is `YfsCache`.

## 3. What the runs show

The directories and the library have one passing run each, the caches and the
files two: one without and one with disk faults, one life of the server and any
number of restarts. The instances are the smallest in which the cases below happen, so
that a run takes seconds; what the safety properties and refinements say is
proved for every instance (section 4).

Bounds of the cache runs: two inode blocks, the first with the fs_header, one
data block, caches of one or two entries. `cache` has two inodes in a block, an
inode cache of two and a block cache of one, so that every get of another block
evicts, the nested ones of `set_inode_lru` too; `cache_faults` has it the other
way round, and its block list has an order; inode 1 has two links there, so that
`DropLink` runs; that the change it makes without a mark is not lost in an
eviction takes a second value, and is part of the theorem `ViewsChangeByWrites`.
A larger cache only delays what happens here. `Crash` and `Boot` are unlimited,
so a behaviour has any number of restarts. `Val` has one member, so a cell has
two values with `FREE`: enough to tell an old value from a new one, and a file
from a free inode. No variable needs a bound in a guard: cursors are bounded by
the lists, lists by the caches and the number of blocks.

| run | instance | shows |
|---|---|---|
| `cache` | 4 inodes in 2 blocks, block cache of 1, inode cache of 2, no faults | `TypeOK`, `CachesLinked`, `CleanIsBelow`, `InodesAccounted`, `SyncDurable`, `CacheBounded`, `HeldInodeSurvives` |
| `cache_faults` | 2 inode blocks of one inode, sectors 2 and 3 may fail, block cache of 2, inode cache of 1, inode 1 has two links, fair | `CachesLinked`, `CleanIsBelow`, `SyncDurable`, `BootEnds`, `SyncEnds`, `OnlyWritesChange`, `ImplementsStore` |
| `file` | 2 files, 5 data blocks of 2 words, 1 direct block, fair | `TypeOK`, `NoSharedBlock`, `OwnedMarked`, `WrittenIsRead`, `RunsOutAtLast`, `WriteEnds`, `ImplementsFiles` |
| `file_restart` | 2 files, 3 data blocks, 2 direct blocks, restarts | `NoSharedBlock`, `OwnedMarked`, `NoLeak` |
| `dir` | 5 inodes, 4 names, two initial trees, directories of 0 to 5 entries | `TypeOK`, `LinksCovered`, `NoDangling`, `NamesUnique`, `InodesMarked`, `LinksTransparent`, `OnlyLastIsLost`, `ImplementsNames` |
| `iolib` | 2 clients, 2 descriptors each, 4 inodes, fair | `TypeOK`, `CountRight`, `SlotForReply`, `CwdIsDirectory`, `FreeIsEmpty`, `CallsReturn` |
| `cache_header`, `file_len`, `file_indirect`, `dir_entries`, `dir_answers`, `iolib_position` | | the findings of section 5 |

Bounds of the file runs: blocks of two words and one or two direct blocks make a
file cross from direct to indirect blocks within three places; five data blocks
are fewer than two largest files need, so the disk fills up, also in the middle
of `extend`: with one block fewer its count of the blocks it needs, which
forgets the indirect block of a file with exactly one direct block, would never be
short (`ExtendFails`, where the condition of `RunsOutAtLast` holds). `MAXEND` bounds how far a request reaches: in `file` into the
last block a file can have, in `file_restart` to the last direct one. `MAXLEN`
of three words lets one request span three blocks. One written word, which is
also the number of a block, is enough to tell written words from zeroed ones and
lets a table that is overwritten by data stay readable.

`file` is one life of the server and `file_restart` has files of direct blocks
only, because both limits are needed: with restarts and indirect blocks
together `NoSharedBlock` fails (finding 3), and with indirect blocks `NoLeak`
fails even without restarts (section 5).

`HeldInodeSurvives` is about handlers that hold the inode they got last while
they get another (`addEntry`, `UnlinkHandler`); it needs `INODE_CACHESIZE` of 2
or more, and the code has 16. With the block of the fs_header shared by real
inodes `InodesAccounted` is restricted to `SoundInode`: a free inode can come
back from the stale block, and then `CreateInode` finds its number cached.

Bounds of `dir`: five inodes leave three to make or remove beside the root and
the header, so the bitmap runs full. `PlainPaths` has a name in the root, a
relative one, looked up from every directory, one in a subdirectory and the same
name through the symbolic link; one of the two disks has neither: the cases of
`resolvePath` and `getParentInum`. Directories get sizes 0, 2, 3 and 5, so that
the last slot is the only one, is behind free ones, and is behind used ones.
`Residues` has an entry that reads as free and one that does not. `MAXLINKS` of
2 bounds `nlink` of files, `REUSES` of 1 takes the count of reuses away, which
nothing reads. Restrictions: no path of the passing runs ends in '/', and no
`Residue` is an entry a client asks for (both kill or corrupt, section 5); names
fit into `DIRNAMELEN` bytes, no path has two slashes in a row, and no client
writes words that read as a used entry.

Bounds of `iolib`: one client works with descriptors, the other with names, so
that every call is made and every handler of the one runs between two calls of
the other; more clients of either kind add permutations of the same steps. Two
descriptors are one more than a full vector needs. One path, `./a`, is looked up
from the current directory, which may be the root, or a directory made under the
same name. `./a` is a file of three entries' size at first, and of size 0 when
it is made anew, so that reads and writes of one (`Lengths`) happen within a
file and at its end; `MAXPOS` 1 and `Seek` to the end make a position -1, 0, 1
or 3. How a write extends a file is the subject of `file`.

`CHECK_DEADLOCK` is off where the system really may stop: when the server is dead
or has exited (`dir`), and when besides the clients are gone (`iolib`).

Refinement. `YfsStore` has items (inodes, and slots of data blocks), the value a
reader sees, and the set of values an item can have after a power failure. The
mapping takes for the survivors of an item the values on the disk, in the block
cache and in the inode cache. `ImplementsStore` says that every step of the
caches writes one item, or leaves all views alone, or is a power failure that
sets each item to one of its survivors, and that a sync that returns 0 leaves
one survivor.

Fairness. `FairSpec` is weak fairness of `Progress`, the steps the server takes
without waiting for a message: the server is one process that never blocks
inside boot or sync, so it keeps running unless the power fails. For `YfsFile`
they are the steps from a request to its reply; clients are never assumed to
send anything. In `YfsIolib` it is weak fairness of `Receive`, which `Serve` alone
can take (the loop of `main` blocks nowhere else and takes messages in order),
and of every `Returns(p)` (a process behind `Send` runs on). No client has to call,
close or exit.

## 4. What is proved

### The caches

For every size of the disk and of the caches, every set of values, every choice
of failing sectors (`StorageAssumption`, `CacheAssumption`), TLAPS checks:

- `TypeCorrect`, `CachesStayLinked`, `CleanStaysBelow`, `SyncMakesDurable`:
  the run properties of the same content, as theorems `Spec => []...`;
- `BitmapAccounts`: the inode bitmap has exactly the inodes a reader sees in use
  (`InodesAccounted`), and `get_new_inode` finds no entry under its number;
- `CachesStayBounded`: neither list outgrows its cache, provided that sectors can
  be written (`Faults = {{}}`: a victim that cannot be written stays, section 5);
- `HeldInodeStays`: the inode a handler holds is not evicted under it, provided
  that `INODE_CACHESIZE >= 2`; with one entry the next inode evicts it;
- `ViewsChangeByWrites`: what a reader sees of an item changes only by a request
  that writes the item (`OnlyWritesChange`);
- `StoreIsImplemented`: `YfsCache` implements `YfsStore` (`ImplementsStore`);
- `Invariance`: the inductive invariant `IInv` behind them.

`CleanIsBelow` and `SyncDurable` are not inductive. `IInv` adds that the caches
are empty while the server is down, that boot has cached no inode it has not
reached yet, that the entry `free_inode` holds stays in the list until sync
returns, and that what sync has passed is clean: the prefix of the list before
the cursor in either loop, every inode during the second one. The argument goes
action by action (`BootKeeps` .. `FreeDoneKeeps`); each rests on the lemmas of
`YfsStorageProofs`, which follow the calls downwards: `PutCellKeeps` uses
`GetBlockKeeps`, that one `EvictBlockKeeps`, and these the lemmas on lists and
tables (`InsertWellFormed`, `DropWellFormed`, ...). The central fact is
`SectorsFollow`: a sector changes only to the content of a block that a reader
would have got.

`InodesAccounted` speaks of requests, and what it needs while none runs is
`Accounted`: boot has entered the inodes it has met and no other (`BitmapPart`);
the inode `free_inode` holds while it syncs is out of the bitmap and still in the
cache, and its block gets `FREE` before the entry goes (`FreedPart`), which holds
with a failing sector too, as `sync` copies every inode before it writes a block
(`DonePart`).

`StepEffect` says what any step does: it writes nothing (`Quiet`), one inode
(`InodeStep`), one slot of a data block (`DataStep`), or is a power failure. In
the first three cases values only sink (`Lower`): the block cache holds of an
inode what it held or what the inode cache held, a sector what it held or what
one of the levels above did. So no power failure can bring back a value that none
of the levels had before, which is the step of the refinement (`StoreSettles`,
`QuietRefines`, `WriteRefines`, `PowerOffRefines`). The other theorems read off
from `Effect` what they need: which entries stay (`TailStays`), how long the lists
get (`StaysBounded`).

### Files

For every size of the disk, of blocks and of files (`FileAssumption`):

- `BlocksOwnedOnce`, `OwnersAreMarked`, `TypeCorrect`: the run properties, in one
  life of the server, indirect blocks included;
- `ExtendRunsOutAtLast`: `extend` finds no free block only where a file that had
  exactly its direct blocks has got an indirect one, and then only for the last
  block of the growth;
- `WritesAreRead`: what a write reports as written is read back, up to the size;
- `FilesAreImplemented`: `YfsFile` implements `YfsFiles`, provided that
  `MAXEND` is at most the capacity of a file (section 5 has what happens beyond);
- `RestartsKeepOwners`: ownership over any number of restarts, provided that
  `MAXEND` is within the direct blocks (finding 3 is what happens beyond);
- `NothingLeaks`: on the same condition every block marked used is owned between
  requests (`NoLeak`; section 5 has the leak beyond).

`NoSharedBlock` and `OwnedMarked` speak of the blocks a file's size covers, and
`extend` takes blocks before the size covers them. The inductive invariant
therefore speaks of the places a file reaches (`Reach`: covered by its size or
taken by the `extend` under way) and of the files that have an indirect block
(`HasTable`): `Marked`, their blocks are data blocks marked used; `Apart`, no two
of them are the same; `Control`, `extend` starts behind what the size covers.
Each action takes nothing, one block for one place, or one indirect block
(`TakesNothing`, `TakesBlock`, `TakesTable`), and `TableThere` says that a place
behind the direct ones is reached only through a table. The proofs about words
use the same invariant: a block that is written is nobody's table and nobody
else's block, so `WriteBlockWords` can say exactly which words change.
`ExtendRunsOutAtLast` needs an invariant of its own, `Room`: what `extend` still
has to take, with the indirect block as long as it is counted and not taken, is
free, but for one block once an indirect block that was not counted is taken.

### The name space

For every number of inodes, limit on links, set of names and of paths
(`DirAssumption`), on two conditions, and a third for the theorems on names.
`SoundImages`: the disks are sound; the theorem `MkyfsIsSound` says that the one
mkyfs makes is. `NamedPaths`: a path ends in a name, and the stack of the server
does not happen to hold an entry of that name; without it Unlink can free the
header (section 5), and a directory of size 0 matches whatever the stack holds.
`FreshImages`: no symbolic link has a target and no directory a name twice, like
the disk of mkyfs (`MkyfsIsFresh`). SymLink stores no target: its WriteHandler
does not extend a file of size 0 for one (`yfs.c:615`, section 5). A target that
leads nowhere, written by a client through a descriptor, lets Link make a second
entry of the link's name. The second disk of the run `dir` has a link with a
target: there names are model-checked only.

- `ResolveInRange`: path resolution ends, also in links that lead to themselves;
- `LinksStayCovered`, `EntriesLeadToInodes`, `BitmapIsRight`, `OnlyLastEntryIsLost`,
  `TreeKeepsType`: the run properties, over any sequence of requests and restarts;
- `LinksAreTransparent`: a link stands for its target;
- `NamesStayUnique`: no directory has a name twice;
- `NamesAreImplemented`: the handlers implement `YfsNames`;
- `Invariance`: the inductive invariant behind them.

`LinksCovered` is not inductive: an Unlink takes a link back for an entry it has
found, and that this entry is counted at all rests on entries being in
directories only, on cleared slots having no name, and on free inodes holding
nothing (a directory that grows again must not bring old entries back). `Sound`
says this. The proofs in `YfsTreeProofs` follow the calls: `PutSound`, `CountSound`,
`ClearSound` and `DropSound` change one field, `addEntryKeeps` and `createFileKeeps` join them, and
`Adds` and `UnlinkSound` say what a whole handler does. That nothing but the last
entry goes is `OneCleared`, which two changes in a row keep only because no
handler clears twice.

`resolvePath` is a recursive function on what is left of a path (`Walk`). A step
uses up a name or follows one of at most `MAXSYMLINKS` links, so it gets
`Nearer` to the end. The function exists because the smallest set of pairs closed
under its equation is one (`WalkExists`); what holds of every result is shown by
the walk nearest to the end where it would fail (`NearestWalk`). For
`LinksAreTransparent` two walks are compared that differ in the count of links by
one: they agree as long as the longer one does not exceed the limit
(`WalksOneLinkMore`).

On names a request does one of four things (`Changing`): nothing; it makes an
inode, with a name or without; it gives an inode a name; it takes one away, and
the inode with it or not. `createFileMakes`, `LinkChanges`, `UnlinkChanges` and
`GrownRests` say so of the handlers, and `ChangingKeepsUnique` that each keeps
names unique, as a name is put in only where no slot in use has it. Create asks
`findInumInDir`, which may find an entry that is in use only, since a cleared slot
has no name (`FindNone`). Link asks `resolvePath` of the whole path: the walk to
the directory and the walk to the name go side by side, one name apart, until the
first is over (`WalksOneNameMore`), and if the second finds nothing, the
directory does not have the name (`LinkLooks`). For `NamesAreImplemented`,
`BoundIs` says what a name leads to in terms of slots, and `MakingMakes`,
`NamingNames` and `DroppingUnbinds` map each of the four to a step of `YfsNames`.
That an object goes only when no name leads to it is `EntriesLeadToInodes` again,
in the tree after the step.

### The library

For every number of clients and of descriptors, every disk and every set of
calls, paths and lengths (`IolibAssumption`):

- `CountStaysRight`: `open_files_count` is the number of open descriptors;
- `SlotIsThere`: when the server has opened or created a file for a process, the
  process has a free descriptor: the count it has looked at tells of the vector;
- `Invariance`: the inductive invariant behind them.

`CountRight` is not inductive by itself: nothing is open before the vector is set
up, and a reply must find the vector set up. `IInv` has three parts. `Library`: each
vector has its shape, and its count is the number of its open descriptors once
it is set up, 0 before. `Called`: a call on its way to the server or back that uses
descriptors has set the vector up, and Open and Create have found the count below
the maximum; no other step of the process comes in between, since a call is one
at a time. `Queued`: a process waits in the queue once and only while it is in
`Send`, so that the server never answers a process that is not waiting. The proof
needs nothing of the handlers: whatever they answer, the descriptors are right.

The rest needs the handlers, and stands on the lemmas of `YfsTreeProofs` under the
conditions `SoundImages` and `NamedPaths` of the name space:

- `CwdStaysDirectory`: the current directory of a client stays a directory;
- `FreeStaysEmpty`: nothing is written to an inode that is gone;
- `TypeCorrect`: the types, those of the tree, messages and replies included;
- `WorldStays`: the inductive invariant behind them.

`World` has three parts: the tree is sound; what processes remember are numbers of
inodes, and of directories where they are current (`Remembered`); a message has
what its handler relies on, and an answer to ChDir that is on its way names a
directory still (`Answers`). `HandlerFollows` goes through the handlers: each leaves
the tree sound and every directory a directory (`Follows`), and this carries over
what others remember.

### Model-checked only

The liveness properties `BootEnds`, `SyncEnds`, `WriteEnds` and `CallsReturn`:
fairness and `ENABLED` are beyond the proof system used here. `NamesUnique` and
`ImplementsNames` on disks that have links with targets. Every other property of
the passing runs is the statement of a theorem, on the conditions given above.

## 5. Where the code disagrees with what it says

1. `cache_header`: `init_inode_block` caches the block of the fs_header and then
   zeroes the hash tables (`block.c:113-126`). The stale entry makes a later one
   vanish from the table when it is evicted, and a sync can return 0 with a
   value that is not on the disk.
2. `file_len`: `WriteHandler` extends only when the request ends behind the block
   after the last full one (`yfs.c:615`). The run makes a file and writes a word at
   its start: nothing is stored, and 0 is returned, neither the length nor `ERROR`.
   `WriteReturnsLen` asks this only of files a client has made and of writes that
   start within the file or at its end.
3. `file_indirect`: the scan at boot does not mark indirect blocks
   (`block.c:179-191`); they are handed out again.
4. `dir_entries`: with no slot free but the last, `addEntry` overwrites the last
   entry (`yfs.c:224`), and the file that was there has no name any more.
5. `dir_answers`: Unlink of a name that is in no slot but the last, or nowhere,
   kills the server (`yfs.c:926`).
6. `iolib_position`: Read and Write move the position by -1 when the server
   answers `ERROR` (`iolib.c:222`).

Seen while modelling, without a run:

- `UnlinkHandler` decrements `nlink` without marking the inode dirty (`yfs.c:926`);
- a write across the end of a file inside its last block counts bytes that stay
  outside the file (`yfs.c:657`);
- `extend` does not count the indirect block of a file that fills its direct
  blocks exactly (`block.c:354`), gives up half-way and leaks blocks;
- `extend` stores a size beyond the last place of a file (`block.c:410`);
- Link under the name of a symbolic link that leads nowhere makes a second entry
  of that name, since `LinkHandler` asks `resolvePath` whether the name is there
  (`NamesUnique` needs a disk without such a link);
- Unlink of a path that ends in '/' finds a cleared entry and frees inode 0;
- a path without '/' makes `getParentInum` copy -1 bytes (`yfs.c:163`);
- Seek from the end of a file that was unlinked kills the server (`yfs.c:1041`);
- `strcmp(...) || strcmp(...)` makes RmDir fail for every path (`yfs.c:814`);
- `.` and `..` of a new directory are counted and not stored (`yfs.c:786-787`);
- the server exits without a sync when all clients are gone (`yfs.c:1061`);
- `sync` can return -1 (`yfs.c:1122`) where its comment says always 0;
- the block cache grows when its victim cannot be written (`lrucache.c:232-235`)
  where `filesystem.h:132` says constant size;
- the server never uses the last inode (`block.c:154` against
  `samples/mkyfs.c:78`).

## 6. Plan

1. Done: `YfsStorage`, `YfsCache`, `YfsStore` and their proofs.
2. Done: `YfsFile`, `YfsFiles` and their proofs.
3. Done: `YfsTree`, `YfsDir`, `YfsNames` and the proofs on the name space.
4. Done: `YfsIolib` and its proofs.
5. Done: proofs of the safety properties and of the refinements of `YfsStore`,
   `YfsFiles` and `YfsNames`.
6. Left: names on disks whose links have targets that lead somewhere and stay.

Not modelled: the bucket chains of the hash tables (the tables are functions, and
the code of `search_*_hashTable` does not fit its callers, section 1, so that a
model of the chains would be of code that is not there); wording of messages and
traces; the Yalnix kernel beyond what the server and the library use of it; the
command line of mkyfs; the sample programs (they are clients, and what they
expect is quoted where the model disagrees). Power failures are in `YfsCache`
only: the layers above see inodes and blocks through the caches, and `YfsStore`
says what a power failure may bring back.
