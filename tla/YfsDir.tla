------------------------------- MODULE YfsDir -------------------------------
(***************************************************************************)
(* The name space under any sequence of requests: one action per handler   *)
(* of YfsTree that changes the tree.  Which client sends a request does    *)
(* not matter here, only its current directory does; YfsIolib has clients. *)
(***************************************************************************)
EXTENDS YfsTree

CONSTANTS
  Images,      \* the trees a disk may hold at first
  Paths,       \* the path names clients use
  Residue,     \* what memory that nobody has written may read as
  MAXLINKS,    \* bounds the link counts
  Sizes        \* the sizes a client gives a directory, in entries

ASSUME DirAssumption ==
  /\ Images \subseteq TreeType
  /\ Paths \subseteq Path
  /\ Residue \subseteq Entry
  /\ MAXLINKS \in Nat /\ Sizes \subseteq Nat

VARIABLES
  tree,   \* what the server and its disk hold
  up      \* the server runs

vars == <<tree, up>>

Init == tree \in Images /\ up = TRUE

-----------------------------------------------------------------------------
(* Requests.  A client is in some directory: that is CwdIsDirectory of     *)
(* YfsIolib.                                                               *)

\* A directory has as many links as there are directories, a file has MAXLINKS.
Bounded(t) == \A i \in Inode : t.type[i] # INODE_DIRECTORY => t.nlink[i] <= MAXLINKS

\* The handler has left r.tree, or has killed the server.
Handled(r) ==
  /\ up
  /\ up' = (r.res # LOST)
  /\ tree' = IF r.res = LOST THEN tree ELSE r.tree

Create(p, cur, junk)  == Handled(CreateHandler(tree, p, cur, junk))
SymLink(q, cur, junk) == Handled(SymLinkHandler(tree, q, cur, junk))
MkDir(p, cur, junk)   == Handled(MkDirHandler(tree, p, cur, junk))
RmDir(p, cur)         == Handled(RmDirHandler(tree, p, cur))
Unlink(p, cur, junk)  == Handled(UnlinkHandler(tree, p, cur, junk))
Link(p, q, cur, junk) ==
  LET r == LinkHandler(tree, p, q, cur, junk) IN Bounded(r.tree) /\ Handled(r)

\* The handlers that only look.
Open(p, cur)           == Handled(OpenHandler(tree, p, cur))
ReadLink(p, cur, junk) == Handled(ReadLinkHandler(tree, p, cur, junk))
ChDir(p, cur)          == Handled(ChDirHandler(tree, p, cur))
Stat(p, cur)           == Handled(StatHandler(tree, p, cur))

\* A client has opened a directory and writes zeros behind its end, up to a
\* size of n entries.
Grow(d, n) ==
  LET m == Len(tree.ents[d])
  IN  m < n /\ Handled(WriteHandler(tree, d, m, n - m, TRUE, TRUE))

\* Shutdown, or a sync before the power fails, and the next boot.
Restart == up /\ tree' = Boot(tree) /\ UNCHANGED up

\* Where a client may be; for an absolute path it does not matter.
From(p) == IF p.abs THEN {ROOTINODE} ELSE Dirs(tree)

Next ==
  \/ \E p \in Paths : \E cur \in From(p) :
       \/ RmDir(p, cur) \/ Open(p, cur) \/ ChDir(p, cur) \/ Stat(p, cur)
       \/ \E junk \in Residue :
            \/ Create(p, cur, junk) \/ SymLink(p, cur, junk) \/ MkDir(p, cur, junk)
            \/ Unlink(p, cur, junk) \/ ReadLink(p, cur, junk)
  \/ \E p, q \in Paths : \E cur \in From(p) \union From(q), junk \in Residue : Link(p, q, cur, junk)
  \/ \E d \in Dirs(tree), n \in Sizes : Grow(d, n)
  \/ Restart

Spec == Init /\ [][Next]_vars

-----------------------------------------------------------------------------
(* Properties.                                                             *)

\* The tree has its type; the root stays a directory and the header is not
\* freed; a free inode holds nothing and has no links (free_inode).
TypeOK ==
  /\ tree \in TreeType /\ up \in BOOLEAN
  /\ tree.type[ROOTINODE] = INODE_DIRECTORY /\ tree.type[0] = FS_HEADER
  /\ \A i \in Inode : tree.type[i] = INODE_FREE => tree.nlink[i] = 0 /\ tree.ents[i] = << >>

\* No inode has more entries than its nlink says, so the nlink-- of Unlink does
\* not free what a name still leads to (addEntry, UnlinkHandler, createFile).
LinksCovered == \A i \in Allocated(tree) : Cardinality(Links(tree, i)) <= tree.nlink[i]

\* Every entry names an inode that is in use: Unlink, a createFile that fails
\* and a reused number leave no entry of an inode that is free.
NoDangling ==
  \A d \in Inode : \A k \in DOMAIN tree.ents[d] :
    tree.ents[d][k].inum # 0 => tree.type[tree.ents[d][k].inum] # INODE_FREE

\* A directory has no name twice: Create looks it up with findInumInDir, Link
\* with resolvePath, and an entry may be in a slot that addEntry skips.
NamesUnique ==
  \A d \in Inode : \A k, l \in DOMAIN tree.ents[d] :
    tree.ents[d][k].inum # 0 /\ tree.ents[d][l].inum # 0
      /\ tree.ents[d][k].name = tree.ents[d][l].name => k = l

\* The bitmap has the inodes in use, no other, so find_free cannot hand out a
\* file and loses none (createFile, free_inode, the scan at boot).
InodesMarked == tree.used = {0} \union Allocated(tree)

\* Only the last entry of a directory can be overwritten (addEntry): another
\* one stays as it is, or is cleared by an Unlink that takes the link back.
OnlyLastIsLost ==
  [][\A d \in Inode : \A k \in 1 .. Len(tree.ents[d]) - 1 :
       LET e == tree.ents[d][k]
       IN  e.inum # 0 /\ tree'.ents[d][k] # e =>
             /\ tree'.ents[d][k] = Unused
             /\ tree.type[e.inum] # INODE_DIRECTORY
             /\ \/ tree'.nlink[e.inum] = tree.nlink[e.inum] - 1
                \/ tree'.type[e.inum] = INODE_FREE]_vars

\* A path through an absolute symbolic link is the path with the target put in
\* its place (resolvePath), or there are too many links.
LinksTransparent ==
  \A l \in Name :
    LET i == findInumInDir(tree, ROOTINODE, l)
    IN  i > 0 /\ tree.type[i] = INODE_SYMLINK /\ tree.target[i].abs =>
          \A n \in Name :
            LET via    == resolvePath(tree, [abs |-> TRUE, names |-> <<l, n>>], ROOTINODE)
                direct == resolvePath(tree, [tree.target[i] EXCEPT !.names = Append(@, n)], ROOTINODE)
            IN  via \in {direct, ERROR}

\* The handlers implement bindings of names to objects: a request changes one
\* name, and what goes away has no name left.
binding ==
  [d \in Inode \ {0} |->
     [n \in AnyName \ {""} |-> IF tree.type[d] = INODE_FREE THEN 0 ELSE findInumInDir(tree, d, n)]]
Names == INSTANCE YfsNames WITH
  Object <- Inode \ {0}, None <- 0, Label <- AnyName \ {""},
  objects <- Allocated(tree), bind <- binding
ImplementsNames == Names!NamesSpec

-----------------------------------------------------------------------------
(* What comments and samples say, beyond the properties above.             *)

\* yfs.h:50-53: a handler returns 0 on success and ERROR on failure.
HandlersAnswer == up

\* samples/tcreate2.c:6: files that were created can be opened and unlinked, so
\* no other request takes their entry away.
EntriesStay ==
  [][\A d \in Inode : \A k \in DOMAIN tree.ents[d] :
       LET e == tree.ents[d][k]
       IN  tree.type[e.inum] = INODE_REGULAR => tree'.ents[d][k] \in {e, Unused}]_vars
=============================================================================
