---------------------------- MODULE YfsDirProofs ----------------------------
(***************************************************************************)
(* The name space under any sequence of requests.  The theorems speak of   *)
(* disks whose trees are sound, like the one mkyfs makes, and of paths     *)
(* that end in a name which the stack of the server does not happen to     *)
(* hold: with "a/" Unlink clears a free slot and frees the header, and in  *)
(* a directory of size 0 it takes its entry from the stack.  The theorems  *)
(* on names also ask for disks whose links have no target, since Link      *)
(* looks a name up with resolvePath, which follows them.                   *)
(***************************************************************************)
EXTENDS YfsDir, YfsTreeProofs

\* The disks.
SoundImages == \A t \in Images : Sound(t)

\* The paths.
NamedPaths == \A p \in Paths, junk \in Residue : HasName(p, junk)

LEMMA ParametersAre ==
  Images \subseteq TreeType /\ Paths \subseteq Path /\ Residue \subseteq Entry /\ Sizes \subseteq Nat
BY DirAssumption

-----------------------------------------------------------------------------
(* Steps.                                                                  *)

\* What a request makes of a tree.
Moves(t, u) ==
  /\ Sound(u) /\ OneCleared(t, u)
  /\ \A i \in Inode : t.type[i] = INODE_DIRECTORY => u.type[i] = INODE_DIRECTORY
  /\ Targets(t, u)

LEMMA MovesNot ==
  ASSUME NEW t, Sound(t)
  PROVE  Moves(t, t)
BY KeptItself, KeptClearsNone DEF Moves, Targets

LEMMA AddsMove ==
  ASSUME NEW t, Sound(t), NEW r, Adds(t, r)
  PROVE  Moves(t, r.tree)
<1>1. Sound(r.tree) /\ Kept(t, r.tree) /\ Targets(t, r.tree)
  BY DEF Adds
<1>2. OneCleared(t, r.tree)
  BY <1>1, KeptClearsNone
<1>3. ASSUME NEW i \in Inode, t.type[i] = INODE_DIRECTORY PROVE r.tree.type[i] = INODE_DIRECTORY
  BY <1>1, <1>3 DEF Kept, INODE_DIRECTORY, INODE_FREE
<1> QED
  BY <1>1, <1>2, <1>3 DEF Moves

LEMMA HandledMoves ==
  ASSUME NEW r, Sound(tree), Handled(r), Moves(tree, r.tree)
  PROVE  Moves(tree, tree') /\ up' \in BOOLEAN
<1>1. (tree' = tree \/ tree' = r.tree) /\ up' \in BOOLEAN
  BY DEF Handled
<1> QED
  BY <1>1, MovesNot

LEMMA NextMoves ==
  ASSUME NamedPaths, Sound(tree), Next
  PROVE  Moves(tree, tree') /\ up' \in BOOLEAN
<1>1. ASSUME NEW p \in Paths PROVE p \in Path /\ From(p) \subseteq Inode
  BY ParametersAre, InodesAre DEF From, Dirs
<1>2. ASSUME NEW p \in Paths, NEW cur \in From(p),
             RmDir(p, cur) \/ Open(p, cur) \/ ChDir(p, cur) \/ Stat(p, cur)
      PROVE  Moves(tree, tree') /\ up' \in BOOLEAN
  <2>1. cur \in Inode /\ p \in Path
    BY <1>1
  <2>2. CASE RmDir(p, cur)
    <3> DEFINE r == RmDirHandler(tree, p, cur)
    <3>1. r.tree = tree /\ Handled(r)
      BY <2>2 DEF RmDirHandler, Reply, RmDir
    <3> HIDE DEF r
    <3> QED
      BY <3>1, MovesNot, HandledMoves
  <2>3. CASE Open(p, cur)
    <3> DEFINE r == OpenHandler(tree, p, cur)
    <3>1. r.tree = tree /\ Handled(r)
      BY <2>3 DEF OpenHandler, Reply, Open
    <3> HIDE DEF r
    <3> QED
      BY <3>1, MovesNot, HandledMoves
  <2>4. CASE ChDir(p, cur)
    <3> DEFINE r == ChDirHandler(tree, p, cur)
    <3>1. r.tree = tree /\ Handled(r)
      BY <2>1, <2>4, ChDirIs DEF ChDir
    <3> HIDE DEF r
    <3> QED
      BY <3>1, MovesNot, HandledMoves
  <2>5. CASE Stat(p, cur)
    <3> DEFINE r == StatHandler(tree, p, cur)
    <3>1. r.tree = tree /\ Handled(r)
      BY <2>5 DEF StatHandler, Reply, Stat
    <3> HIDE DEF r
    <3> QED
      BY <3>1, MovesNot, HandledMoves
  <2> QED
    BY <1>2, <2>2, <2>3, <2>4, <2>5
<1>3. ASSUME NEW p \in Paths, NEW cur \in From(p), NEW junk \in Residue,
             \/ Create(p, cur, junk) \/ SymLink(p, cur, junk) \/ MkDir(p, cur, junk)
             \/ Unlink(p, cur, junk) \/ ReadLink(p, cur, junk)
      PROVE  Moves(tree, tree') /\ up' \in BOOLEAN
  <2>1. cur \in Inode /\ p \in Path
    BY <1>1
  <2>2. CASE Create(p, cur, junk)
    <3> DEFINE r == CreateHandler(tree, p, cur, junk)
    <3>1. Moves(tree, r.tree)
      BY <2>1, CreateAdds, AddsMove
    <3> QED
      BY <2>2, <3>1, HandledMoves DEF Create
  <2>3. CASE SymLink(p, cur, junk)
    <3> DEFINE r == SymLinkHandler(tree, p, cur, junk)
    <3>1. Moves(tree, r.tree)
      BY <2>1, SymLinkAdds, AddsMove
    <3> QED
      BY <2>3, <3>1, HandledMoves DEF SymLink
  <2>4. CASE MkDir(p, cur, junk)
    <3> DEFINE r == MkDirHandler(tree, p, cur, junk)
    <3>1. Moves(tree, r.tree)
      BY <2>1, MkDirAdds, AddsMove
    <3> QED
      BY <2>4, <3>1, HandledMoves DEF MkDir
  <2>5. CASE Unlink(p, cur, junk)
    <3> DEFINE r == UnlinkHandler(tree, p, cur, junk)
    <3>1. HasName(p, junk)
      BY DEF NamedPaths
    <3>2. /\ Sound(r.tree) /\ OneCleared(tree, r.tree) /\ Targets(tree, r.tree)
          /\ \A j \in Inode : tree.type[j] = INODE_DIRECTORY => r.tree.type[j] = INODE_DIRECTORY
      BY <2>1, <3>1, UnlinkSound
    <3>3. Moves(tree, r.tree)
      BY <3>2 DEF Moves
    <3> QED
      BY <2>5, <3>3, HandledMoves DEF Unlink
  <2>6. CASE ReadLink(p, cur, junk)
    <3> DEFINE r == ReadLinkHandler(tree, p, cur, junk)
    <3>1. r.tree = tree /\ Handled(r)
      BY <2>6 DEF ReadLinkHandler, Reply, ReadLink
    <3> HIDE DEF r
    <3> QED
      BY <3>1, MovesNot, HandledMoves
  <2> QED
    BY <1>3, <2>2, <2>3, <2>4, <2>5, <2>6
<1>4. ASSUME NEW p \in Paths, NEW q \in Paths, NEW cur \in From(p) \union From(q),
             NEW junk \in Residue, Link(p, q, cur, junk)
      PROVE  Moves(tree, tree') /\ up' \in BOOLEAN
  <2> DEFINE r == LinkHandler(tree, p, q, cur, junk)
  <2>1. cur \in Inode /\ p \in Path /\ q \in Path
    BY <1>1
  <2>2. Moves(tree, r.tree)
    BY <2>1, LinkAdds, AddsMove
  <2> QED
    BY <1>4, <2>2, HandledMoves DEF Link
<1>5. ASSUME NEW d \in Dirs(tree), NEW n \in Sizes, Grow(d, n)
      PROVE  Moves(tree, tree') /\ up' \in BOOLEAN
  <2> DEFINE m == Len(tree.ents[d])
             l == n - m
             yes == TRUE
  <2>1. d \in Inode /\ n \in Nat
    BY ParametersAre DEF Dirs
  <2>2. m \in Nat
    BY <2>1, EntriesAre DEF Sound
  <2>3. l \in Nat /\ m \in Int /\ m >= Len(tree.ents[d])
    <3>1. m < n
      BY <1>5 DEF Grow
    <3> HIDE DEF m
    <3>2. l \in Nat /\ m \in Int /\ m >= m
      BY <2>1, <2>2, <3>1
    <3> QED
      BY <3>2 DEF m
  <2> HIDE DEF m, l, yes
  <2> DEFINE r == WriteHandler(tree, d, m, l, yes, yes)
  <2>4. /\ Sound(r.tree) /\ OneCleared(tree, r.tree)
        /\ r.tree.type = tree.type /\ r.tree.target = tree.target
    BY <2>1, <2>3, WriteSound
  <2>5. Moves(tree, r.tree)
    <3> HIDE DEF r
    <3> QED
      BY <2>4 DEF Moves, Targets
  <2> QED
    BY <1>5, <2>5, HandledMoves DEF Grow, m, l, yes
<1>6. ASSUME Restart
      PROVE  Moves(tree, tree') /\ up' \in BOOLEAN
  <2>1. tree' = tree /\ up' \in BOOLEAN
    BY <1>6, BootIs DEF Restart
  <2> QED
    BY <2>1, MovesNot
<1> QED
  BY <1>2, <1>3, <1>4, <1>5, <1>6 DEF Next

-----------------------------------------------------------------------------
(* The invariant.                                                          *)

IInv == Sound(tree) /\ up \in BOOLEAN

\* Every handler leaves a sound tree.
THEOREM Invariance ==
  ASSUME SoundImages, NamedPaths
  PROVE  Spec => []IInv
<1>1. Init => IInv
  BY DEF Init, IInv, SoundImages
<1>2. IInv /\ [Next]_vars => IInv'
  <2> SUFFICES ASSUME IInv, [Next]_vars PROVE IInv'
    OBVIOUS
  <2>1. CASE Next
    <3>1. Moves(tree, tree') /\ up' \in BOOLEAN
      BY <2>1, NextMoves DEF IInv
    <3> QED
      BY <3>1 DEF IInv, Moves
  <2>2. CASE UNCHANGED vars
    BY <2>2 DEF IInv, vars
  <2> QED
    BY <2>1, <2>2
<1> QED
  BY <1>1, <1>2, PTL DEF Spec

\* The disk of mkyfs is sound, whatever its number of inodes.
THEOREM MkyfsIsSound == Sound(Mkyfs)
<1> DEFINE t == Mkyfs
           es == << [inum |-> ROOTINODE, name |-> "."], [inum |-> ROOTINODE, name |-> ".."] >>
<1>1. /\ t.type = [i \in Inode |-> IF i = 0 THEN FS_HEADER
                                   ELSE IF i = ROOTINODE THEN INODE_DIRECTORY ELSE INODE_FREE]
      /\ t.nlink = [i \in Inode |-> IF i = ROOTINODE THEN 2 ELSE 0]
      /\ t.ents = [i \in Inode |-> IF i # ROOTINODE THEN << >> ELSE es]
      /\ t.used = {0, ROOTINODE}
  BY DEF Mkyfs
<1>2. t \in TreeType
  <2>1. /\ FS_HEADER \in Type /\ INODE_DIRECTORY \in Type /\ INODE_FREE \in Type
        /\ NoPath \in Path
    BY DEF Type, FS_HEADER, INODE_DIRECTORY, INODE_FREE, NoPath, Path
  <2>2. 0 \in 0 .. REUSES - 1 /\ (1 % REUSES) \in 0 .. REUSES - 1
    BY Bounds
  <2>3. es \in Seq(Entry) /\ << >> \in Seq(Entry)
    <3>1. "." \in AnyName /\ ".." \in AnyName
      BY DEF AnyName
    <3>2. es[1] \in Entry /\ es[2] \in Entry
      BY <3>1, InodesAre DEF Entry
    <3> QED
      BY <3>1, InodesAre DEF Entry
  <2> HIDE DEF es
  <2>4. /\ t.target = [i \in Inode |-> NoPath]
        /\ t.reuse = [i \in Inode |-> IF i = ROOTINODE THEN 1 % REUSES ELSE 0]
        /\ t = Tree(t.type, t.nlink, t.reuse, t.target, t.ents, t.used)
    BY DEF Mkyfs, Tree
  <2> HIDE DEF t
  <2>5. /\ t.type \in [Inode -> Type] /\ t.nlink \in [Inode -> Int]
        /\ t.target \in [Inode -> Path] /\ t.ents \in [Inode -> Seq(Entry)]
        /\ t.used \in SUBSET Inode
    BY <1>1, <2>1, <2>3, <2>4, InodesAre
  <2>6. t.reuse \in [Inode -> 0 .. REUSES - 1]
    BY <2>2, <2>4
  <2> QED
    BY <2>4, <2>5, <2>6 DEF Tree, TreeType
<1>3. /\ \A i \in Inode \ {ROOTINODE} : t.ents[i] = << >> /\ t.nlink[i] = 0
      /\ t.ents[ROOTINODE] = es /\ t.nlink[ROOTINODE] = 2
      /\ DOMAIN es = {1, 2} /\ es[1].inum = ROOTINODE /\ es[2].inum = ROOTINODE
      /\ t.type[0] = FS_HEADER /\ t.type[ROOTINODE] = INODE_DIRECTORY
      /\ \A i \in Inode \ {0, ROOTINODE} : t.type[i] = INODE_FREE
  <2>1. DOMAIN es = {1, 2} /\ es[1].inum = ROOTINODE /\ es[2].inum = ROOTINODE
    BY DEF ROOTINODE
  <2> HIDE DEF es, t
  <2> QED
    BY <1>1, <2>1, InodesAre
<1> HIDE DEF t, es
<1>4. Placed(t)
  <2>1. ASSUME NEW d \in Inode, NEW k \in DOMAIN t.ents[d]
        PROVE  /\ t.ents[d][k].inum # 0 => t.type[d] = INODE_DIRECTORY
               /\ t.ents[d][k].inum = 0 => t.ents[d][k].name = ""
    <3>1. d = ROOTINODE
      BY <1>3
    <3> QED
      BY <1>3, <3>1, InodesAre
  <2> QED
    BY <2>1 DEF Placed
<1>5. Covered(t)
  <2>1. ASSUME NEW i \in Inode \ {0} PROVE Cardinality(Links(t, i)) <= t.nlink[i]
    <3>1. CASE i = ROOTINODE
      <4> DEFINE x == <<ROOTINODE, 1>>
                 y == <<ROOTINODE, 2>>
      <4>1. Links(t, i) \subseteq {x, y}
        BY <1>2, <1>3, LinksAre
      <4> HIDE DEF x, y
      <4>2. IsFiniteSet({x}) /\ Cardinality({x}) = 1
        BY FS_Singleton
      <4>3. /\ IsFiniteSet({x} \union {y})
            /\ Cardinality({x} \union {y}) = IF y \in {x} THEN 1 ELSE 1 + 1
        BY <4>2, FS_AddElement
      <4>4. {x, y} = {x} \union {y}
        OBVIOUS
      <4>5. Cardinality(Links(t, i)) <= Cardinality({x, y})
        BY <4>1, <4>3, <4>4, FS_Subset
      <4>6. Cardinality(Links(t, i)) \in Nat
        BY <1>2, LinksAre
      <4>7. Cardinality({x, y}) \in {1, 2}
        BY <4>3, <4>4
      <4>8. t.nlink[i] = 2
        BY <1>3, <3>1
      <4> QED
        BY <4>5, <4>6, <4>7, <4>8
    <3>2. CASE i # ROOTINODE
      <4>1. Links(t, i) = {}
        BY <1>2, <1>3, <3>2, LinksAre
      <4> QED
        BY <1>3, <3>2, <4>1, FS_EmptySet
    <3> QED
      BY <3>1, <3>2
  <2> QED
    BY <2>1 DEF Covered
<1>6. t.used = {0} \union Allocated(t)
  BY <1>1, <1>3, InodesAre DEF Allocated, INODE_FREE, INODE_DIRECTORY
<1>7. \A i \in Inode : t.type[i] = INODE_FREE => t.nlink[i] = 0 /\ t.ents[i] = << >>
  BY <1>3 DEF INODE_FREE, INODE_DIRECTORY
<1> QED
  BY <1>2, <1>3, <1>4, <1>5, <1>6, <1>7 DEF Sound, t

\* The tree keeps its type; the root stays a directory, the header is not freed,
\* and a free inode holds nothing.
THEOREM TreeKeepsType ==
  ASSUME SoundImages, NamedPaths
  PROVE  Spec => []TypeOK
<1>1. IInv => TypeOK
  BY DEF IInv, Sound, TypeOK
<1> QED
  BY <1>1, Invariance, PTL

\* nlink is never below the number of entries, so Unlink frees no inode that a
\* name still leads to.
THEOREM LinksStayCovered ==
  ASSUME SoundImages, NamedPaths
  PROVE  Spec => []LinksCovered
<1>1. IInv => LinksCovered
  BY DEF IInv, Sound, Covered, LinksCovered, Allocated
<1> QED
  BY <1>1, Invariance, PTL

\* No entry names a free inode, nor one that was used again for another file.
THEOREM EntriesLeadToInodes ==
  ASSUME SoundImages, NamedPaths
  PROVE  Spec => []NoDangling
<1>1. IInv => NoDangling
  <2> SUFFICES ASSUME IInv PROVE NoDangling
    OBVIOUS
  <2>1. Sound(tree) /\ tree \in TreeType
    BY DEF IInv, Sound
  <2>2. ASSUME NEW d \in Inode, NEW k \in DOMAIN tree.ents[d], tree.ents[d][k].inum # 0,
               tree.type[tree.ents[d][k].inum] = INODE_FREE
        PROVE  FALSE
    <3> DEFINE i == tree.ents[d][k].inum
    <3>1. i \in Inode \ {0}
      BY <2>1, <2>2, EntriesAre
    <3>2. <<d, k>> \in Links(tree, i)
      BY <2>1, LinksAre
    <3>3. tree.type[i] = INODE_FREE
      BY <2>2
    <3> HIDE DEF i
    <3> QED
      BY <2>1, <3>1, <3>2, <3>3, FreeHasNoEntry
  <2> QED
    BY <2>2 DEF NoDangling
<1> QED
  BY <1>1, Invariance, PTL

\* The bitmap has the inodes in use and no other: none is handed out twice or
\* lost.
THEOREM BitmapIsRight ==
  ASSUME SoundImages, NamedPaths
  PROVE  Spec => []InodesMarked
<1>1. IInv => InodesMarked
  BY DEF IInv, Sound, InodesMarked
<1> QED
  BY <1>1, Invariance, PTL

\* A path through an absolute link is the path with the target in its place.
THEOREM LinksAreTransparent ==
  ASSUME SoundImages, NamedPaths
  PROVE  Spec => []LinksTransparent
<1>1. IInv => LinksTransparent
  <2> SUFFICES ASSUME IInv PROVE LinksTransparent
    OBVIOUS
  <2>1. tree \in TreeType
    BY DEF IInv, Sound
  <2> SUFFICES ASSUME NEW l \in Name, NEW n \in Name, NEW i, i = findInumInDir(tree, ROOTINODE, l),
                      i > 0, tree.type[i] = INODE_SYMLINK, tree.target[i].abs
               PROVE  resolvePath(tree, [abs |-> TRUE, names |-> <<l, n>>], ROOTINODE)
                        \in {resolvePath(tree, [tree.target[i] EXCEPT !.names = Append(@, n)], ROOTINODE), ERROR}
    BY DEF LinksTransparent
  <2>2. i \in Inode
    BY <2>1, InodesAre, FindIs DEF ERROR
  <2>3. l \in AnyName /\ n \in AnyName
    BY DEF AnyName
  <2>4. [tree.target[i] EXCEPT !.names = Append(@, n)]
          = [abs |-> TRUE, names |-> Append(tree.target[i].names, n)]
    <3>1. tree.target[i] \in [abs : BOOLEAN, names : Seq(AnyName)]
      BY <2>1, <2>2, FieldsIn DEF Path
    <3>2. PICK a, ns : tree.target[i] = [abs |-> a, names |-> ns]
      BY <3>1
    <3>3. a = tree.target[i].abs /\ ns = tree.target[i].names
      BY <3>2
    <3>4. [[abs |-> a, names |-> ns] EXCEPT !.names = Append(@, n)] = [abs |-> a, names |-> Append(ns, n)]
      OBVIOUS
    <3>5. a = TRUE
      BY <2>1, <3>3, FieldsIn, <3>1
    <3> QED
      BY <3>2, <3>3, <3>4, <3>5
  <2> DEFINE via    == [abs |-> TRUE, names |-> <<l, n>>]
             direct == [abs |-> TRUE, names |-> Append(tree.target[i].names, n)]
  <2>5. resolvePath(tree, via, ROOTINODE) \in {resolvePath(tree, direct, ROOTINODE), ERROR}
    BY <2>1, <2>2, <2>3, LinkIsTarget
  <2> QED
    BY <2>4, <2>5
<1> QED
  BY <1>1, Invariance, PTL

\* Of the entries of a directory only the last can be overwritten; another one
\* goes with an Unlink that takes its link back.
THEOREM OnlyLastEntryIsLost ==
  ASSUME SoundImages, NamedPaths
  PROVE  Spec => OnlyLastIsLost
<1>1. IInv /\ [Next]_vars =>
        [\A d \in Inode : \A k \in 1 .. Len(tree.ents[d]) - 1 :
           LET e == tree.ents[d][k]
           IN  e.inum # 0 /\ tree'.ents[d][k] # e =>
                 /\ tree'.ents[d][k] = Unused
                 /\ tree.type[e.inum] # INODE_DIRECTORY
                 /\ \/ tree'.nlink[e.inum] = tree.nlink[e.inum] - 1
                    \/ tree'.type[e.inum] = INODE_FREE]_vars
  BY NextMoves DEF IInv, Moves, OneCleared
<1> QED
  BY <1>1, Invariance, PTL DEF Spec, OnlyLastIsLost

-----------------------------------------------------------------------------
(* Looking up the name that is to be linked.                               *)

\* No symbolic link has a target, as SymLink leaves them.
Untargeted(t) == \A i \in Inode : t.target[i] = NoPath

\* Walk u has one name more behind those of s.
OneNameMore(u, s, n) == u.dir = s.dir /\ u.links = s.links /\ u.names = Append(s.names, n)

\* A step of both keeps them so, unless the shorter one ends at a link.
LEMMA StepsOneNameMore ==
  ASSUME NEW t \in TreeType, Untargeted(t), NEW n \in AnyName,
         NEW s \in Walk, NEW u \in Walk, OneNameMore(u, s, n), ~ Over(s),
         NEW a, a = StepPath(t, s)
  PROVE  \/ a.dir < 0
         \/ a.names = << >> /\ a.dir \in Inode /\ t.type[a.dir] = INODE_SYMLINK
         \/ OneNameMore(StepPath(t, u), a, n)
<1> DEFINE i    == findInumInDir(t, s.dir, Head(s.names))
           rest == Tail(s.names)
<1>1. /\ s = [dir |-> s.dir, names |-> s.names, links |-> s.links]
      /\ s.names \in Seq(AnyName) /\ s.names # << >> /\ s.dir \in Inode
      /\ u = [dir |-> s.dir, names |-> Append(s.names, n), links |-> s.links]
  BY DEF Walk, OneNameMore, Over, ERROR, LOST
<1>2. /\ i = findInumInDir(t, u.dir, Head(u.names)) /\ Tail(u.names) = Append(rest, n)
      /\ rest \in Seq(AnyName) /\ u.links = s.links
  <2>1. Head(Append(s.names, n)) = Head(s.names) /\ Tail(Append(s.names, n)) = Append(Tail(s.names), n)
    BY <1>1
  <2> QED
    BY <1>1, <2>1
<1>3. i \in Inode \union {ERROR}
  BY <1>1, FindIs
<1> HIDE DEF i, rest
<1>4. CASE i = ERROR \/ t.type[i] = INODE_FREE
  <2>1. a = [s EXCEPT !.dir = ERROR] \/ a = [s EXCEPT !.dir = LOST]
    BY <1>4, Zenon DEF StepPath, i
  <2> QED
    BY <1>1, <2>1 DEF ERROR, LOST
<1>5. CASE i # ERROR /\ t.type[i] # INODE_FREE /\ t.type[i] # INODE_SYMLINK
  <2>1. StepPath(t, u) = [u EXCEPT !.dir = i, !.names = Append(rest, n)]
    BY <1>2, <1>5 DEF StepPath
  <2>2. a = [s EXCEPT !.dir = i, !.names = rest]
    BY <1>5 DEF StepPath, i, rest
  <2> QED
    BY <1>1, <2>1, <2>2 DEF OneNameMore
<1>6. CASE i # ERROR /\ t.type[i] # INODE_FREE /\ t.type[i] = INODE_SYMLINK /\ s.links >= MAXSYMLINKS
  <2>1. a = [s EXCEPT !.dir = ERROR]
    BY <1>6 DEF StepPath, i
  <2> QED
    BY <1>1, <2>1 DEF ERROR
<1>7. CASE i # ERROR /\ t.type[i] # INODE_FREE /\ t.type[i] = INODE_SYMLINK /\ ~ (s.links >= MAXSYMLINKS)
  <2>1. t.target[i] = NoPath /\ NoPath.abs = FALSE /\ NoPath.names = << >>
    BY <1>3, <1>7 DEF Untargeted, NoPath
  <2>2. a = [dir |-> IF rest # << >> THEN ROOTINODE ELSE i, names |-> << >> \o rest, links |-> s.links + 1]
    BY <1>7, <2>1 DEF StepPath, i, rest
  <2>3. << >> \o rest = rest /\ << >> \o Append(rest, n) = Append(rest, n) /\ Append(rest, n) # << >>
    BY <1>2
  <2>4. StepPath(t, u) = [dir |-> ROOTINODE, names |-> Append(rest, n), links |-> s.links + 1]
    BY <1>2, <1>7, <2>1, <2>3 DEF StepPath
  <2>5. CASE rest = << >>
    BY <1>3, <1>7, <2>2, <2>3, <2>5
  <2>6. CASE rest # << >>
    BY <2>2, <2>3, <2>4, <2>6 DEF OneNameMore
  <2> QED
    BY <2>5, <2>6
<1> QED
  BY <1>4, <1>5, <1>6, <1>7

\* When the walk to a directory goes on by one name and finds nothing, then the
\* name is not in that directory.
LEMMA WalksOneNameMore ==
  ASSUME NEW t \in TreeType, Untargeted(t), NEW f, IsWalk(t, f), NEW n \in AnyName,
         NEW s \in Walk, NEW u \in Walk, OneNameMore(u, s, n),
         f[u] = 0, f[s] \in Inode, t.type[f[s]] = INODE_DIRECTORY
  PROVE  findInumInDir(t, f[s], n) = 0
<1> DEFINE Misses(v) == /\ f[v] \in Inode /\ t.type[f[v]] = INODE_DIRECTORY
                        /\ findInumInDir(t, f[v], n) # 0
                        /\ \E w \in Walk : OneNameMore(w, v, n) /\ f[w] = 0
           S == {v \in Walk : Misses(v)}
<1>1. /\ \A x \in Walk : Over(x) => f[x] = x.dir
      /\ \A x \in Walk : ~ Over(x) => f[x] = f[StepPath(t, x)]
  BY DEF IsWalk, Over
<1>2. ASSUME NEW v \in Walk, Misses(v) PROVE ~ Over(v)
  <2> SUFFICES ASSUME Over(v) PROVE FALSE
    OBVIOUS
  <2>1. PICK w \in Walk : OneNameMore(w, v, n) /\ f[w] = 0
    BY <1>2
  <2> DEFINE i == findInumInDir(t, v.dir, n)
  <2>2. f[v] = v.dir /\ v.dir \in Inode /\ v.names = << >> /\ i # 0
    BY <1>1, <1>2, InodesAre DEF Over
  <2>3. /\ w = [dir |-> v.dir, names |-> <<n>>, links |-> v.links]
        /\ Head(w.names) = n /\ Tail(w.names) = << >> /\ ~ Over(w)
    <3>1. w = [dir |-> w.dir, names |-> w.names, links |-> w.links]
      BY DEF Walk
    <3>2. w.dir = v.dir /\ w.links = v.links /\ w.names = <<n>> /\ v.dir >= 0 /\ v.dir \in Int
      BY <2>1, <2>2, InodesAre DEF OneNameMore
    <3>3. Head(<<n>>) = n /\ Tail(<<n>>) = << >> /\ <<n>> # << >>
      OBVIOUS
    <3>4. w = [dir |-> v.dir, names |-> <<n>>, links |-> v.links]
      BY <3>1, <3>2
    <3>5. ~ Over(w)
      BY <3>2, <3>3 DEF Over
    <3> QED
      BY <3>2, <3>3, <3>4, <3>5
  <2>4. i \in Inode \union {ERROR}
    BY <2>2, FindIs
  <2> DEFINE b == StepPath(t, w)
  <2>5. b \in Walk /\ f[b] = 0
    BY <1>1, <2>1, <2>3, StepIsNearer
  <2>6. \/ b = [w EXCEPT !.dir = ERROR] \/ b = [w EXCEPT !.dir = LOST]
        \/ b = [[w EXCEPT !.dir = i] EXCEPT !.names = << >>]
        \/ b = [dir |-> i, names |-> << >> \o << >>, links |-> w.links + 1]
    <3>1. i # ERROR => t.target[i] = NoPath
      BY <2>4 DEF Untargeted
    <3>2. i = findInumInDir(t, w.dir, Head(w.names))
      BY <2>3
    <3> HIDE DEF i
    <3> QED
      BY <2>3, <2>4, <3>1, <3>2 DEF StepPath, NoPath
  <2> HIDE DEF i, b
  <2>7. Over(b) /\ b.dir # 0
    <3>1. CASE b = [w EXCEPT !.dir = ERROR] \/ b = [w EXCEPT !.dir = LOST]
      <4>1. b.dir \in {ERROR, LOST}
        BY <2>3, <3>1
      <4> QED
        BY <4>1 DEF Over, ERROR, LOST
    <3>2. CASE b = [[w EXCEPT !.dir = i] EXCEPT !.names = << >>]
      <4>1. [w EXCEPT !.dir = i] = [dir |-> i, names |-> <<n>>, links |-> v.links]
        BY <2>3
      <4>2. b.dir = i /\ b.names = << >>
        BY <3>2, <4>1
      <4> QED
        BY <2>2, <4>2 DEF Over
    <3>3. CASE b = [dir |-> i, names |-> << >> \o << >>, links |-> w.links + 1]
      BY <2>2, <3>3 DEF Over
    <3> QED
      BY <2>6, <3>1, <3>2, <3>3
  <2> QED
    BY <1>1, <2>5, <2>7
<1>3. ASSUME S # {} PROVE FALSE
  <2>1. S \subseteq Walk
    OBVIOUS
  <2>2. PICK v \in S : \A x \in S : ~ Nearer(x, v)
    <3> HIDE DEF S
    <3> QED
      BY <1>3, <2>1, NearestWalk
  <2>3. v \in Walk /\ ~ Over(v)
    BY <1>2
  <2>4. PICK w \in Walk : OneNameMore(w, v, n) /\ f[w] = 0
    OBVIOUS
  <2>5. ~ Over(w)
    <3> HIDE DEF S
    <3>1. v.names \in Seq(AnyName)
      BY <2>3 DEF Walk
    <3>2. Append(v.names, n) # << >>
      BY <3>1
    <3> QED
      BY <2>3, <2>4, <3>2 DEF OneNameMore, Over
  <2>6. PICK a : a = StepPath(t, v)
    OBVIOUS
  <2>7. PICK b : b = StepPath(t, w)
    OBVIOUS
  <2>8. /\ a \in Walk /\ (Over(a) \/ Nearer(a, v)) /\ b \in Walk
        /\ f[v] = f[a] /\ f[b] = 0
    BY <1>1, <2>3, <2>4, <2>5, <2>6, <2>7, StepIsNearer
  <2>9. f[a] \in Inode /\ t.type[f[a]] = INODE_DIRECTORY /\ findInumInDir(t, f[a], n) # 0
    BY <2>8
  <2>10. OneNameMore(b, a, n)
    <3>1. ~ (a.dir < 0)
      BY <1>1, <2>8, <2>9, InodesAre DEF Over
    <3>2. ~ (a.names = << >> /\ a.dir \in Inode /\ t.type[a.dir] = INODE_SYMLINK)
      BY <1>1, <2>8, <2>9 DEF Over, INODE_SYMLINK, INODE_DIRECTORY
    <3> QED
      BY <2>3, <2>4, <2>6, <2>7, <3>1, <3>2, StepsOneNameMore
  <2>11. Misses(a)
    BY <2>8, <2>9, <2>10
  <2>12. ~ Over(a) /\ a \in S
    BY <1>2, <2>8, <2>11
  <2> QED
    BY <2>2, <2>8, <2>12
<1> HIDE DEF Misses
<1>4. ~ Misses(s)
  BY <1>3
<1> QED
  BY <1>4 DEF Misses

LEMMA AppendFront ==
  ASSUME NEW S, NEW q \in Seq(S), q # << >>
  PROVE  Append(Front(q), Last(q)) = q /\ Last(q) \in S
<1>1. Len(q) \in Nat /\ Len(q) > 0
  OBVIOUS
<1>2. Front(q) \in Seq(S) /\ Len(Front(q)) = Len(q) - 1 /\ \A k \in 1 .. Len(q) - 1 : Front(q)[k] = q[k]
  <2> DEFINE m == Len(q) - 1
  <2>1. m \in Nat /\ m <= Len(q)
    BY <1>1
  <2>2. Front(q) = SubSeq(q, 1, m)
    BY DEF Front
  <2> HIDE DEF m
  <2>3. Front(q) \in Seq(S)
    BY <2>1, <2>2
  <2>4. Len(Front(q)) = m /\ \A k \in 1 .. m : Front(q)[k] = q[k]
    BY <2>1, <2>2
  <2> QED
    BY <2>3, <2>4 DEF m
<1>3. Last(q) = q[Len(q)] /\ Last(q) \in S
  BY <1>1 DEF Last
<1> DEFINE a == Append(Front(q), Last(q))
<1>4. a \in Seq(S) /\ Len(a) = Len(q)
  BY <1>1, <1>2, <1>3
<1>5. \A k \in 1 .. Len(q) : a[k] = q[k]
  BY <1>1, <1>2, <1>3
<1> HIDE DEF a
<1>6. a = q
  BY <1>1, <1>4, <1>5
<1> QED
  BY <1>3, <1>6 DEF a

\* Link looks a name up with resolvePath; if that finds nothing, the directory
\* the name goes into does not have it.
LEMMA LinkLooks ==
  ASSUME NEW t \in TreeType, Untargeted(t), NEW q \in Path, NEW cur \in Inode,
         getFilename(q) # "", resolvePath(t, q, cur) = 0,
         NEW d \in Inode, d = getParentInum(t, q, cur), t.type[d] = INODE_DIRECTORY
  PROVE  findInumInDir(t, d, getFilename(q)) = 0
<1> DEFINE n == Last(q.names)
           p == ParentPath(q)
<1>1. PICK f : IsWalk(t, f) /\ \A x, y : resolvePath(t, x, y) = f[Start(x, y)]
  BY ResolveIsWalk
<1>2. q.names # << >> /\ getFilename(q) = n /\ q = [abs |-> q.abs, names |-> q.names]
      /\ q.names \in Seq(AnyName)
  BY DEF getFilename, Path
<1>3. p.abs = q.abs /\ p.names = Front(q.names)
  <2>1. p = [q EXCEPT !.names = Front(q.names)]
    BY <1>2 DEF ParentPath
  <2>2. q \in [abs : BOOLEAN, names : Seq(AnyName)]
    BY DEF Path
  <2> HIDE DEF p
  <2> QED
    BY <2>1, <2>2
<1>4. Append(Front(q.names), n) = q.names /\ n \in AnyName
  BY <1>2, AppendFront
<1>5. d = resolvePath(t, p, cur)
  BY InodesAre DEF getParentInum
<1>6. Start(p, cur) \in Walk /\ Start(q, cur) \in Walk
  BY ParentIsPath, StartIsWalk
<1>7. OneNameMore(Start(q, cur), Start(p, cur), n)
  <2> HIDE DEF n, p
  <2> QED
    BY <1>3, <1>4 DEF OneNameMore, Start
<1> HIDE DEF n, p
<1>8. f[Start(p, cur)] = d /\ f[Start(q, cur)] = 0
  BY <1>1, <1>5
<1>9. findInumInDir(t, f[Start(p, cur)], n) = 0
  BY <1>1, <1>4, <1>6, <1>7, <1>8, WalksOneNameMore
<1> QED
  BY <1>2, <1>8, <1>9

-----------------------------------------------------------------------------
(* The slots of a directory that are in use, and what its names lead to.   *)

Label == AnyName \ {""}

Used(t, d) == {k \in DOMAIN t.ents[d] : t.ents[d][k].inum # 0}

\* No name is in two of them.
Unique(t) ==
  \A d \in Inode : \A k, l \in Used(t, d) : t.ents[d][k].name = t.ents[d][l].name => k = l

\* That is the property of the runs.
LEMMA UniqueIs ==
  ASSUME Unique(tree)
  PROVE  NamesUnique
BY DEF Unique, Used, NamesUnique

LEMMA UsedAre ==
  ASSUME NEW t, Sound(t), NEW d \in Inode, NEW k \in Used(t, d)
  PROVE  /\ k \in DOMAIN t.ents[d] /\ t.ents[d][k] \in Entry
         /\ t.ents[d][k].inum \in Inode \ {0} /\ t.ents[d][k].name \in AnyName
         /\ t.type[d] = INODE_DIRECTORY /\ t.type[t.ents[d][k].inum] # INODE_FREE
<1>1. t \in TreeType /\ k \in DOMAIN t.ents[d] /\ t.ents[d][k].inum # 0
  BY DEF Sound, Used
<1>2. PICK e : e = t.ents[d][k]
  OBVIOUS
<1>3. e \in Entry /\ e.inum \in Inode /\ e.name \in AnyName
  BY <1>1, <1>2, EntriesAre
<1>4. t.type[d] = INODE_DIRECTORY
  BY <1>1 DEF Sound, Placed
<1>5. <<d, k>> \in Links(t, e.inum)
  BY <1>1, <1>2, LinksAre
<1>6. t.type[e.inum] # INODE_FREE
  BY <1>1, <1>2, <1>3, <1>5, FreeHasNoEntry
<1> QED
  BY <1>1, <1>2, <1>3, <1>4, <1>6

\* findInumInDir answers with an entry of the name, or there is none.
LEMMA FindSlot ==
  ASSUME NEW t \in TreeType, NEW d \in Inode, t.type[d] # INODE_FREE, NEW n,
         NEW i, i = findInumInDir(t, d, n)
  PROVE  \/ i = 0 /\ \A k \in DOMAIN t.ents[d] : t.ents[d][k].name # n
         \/ \E k \in DOMAIN t.ents[d] : t.ents[d][k].name = n /\ t.ents[d][k].inum = i
<1> DEFINE es == t.ents[d]
           K  == {k \in 1 .. Len(es) : es[k].name = n}
<1>1. /\ Len(es) \in Nat /\ DOMAIN es = 1 .. Len(es)
  BY EntriesAre
<1>2. CASE K = {}
  <2>1. i = 0
    BY <1>2 DEF findInumInDir, SelectInSeq
  <2> QED
    BY <1>1, <1>2, <2>1
<1>3. CASE K # {}
  <2>1. Min(K) \in K
    <3>1. K \subseteq Nat
      BY <1>1
    <3> HIDE DEF K
    <3> QED
      BY <1>3, <3>1, MinIs
  <2>2. i = es[Min(K)].inum
    BY <1>3, <2>1 DEF findInumInDir, SelectInSeq
  <2> QED
    BY <1>1, <2>1, <2>2
<1> QED
  BY <1>2, <1>3

\* What a name leads to in d.
Bound(t, d, n) == IF t.type[d] = INODE_FREE THEN 0 ELSE findInumInDir(t, d, n)

LEMMA BoundIs ==
  ASSUME NEW t, Sound(t), Unique(t), NEW d \in Inode, NEW n \in Label
  PROVE  /\ \A k \in Used(t, d) : t.ents[d][k].name = n => Bound(t, d, n) = t.ents[d][k].inum
         /\ (\A k \in Used(t, d) : t.ents[d][k].name # n) => Bound(t, d, n) = 0
<1>1. t \in TreeType
  BY DEF Sound
<1>2. CASE t.type[d] = INODE_FREE
  <2>1. ASSUME NEW k \in Used(t, d) PROVE FALSE
    <3>1. t.type[d] = INODE_DIRECTORY
      BY UsedAre
    <3> QED
      BY <1>2, <3>1 DEF INODE_FREE, INODE_DIRECTORY
  <2> QED
    BY <1>2, <2>1 DEF Bound
<1>3. CASE t.type[d] # INODE_FREE
  <2>1. PICK i : i = findInumInDir(t, d, n)
    OBVIOUS
  <2>2. Bound(t, d, n) = i
    BY <1>3, <2>1 DEF Bound
  <2>3. CASE i = 0 /\ \A k \in DOMAIN t.ents[d] : t.ents[d][k].name # n
    BY <2>2, <2>3 DEF Used
  <2>4. CASE \E k \in DOMAIN t.ents[d] : t.ents[d][k].name = n /\ t.ents[d][k].inum = i
    <3>1. PICK k \in DOMAIN t.ents[d] : t.ents[d][k].name = n /\ t.ents[d][k].inum = i
      BY <2>4
    <3>2. i # 0
      BY <3>1 DEF Sound, Placed, Label
    <3>3. k \in Used(t, d)
      BY <3>1, <3>2 DEF Used
    <3>4. \A l \in Used(t, d) : t.ents[d][l].name = n => l = k
      BY <3>1, <3>3 DEF Unique
    <3> QED
      BY <2>2, <3>1, <3>3, <3>4
  <2>5. \/ i = 0 /\ \A k \in DOMAIN t.ents[d] : t.ents[d][k].name # n
        \/ \E k \in DOMAIN t.ents[d] : t.ents[d][k].name = n /\ t.ents[d][k].inum = i
    BY <1>1, <1>3, <2>1, FindSlot
  <2> QED
    BY <2>3, <2>4, <2>5
<1> QED
  BY <1>2, <1>3

\* Where findInumInDir finds nothing no slot in use has the name.
LEMMA FindNone ==
  ASSUME NEW t, Sound(t), NEW d \in Inode, NEW n \in Label, findInumInDir(t, d, n) = 0
  PROVE  \A k \in Used(t, d) : t.ents[d][k].name # n
<1>1. t \in TreeType
  BY DEF Sound
<1>2. t.type[d] # INODE_FREE
  <2>1. ASSUME t.type[d] = INODE_FREE PROVE findInumInDir(t, d, n) = ERROR
    BY <2>1 DEF findInumInDir
  <2> QED
    BY <2>1 DEF ERROR
<1>3. CASE \A k \in DOMAIN t.ents[d] : t.ents[d][k].name # n
  BY <1>3 DEF Used
<1>4. CASE \E k \in DOMAIN t.ents[d] : t.ents[d][k].name = n /\ t.ents[d][k].inum = 0
  BY <1>4 DEF Sound, Placed, Label
<1>5. PICK i : i = findInumInDir(t, d, n)
  OBVIOUS
<1>6. \/ i = 0 /\ \A k \in DOMAIN t.ents[d] : t.ents[d][k].name # n
      \/ \E k \in DOMAIN t.ents[d] : t.ents[d][k].name = n /\ t.ents[d][k].inum = i
  BY <1>1, <1>2, <1>5, FindSlot
<1>7. i = 0
  BY <1>5
<1> QED
  BY <1>3, <1>4, <1>6, <1>7

-----------------------------------------------------------------------------
(* What a request does to names.                                           *)

\* Directory x has its names as before.
SameNames(t, u, x) ==
  Used(u, x) = Used(t, x) /\ \A k \in Used(t, x) : u.ents[x][k] = t.ents[x][k]

\* In directory d, entry e, of a new name, is put in slot k.
NamePut(t, u, d, k, e) ==
  /\ \A x \in Inode \ {d} : SameNames(t, u, x)
  /\ t.type[d] = INODE_DIRECTORY
  /\ e \in Entry /\ e.inum # 0 /\ e.name \in Label
  /\ \A l \in Used(t, d) : t.ents[d][l].name # e.name
  /\ Used(u, d) = Used(t, d) \union {k} /\ u.ents[d][k] = e
  /\ \A l \in Used(t, d) \ {k} : u.ents[d][l] = t.ents[d][l]

\* In directory d, slot k is cleared.
NameGone(t, u, d, k) ==
  /\ \A x \in Inode \ {d} : SameNames(t, u, x)
  /\ k \in Used(t, d) /\ t.ents[d][k].name \in Label
  /\ Used(u, d) = Used(t, d) \ {k}
  /\ \A l \in Used(t, d) \ {k} : u.ents[d][l] = t.ents[d][l]

LEMMA EntsSame ==
  ASSUME NEW t, NEW u, NEW x, u.ents[x] = t.ents[x]
  PROVE  SameNames(t, u, x)
BY DEF SameNames, Used

\* Names stay unique.
LEMMA SameUnique ==
  ASSUME NEW t, Unique(t), NEW u, \A x \in Inode : SameNames(t, u, x)
  PROVE  Unique(u)
BY DEF Unique, SameNames

LEMMA PutUnique ==
  ASSUME NEW t, Unique(t), NEW u, NEW d \in Inode, NEW k, NEW e, NamePut(t, u, d, k, e)
  PROVE  Unique(u)
<1> SUFFICES ASSUME NEW x \in Inode, NEW l \in Used(u, x), NEW m \in Used(u, x),
                    u.ents[x][l].name = u.ents[x][m].name
             PROVE  l = m
  BY DEF Unique
<1>1. CASE x # d
  BY <1>1 DEF Unique, SameNames, NamePut
<1>2. CASE x = d
  BY <1>2 DEF Unique, NamePut
<1> QED
  BY <1>1, <1>2

LEMMA GoneUnique ==
  ASSUME NEW t, Unique(t), NEW u, NEW d \in Inode, NEW k, NameGone(t, u, d, k)
  PROVE  Unique(u)
<1> SUFFICES ASSUME NEW x \in Inode, NEW l \in Used(u, x), NEW m \in Used(u, x),
                    u.ents[x][l].name = u.ents[x][m].name
             PROVE  l = m
  BY DEF Unique
<1>1. CASE x # d
  BY <1>1 DEF Unique, SameNames, NameGone
<1>2. CASE x = d
  BY <1>2 DEF Unique, NameGone
<1> QED
  BY <1>1, <1>2

\* What names lead to before and after.
LEMMA SameBound ==
  ASSUME NEW t, Sound(t), Unique(t), NEW u, Sound(u), Unique(u),
         NEW x \in Inode, SameNames(t, u, x), NEW n \in Label
  PROVE  Bound(u, x, n) = Bound(t, x, n)
<1>1. CASE \A k \in Used(t, x) : t.ents[x][k].name # n
  <2>1. Bound(t, x, n) = 0
    BY <1>1, BoundIs
  <2>2. \A k \in Used(u, x) : u.ents[x][k].name # n
    BY <1>1 DEF SameNames
  <2> QED
    BY <2>1, <2>2, BoundIs
<1>2. CASE \E k \in Used(t, x) : t.ents[x][k].name = n
  <2>1. PICK k \in Used(t, x) : t.ents[x][k].name = n
    BY <1>2
  <2>2. k \in Used(u, x) /\ u.ents[x][k] = t.ents[x][k]
    BY DEF SameNames
  <2>3. Bound(t, x, n) = t.ents[x][k].inum
    BY <2>1, BoundIs
  <2>4. Bound(u, x, n) = u.ents[x][k].inum
    BY <2>1, <2>2, BoundIs
  <2> QED
    BY <2>2, <2>3, <2>4
<1> QED
  BY <1>1, <1>2

\* The new name leads to its inode; another name is lost at most.
LEMMA PutBound ==
  ASSUME NEW t, Sound(t), Unique(t), NEW u, Sound(u), Unique(u),
         NEW d \in Inode, NEW k, NEW e, NamePut(t, u, d, k, e)
  PROVE  /\ Bound(t, d, e.name) = 0 /\ Bound(u, d, e.name) = e.inum
         /\ k \in Used(t, d) =>
              /\ t.ents[d][k].name # e.name
              /\ t.ents[d][k].name \in Label => Bound(u, d, t.ents[d][k].name) = 0
         /\ \A n : n \in Label /\ n # e.name /\ (k \in Used(t, d) => n # t.ents[d][k].name)
                     => Bound(u, d, n) = Bound(t, d, n)
<1>1. /\ t.type[d] = INODE_DIRECTORY
      /\ e \in Entry /\ e.inum # 0 /\ e.name \in Label
      /\ \A l \in Used(t, d) : t.ents[d][l].name # e.name
      /\ Used(u, d) = Used(t, d) \union {k} /\ u.ents[d][k] = e
      /\ \A l \in Used(t, d) \ {k} : u.ents[d][l] = t.ents[d][l]
  BY DEF NamePut
<1>2. Bound(t, d, e.name) = 0
  BY <1>1, BoundIs
<1>3. Bound(u, d, e.name) = e.inum
  <2>1. k \in Used(u, d) /\ u.ents[d][k] = e /\ e.name \in Label
    BY <1>1
  <2>2. \A l \in Used(u, d) : u.ents[d][l].name = e.name => Bound(u, d, e.name) = u.ents[d][l].inum
    BY <2>1, BoundIs
  <2> QED
    BY <2>1, <2>2
<1>4. ASSUME k \in Used(t, d), t.ents[d][k].name \in Label
      PROVE  Bound(u, d, t.ents[d][k].name) = 0
  <2>1. \A l \in Used(t, d) : t.ents[d][l].name = t.ents[d][k].name => l = k
    BY <1>4 DEF Unique
  <2>2. \A l \in Used(u, d) : u.ents[d][l].name # t.ents[d][k].name
    BY <1>1, <1>4, <2>1
  <2> QED
    BY <1>4, <2>2, BoundIs
<1>5. ASSUME NEW n \in Label, n # e.name, k \in Used(t, d) => n # t.ents[d][k].name
      PROVE  Bound(u, d, n) = Bound(t, d, n)
  <2>1. CASE \A l \in Used(t, d) : t.ents[d][l].name # n
    <3>1. Bound(t, d, n) = 0
      BY <1>5, <2>1, BoundIs
    <3>2. \A l \in Used(u, d) : u.ents[d][l].name # n
      BY <1>1, <1>5, <2>1
    <3> QED
      BY <1>5, <3>1, <3>2, BoundIs
  <2>2. CASE \E l \in Used(t, d) : t.ents[d][l].name = n
    <3>1. PICK l \in Used(t, d) : t.ents[d][l].name = n
      BY <2>2
    <3>2. l # k
      BY <1>5, <3>1
    <3>3. l \in Used(u, d) /\ u.ents[d][l] = t.ents[d][l]
      BY <1>1, <3>2
    <3>4. Bound(t, d, n) = t.ents[d][l].inum
      BY <1>5, <3>1, BoundIs
    <3>5. Bound(u, d, n) = u.ents[d][l].inum
      BY <1>5, <3>1, <3>3, BoundIs
    <3> QED
      BY <3>3, <3>4, <3>5
  <2> QED
    BY <2>1, <2>2
<1> QED
  BY <1>1, <1>2, <1>3, <1>4, <1>5

\* The name leads nowhere, the others lead where they did.
LEMMA GoneBound ==
  ASSUME NEW t, Sound(t), Unique(t), NEW u, Sound(u), Unique(u),
         NEW d \in Inode, NEW k, NameGone(t, u, d, k),
         NEW m, m = t.ents[d][k].name
  PROVE  /\ Bound(t, d, m) = t.ents[d][k].inum /\ Bound(u, d, m) = 0
         /\ \A n : n \in Label /\ n # m => Bound(u, d, n) = Bound(t, d, n)
<1>1. /\ k \in Used(t, d) /\ m \in Label
      /\ Used(u, d) = Used(t, d) \ {k}
      /\ \A l \in Used(t, d) \ {k} : u.ents[d][l] = t.ents[d][l]
  BY DEF NameGone
<1>2. Bound(t, d, m) = t.ents[d][k].inum
  <2>1. \A l \in Used(t, d) : t.ents[d][l].name = m => Bound(t, d, m) = t.ents[d][l].inum
    BY <1>1, BoundIs
  <2> QED
    BY <1>1, <2>1
<1>3. Bound(u, d, m) = 0
  <2>1. \A l \in Used(t, d) : t.ents[d][l].name = m => l = k
    BY <1>1 DEF Unique
  <2>2. \A l \in Used(u, d) : u.ents[d][l].name # m
    BY <1>1, <2>1
  <2> QED
    BY <1>1, <2>2, BoundIs
<1>4. ASSUME NEW n \in Label, n # m
      PROVE  Bound(u, d, n) = Bound(t, d, n)
  <2>1. CASE \A l \in Used(t, d) : t.ents[d][l].name # n
    <3>1. Bound(t, d, n) = 0
      BY <1>4, <2>1, BoundIs
    <3>2. \A l \in Used(u, d) : u.ents[d][l].name # n
      BY <1>1, <2>1
    <3> QED
      BY <1>4, <3>1, <3>2, BoundIs
  <2>2. CASE \E l \in Used(t, d) : t.ents[d][l].name = n
    <3>1. PICK l \in Used(t, d) : t.ents[d][l].name = n
      BY <2>2
    <3>2. l # k
      BY <1>4, <3>1
    <3>3. l \in Used(u, d) /\ u.ents[d][l] = t.ents[d][l]
      BY <1>1, <3>2
    <3>4. Bound(t, d, n) = t.ents[d][l].inum
      BY <1>4, <3>1, BoundIs
    <3>5. Bound(u, d, n) = u.ents[d][l].inum
      BY <1>4, <3>1, <3>3, BoundIs
    <3> QED
      BY <3>3, <3>4, <3>5
  <2> QED
    BY <2>1, <2>2
<1> QED
  BY <1>2, <1>3, <1>4

-----------------------------------------------------------------------------
(* What a request changes: nothing that has to do with names; an inode is  *)
(* made, with a name or without; an inode gets one name more; a name goes, *)
(* and its inode with it or not.                                           *)

Resting(t, u) == \A x \in Inode : u.type[x] = t.type[x] /\ SameNames(t, u, x)

Making(t, u) ==
  \E i \in Inode \ {0} :
    /\ t.type[i] = INODE_FREE /\ u.type[i] # INODE_FREE
    /\ \A x \in Inode \ {i} : u.type[x] = t.type[x]
    /\ \/ \A x \in Inode : SameNames(t, u, x)
       \/ \E d \in Inode : \E k, e : NamePut(t, u, d, k, e) /\ e.inum = i

Naming(t, u) ==
  /\ \A x \in Inode : u.type[x] = t.type[x]
  /\ \E d \in Inode : \E k, e : NamePut(t, u, d, k, e) /\ t.type[e.inum] # INODE_FREE

Dropping(t, u) ==
  \E d \in Inode, i \in Inode : \E k :
    /\ NameGone(t, u, d, k) /\ i = t.ents[d][k].inum /\ t.type[i] # INODE_DIRECTORY
    /\ \A x \in Inode \ {i} : u.type[x] = t.type[x]
    /\ u.type[i] \in {t.type[i], INODE_FREE}

Changing(t, u) == Resting(t, u) \/ Making(t, u) \/ Naming(t, u) \/ Dropping(t, u)

LEMMA SameRests ==
  ASSUME NEW t, NEW u, \A x \in Inode : u.type[x] = t.type[x] /\ u.ents[x] = t.ents[x]
  PROVE  Resting(t, u)
BY EntsSame DEF Resting

\* The requests keep names unique.
LEMMA ChangingKeepsUnique ==
  ASSUME NEW t, Unique(t), NEW u, Changing(t, u)
  PROVE  Unique(u)
<1>1. CASE \A x \in Inode : SameNames(t, u, x)
  BY <1>1, SameUnique
<1>2. CASE \E d \in Inode : \E k, e : NamePut(t, u, d, k, e)
  BY <1>2, PutUnique
<1>3. CASE \E d \in Inode : \E k : NameGone(t, u, d, k)
  BY <1>3, GoneUnique
<1>4. Resting(t, u) => \A x \in Inode : SameNames(t, u, x)
  BY DEF Resting
<1>5. Making(t, u) => \/ \A x \in Inode : SameNames(t, u, x)
                      \/ \E d \in Inode : \E k, e : NamePut(t, u, d, k, e)
  BY DEF Making
<1>6. Naming(t, u) => \E d \in Inode : \E k, e : NamePut(t, u, d, k, e)
  BY DEF Naming
<1>7. Dropping(t, u) => \E d \in Inode : \E k : NameGone(t, u, d, k)
  BY DEF Dropping
<1> QED
  BY <1>1, <1>2, <1>3, <1>4, <1>5, <1>6, <1>7 DEF Changing

\* An entry is written into a slot.
LEMMA EnteredPuts ==
  ASSUME NEW t \in TreeType, NEW d \in Inode, t.type[d] = INODE_DIRECTORY,
         NEW k \in DOMAIN t.ents[d], NEW e \in Entry, e.inum # 0, e.name \in Label,
         \A l \in Used(t, d) : t.ents[d][l].name # e.name,
         NEW u, \A x \in Inode \ {d} : u.ents[x] = t.ents[x],
         DOMAIN u.ents[d] = DOMAIN t.ents[d], u.ents[d][k] = e,
         \A l \in DOMAIN t.ents[d] : l # k => u.ents[d][l] = t.ents[d][l]
  PROVE  NamePut(t, u, d, k, e)
<1>1. \A x \in Inode \ {d} : SameNames(t, u, x)
  BY EntsSame
<1>2. Used(u, d) = Used(t, d) \union {k}
  BY DEF Used
<1>3. \A l \in Used(t, d) \ {k} : u.ents[d][l] = t.ents[d][l]
  BY DEF Used
<1> QED
  BY <1>1, <1>2, <1>3 DEF NamePut

\* A slot is cleared.
LEMMA ClearedGoes ==
  ASSUME NEW t \in TreeType, NEW d \in Inode,
         NEW k \in Used(t, d), t.ents[d][k].name \in Label,
         NEW u, \A x \in Inode \ {d} : SameNames(t, u, x),
         DOMAIN u.ents[d] = DOMAIN t.ents[d], u.ents[d][k] = Unused,
         \A l \in DOMAIN t.ents[d] : l # k => u.ents[d][l] = t.ents[d][l]
  PROVE  NameGone(t, u, d, k)
<1>1. Unused.inum = 0
  BY DEF Unused
<1>2. Used(u, d) = Used(t, d) \ {k}
  BY <1>1 DEF Used
<1>3. \A l \in Used(t, d) \ {k} : u.ents[d][l] = t.ents[d][l]
  BY DEF Used
<1> QED
  BY <1>2, <1>3 DEF NameGone

\* addEntry: the name is put in, or nothing is stored.
LEMMA addEntryNames ==
  ASSUME NEW t, Sound(t), NEW d \in Inode, NEW e \in Entry, e.inum # 0, e.name \in Label,
         \A l \in Used(t, d) : t.ents[d][l].name # e.name,
         NEW junk, NEW a, a = addEntry(t, d, e, junk)
  PROVE  \/ a.tree.ents = t.ents
         \/ /\ t.ents[d] # << >> /\ t.type[e.inum] # INODE_FREE
            /\ \A x \in Inode \ {d} : a.tree.ents[x] = t.ents[x]
            /\ \E k : NamePut(t, a.tree, d, k, e)
<1>1. t \in TreeType /\ e.inum \in Inode
  BY DEF Sound, Entry
<1>2. CASE t.type[d] # INODE_DIRECTORY \/ t.type[e.inum] = INODE_FREE
  <2>1. a.tree = t
    BY <1>2 DEF addEntry, Reply
  <2> QED
    BY <2>1
<1>3. CASE t.type[d] = INODE_DIRECTORY /\ t.type[e.inum] # INODE_FREE /\ t.ents[d] # << >>
  <2> DEFINE k == Slot(t.ents[d])
  <2>1. a.tree = PutEntry(t, d, k, e)
    BY <1>3 DEF addEntry, Reply
  <2>2. k \in DOMAIN t.ents[d]
    BY <1>1, <1>3, EntriesAre, SlotIs
  <2> HIDE DEF k
  <2>3. Entered(t, a.tree, d, k, e)
    BY <1>3, <2>1, <2>2, PutSound
  <2>4. /\ \A x \in Inode \ {d} : a.tree.ents[x] = t.ents[x]
        /\ DOMAIN a.tree.ents[d] = DOMAIN t.ents[d]
        /\ a.tree.ents[d][k] = e
        /\ \A l \in DOMAIN t.ents[d] : l # k => a.tree.ents[d][l] = t.ents[d][l]
    BY <2>3 DEF Entered
  <2>5. NamePut(t, a.tree, d, k, e)
    BY <1>1, <1>3, <2>2, <2>4, EnteredPuts
  <2> QED
    BY <1>3, <2>4, <2>5
<1>4. CASE t.type[d] = INODE_DIRECTORY /\ t.type[e.inum] # INODE_FREE /\ t.ents[d] = << >>
  <2>1. a.tree = CountLink(t, e.inum)
    BY <1>4 DEF addEntry, Reply
  <2>2. a.tree.ents = t.ents
    BY <1>1, <1>4, <2>1, CountSound
  <2> QED
    BY <2>2
<1> QED
  BY <1>2, <1>3, <1>4

\* addEntry to a directory of size 0 stores nothing.
LEMMA addEntryStoresNothing ==
  ASSUME NEW t, Sound(t), NEW d \in Inode, NEW e \in Entry, e.inum # 0, t.ents[d] = << >>,
         NEW junk, NEW a, a = addEntry(t, d, e, junk)
  PROVE  Sound(a.tree) /\ a.tree.ents = t.ents /\ a.tree.type = t.type
<1>1. e.inum \in Inode
  BY DEF Entry
<1>2. CASE t.type[d] # INODE_DIRECTORY \/ t.type[e.inum] = INODE_FREE
  <2>1. a.tree = t
    BY <1>2 DEF addEntry, Reply
  <2> QED
    BY <2>1
<1>3. CASE ~ (t.type[d] # INODE_DIRECTORY \/ t.type[e.inum] = INODE_FREE)
  <2>1. a.tree = CountLink(t, e.inum)
    BY <1>3 DEF addEntry, Reply
  <2> QED
    BY <1>1, <1>3, <2>1, CountSound
<1> QED
  BY <1>2, <1>3

\* createFile makes an inode, with the name, or without one in a directory of
\* size 0; v is the tree it leaves or one with more links in it.
LEMMA createFileMakes ==
  ASSUME NEW t, Sound(t), NEW d \in Inode, NEW n \in Label, NEW junk,
         NEW ty \in {INODE_DIRECTORY, INODE_REGULAR, INODE_SYMLINK},
         NEW c, c = createFile(t, n, d, ty, junk),
         NEW v, v.type = c.tree.type, v.ents = c.tree.ents
  PROVE  /\ Resting(t, v) \/ Making(t, v)
         /\ c.res \in Inode => c.tree.ents[c.res] = << >>
<1> DEFINE i == NewInode(t)
           w == Linkable(t, i, ty)
           e == [inum |-> i, name |-> n]
           a == addEntry(w, d, e, junk)
<1>1. t \in TreeType /\ n \in AnyName
  BY DEF Sound, Label
<1>2. CASE findInumInDir(t, d, n) # 0 \/ Inode \subseteq t.used
  <2>1. c.tree = t /\ c.res = ERROR
    BY <1>2 DEF createFile, Reply
  <2> QED
    BY <2>1, SameRests, InodesAre
<1>3. CASE ~ (findInumInDir(t, d, n) # 0 \/ Inode \subseteq t.used)
  <2>1. i \in Inode \ {0} /\ i \notin t.used /\ t.type[i] = INODE_FREE
    BY <1>3, NewInodeIs
  <2>2. c = IF a.res = ERROR THEN Reply(Unlinkable(a.tree, i), ERROR)
            ELSE Reply(a.tree, IF a.res = LOST THEN LOST ELSE i)
    BY <1>3 DEF createFile
  <2> HIDE DEF i
  <2>3. Sound(w) /\ w \in TreeType
    BY <2>1, LinkableSound DEF Sound
  <2>4. ty \in Type /\ ty # INODE_FREE
    BY DEF Type, INODE_FREE, INODE_DIRECTORY, INODE_REGULAR, INODE_SYMLINK, FS_HEADER
  <2>5. /\ w.type[i] = ty /\ w.ents[i] = << >>
        /\ \A j \in Inode \ {i} : w.type[j] = t.type[j] /\ w.ents[j] = t.ents[j]
    BY <1>1, <2>1, <2>4, LinkableFields
  <2>6. t.ents[i] = << >>
    BY <2>1 DEF Sound
  <2> HIDE DEF w
  <2>7. \A j \in Inode : w.ents[j] = t.ents[j]
    BY <2>5, <2>6
  <2>8. e \in Entry /\ e.inum # 0 /\ e.inum = i /\ e.name = n
    BY <1>1, <2>1 DEF Entry
  <2> HIDE DEF e
  <2>9. /\ a.tree.type = w.type
        /\ a.res = ERROR => a.tree = w
        /\ a.res # ERROR => w.type[d] = INODE_DIRECTORY
    BY <2>3, <2>8, addEntryKeeps
  <2>10. \A l \in Used(t, d) : t.ents[d][l].name # n
    BY <1>3, FindNone
  <2>11. \A l \in Used(w, d) : w.ents[d][l].name # n
    BY <2>7, <2>10 DEF Used
  <2>12. \/ a.tree.ents = w.ents
         \/ /\ w.ents[d] # << >>
            /\ \A x \in Inode \ {d} : a.tree.ents[x] = w.ents[x]
            /\ \E k : NamePut(w, a.tree, d, k, e)
    BY <2>3, <2>8, <2>11, addEntryNames
  <2> HIDE DEF a
  <2>13. CASE a.res = ERROR
    <3>1. PICK u : u = Unlinkable(w, i)
      OBVIOUS
    <3>2. c.tree = u /\ c.res = ERROR
      BY <2>2, <2>9, <2>13, <3>1 DEF Reply
    <3>3. /\ u.type[i] = INODE_FREE /\ u.ents[i] = << >>
          /\ \A j \in Inode \ {i} : u.type[j] = w.type[j] /\ u.ents[j] = w.ents[j]
      <4>1. i \in Inode /\ w \in TreeType
        BY <2>1, <2>3
      <4> QED
        BY <3>1, <4>1, UnlinkableFields, Z3
    <3>4. \A j \in Inode : v.type[j] = t.type[j] /\ v.ents[j] = t.ents[j]
      BY <2>1, <2>5, <2>6, <3>2, <3>3
    <3> QED
      BY <3>2, <3>4, SameRests, InodesAre
  <2>14. CASE a.res # ERROR
    <3>1. c.tree = a.tree /\ c.res \in {LOST, i}
      BY <2>2, <2>14 DEF Reply
    <3>2. /\ v.type[i] # INODE_FREE
          /\ \A x \in Inode \ {i} : v.type[x] = t.type[x]
      BY <2>4, <2>5, <2>9, <3>1
    <3>3. CASE a.tree.ents = w.ents
      <4>1. \A x \in Inode : SameNames(t, v, x)
        BY <2>7, <3>1, <3>3, EntsSame
      <4>2. a.tree.ents[i] = << >>
        BY <2>5, <3>3
      <4>3. Making(t, v)
        BY <2>1, <3>2, <4>1 DEF Making
      <4> QED
        BY <3>1, <4>2, <4>3, InodesAre
    <3>4. CASE /\ w.ents[d] # << >>
               /\ \A x \in Inode \ {d} : a.tree.ents[x] = w.ents[x]
               /\ \E k : NamePut(w, a.tree, d, k, e)
      <4>1. d # i
        BY <2>5, <3>4
      <4>2. PICK k : NamePut(w, a.tree, d, k, e)
        BY <3>4
      <4>3. t.type[d] = INODE_DIRECTORY
        BY <2>5, <2>9, <2>14, <4>1
      <4>4. \A x \in Inode \ {d} : SameNames(t, v, x)
        BY <2>7, <3>1, <3>4, EntsSame
      <4>5. Used(w, d) = Used(t, d) /\ w.ents[d] = t.ents[d]
            /\ Used(v, d) = Used(a.tree, d) /\ v.ents[d] = a.tree.ents[d]
        BY <2>7, <3>1 DEF Used
      <4>6. /\ e \in Entry /\ e.inum # 0 /\ e.name \in Label
            /\ Used(v, d) = Used(t, d) \union {k} /\ v.ents[d][k] = e
            /\ \A l \in Used(t, d) \ {k} : v.ents[d][l] = t.ents[d][l]
        BY <4>2, <4>5 DEF NamePut
      <4>7. \A l \in Used(t, d) : t.ents[d][l].name # e.name
        BY <2>8, <2>10
      <4>8. NamePut(t, v, d, k, e)
        BY <4>3, <4>4, <4>6, <4>7 DEF NamePut
      <4>9. Making(t, v)
        BY <2>1, <2>8, <3>2, <4>8 DEF Making
      <4>10. a.tree.ents[i] = << >>
        BY <2>1, <2>5, <3>4, <4>1
      <4> QED
        BY <3>1, <4>9, <4>10, InodesAre
    <3> QED
      BY <2>12, <3>3, <3>4
  <2> QED
    BY <2>13, <2>14
<1> QED
  BY <1>2, <1>3

-----------------------------------------------------------------------------
(* The handlers.                                                           *)

LEMMA NameIs ==
  ASSUME NEW p \in Path, getFilename(p) # ""
  PROVE  getFilename(p) \in Label
BY FilenameIs DEF Label

LEMMA RestsItself ==
  ASSUME NEW t
  PROVE  Changing(t, t)
BY SameRests DEF Changing

LEMMA CreateChanges ==
  ASSUME NEW t, Sound(t), NEW p \in Path, getFilename(p) \in Label, NEW cur \in Inode, NEW junk,
         NEW r, r = CreateHandler(t, p, cur, junk)
  PROVE  Changing(t, r.tree)
<1> DEFINE d == getParentInum(t, p, cur)
           n == getFilename(p)
<1>1. d \in Result /\ n \in Label
  BY ParentInRange DEF Sound
<1>2. PICK c : c = createFile(t, n, d, INODE_REGULAR, junk)
  OBVIOUS
<1>3. r.tree = t \/ (~ (d < 0) /\ r = c)
  BY <1>2 DEF CreateHandler, Reply
<1> HIDE DEF d, n
<1>4. CASE ~ (d < 0) /\ r = c
  <2>1. d \in Inode
    BY <1>1, <1>4 DEF Result, ERROR, LOST
  <2>2. Resting(t, r.tree) \/ Making(t, r.tree)
    BY <1>1, <1>2, <1>4, <2>1, createFileMakes
  <2> QED
    BY <2>2 DEF Changing
<1> QED
  BY <1>3, <1>4, RestsItself

LEMMA SymLinkChanges ==
  ASSUME NEW t, Sound(t), NEW p \in Path, getFilename(p) \in Label, NEW cur \in Inode, NEW junk,
         NEW r, r = SymLinkHandler(t, p, cur, junk)
  PROVE  Changing(t, r.tree)
<1> DEFINE d == getParentInum(t, p, cur)
           n == getFilename(p)
<1>1. d \in Result /\ n \in Label
  BY ParentInRange DEF Sound
<1>2. PICK c : c = createFile(t, n, d, INODE_SYMLINK, junk)
  OBVIOUS
<1>3. r.tree = t \/ (~ (d < 0) /\ r.tree = c.tree)
  BY <1>2 DEF SymLinkHandler, Reply
<1> HIDE DEF d, n
<1>4. CASE ~ (d < 0) /\ r.tree = c.tree
  <2>1. d \in Inode
    BY <1>1, <1>4 DEF Result, ERROR, LOST
  <2>2. Resting(t, r.tree) \/ Making(t, r.tree)
    BY <1>1, <1>2, <1>4, <2>1, createFileMakes
  <2> QED
    BY <2>2 DEF Changing
<1> QED
  BY <1>3, <1>4, RestsItself

\* "." and ".." are not stored, so MkDir changes what createFile does.
LEMMA MkDirChanges ==
  ASSUME NEW t, Sound(t), NEW p \in Path, getFilename(p) \in Label, NEW cur \in Inode, NEW junk,
         NEW r, r = MkDirHandler(t, p, cur, junk)
  PROVE  Changing(t, r.tree)
<1> DEFINE d == getParentInum(t, p, cur)
           n == getFilename(p)
           c == createFile(t, n, d, INODE_DIRECTORY, junk)
           e == [inum |-> c.res, name |-> "."]
           a == addEntry(c.tree, c.res, e, junk)
           f == [inum |-> d, name |-> ".."]
           b == addEntry(a.tree, c.res, f, junk)
<1>1. d \in Result /\ n \in Label /\ n \in AnyName
  BY ParentInRange DEF Sound, Label
<1>2. \/ r.tree = t
      \/ ~ (d < 0) /\ r.tree = c.tree
      \/ ~ (d < 0) /\ ~ (c.res < 0) /\ r.tree = b.tree
  BY DEF MkDirHandler, Reply
<1> HIDE DEF d, n
<1>3. ASSUME ~ (d < 0)
      PROVE  /\ d \in Inode /\ Sound(c.tree) /\ c.res \in {ERROR, LOST} \union (Inode \ {0})
             /\ c.res \in Inode => t.type[d] = INODE_DIRECTORY
             /\ c.res \in Inode => c.tree.ents[c.res] = << >>
             /\ \A v : v.type = c.tree.type /\ v.ents = c.tree.ents => Changing(t, v)
  <2>1. d \in Inode
    BY <1>1, <1>3 DEF Result, ERROR, LOST
  <2>2. INODE_DIRECTORY \in {INODE_DIRECTORY, INODE_REGULAR, INODE_SYMLINK}
    OBVIOUS
  <2>3. /\ Sound(c.tree) /\ c.res \in {ERROR, LOST} \union (Inode \ {0})
        /\ c.res \in Inode => t.type[d] = INODE_DIRECTORY
    BY <1>1, <2>1, <2>2, createFileKeeps
  <2> HIDE DEF c
  <2>4. ASSUME NEW v, v.type = c.tree.type, v.ents = c.tree.ents
        PROVE  /\ Resting(t, v) \/ Making(t, v)
               /\ c.res \in Inode => c.tree.ents[c.res] = << >>
    BY <1>1, <2>1, <2>2, <2>4, createFileMakes DEF c
  <2>5. c.res \in Inode => c.tree.ents[c.res] = << >>
    BY <2>4
  <2>6. \A v : v.type = c.tree.type /\ v.ents = c.tree.ents => Changing(t, v)
    BY <2>4 DEF Changing
  <2> QED
    BY <2>1, <2>3, <2>5, <2>6
<1> HIDE DEF c
<1>4. CASE ~ (d < 0) /\ ~ (c.res < 0) /\ r.tree = b.tree
  <2>1. c.res \in Inode \ {0} /\ d \in Inode
    BY <1>3, <1>4 DEF ERROR, LOST
  <2>2. d # 0
    BY <1>3, <1>4, <2>1 DEF Sound, FS_HEADER, INODE_DIRECTORY
  <2>3. /\ e \in Entry /\ e.inum # 0
        /\ f \in Entry /\ f.inum # 0
    BY <2>1, <2>2 DEF Entry, AnyName
  <2> HIDE DEF e, f
  <2>4. Sound(a.tree) /\ a.tree.ents = c.tree.ents /\ a.tree.type = c.tree.type
    BY <1>3, <1>4, <2>1, <2>3, addEntryStoresNothing
  <2> HIDE DEF a
  <2>5. a.tree.ents[c.res] = << >>
    BY <1>3, <1>4, <2>1, <2>4
  <2>6. b.tree.ents = a.tree.ents /\ b.tree.type = a.tree.type
    BY <2>1, <2>3, <2>4, <2>5, addEntryStoresNothing
  <2> HIDE DEF b
  <2>7. r.tree.ents = c.tree.ents /\ r.tree.type = c.tree.type
    BY <1>4, <2>4, <2>6
  <2> QED
    BY <1>3, <1>4, <2>7
<1>5. CASE ~ (d < 0) /\ r.tree = c.tree
  <2>1. r.tree.type = c.tree.type /\ r.tree.ents = c.tree.ents
    BY <1>5
  <2> QED
    BY <1>3, <1>5, <2>1
<1> QED
  BY <1>2, <1>4, <1>5, RestsItself

\* Link puts the name in where it is not, or stores nothing.
LEMMA LinkChanges ==
  ASSUME NEW t, Sound(t), Untargeted(t), NEW p \in Path, NEW q \in Path, getFilename(q) \in Label,
         NEW cur \in Inode, NEW junk, NEW r, r = LinkHandler(t, p, q, cur, junk)
  PROVE  Changing(t, r.tree)
<1> DEFINE i == resolvePath(t, p, cur)
           j == resolvePath(t, q, cur)
           d == getParentInum(t, q, cur)
           n == getFilename(q)
           e == [inum |-> i, name |-> n]
           a == addEntry(t, d, e, junk)
<1>1. i \in Result /\ d \in Result /\ n \in AnyName /\ t \in TreeType
  BY ResolveInRange, ParentInRange, FilenameIs DEF Sound
<1>2. \/ r.tree = t
      \/ ~ (i <= 0) /\ j = 0 /\ ~ (d < 0) /\ r.tree = a.tree
  BY DEF LinkHandler, Reply
<1>3. CASE ~ (i <= 0) /\ j = 0 /\ ~ (d < 0) /\ r.tree = a.tree
  <2>1. i \in Inode \ {0} /\ d \in Inode
    <3> HIDE DEF i, d
    <3> QED
      BY <1>1, <1>3 DEF Result, ERROR, LOST
  <2>2. e \in Entry /\ e.inum # 0 /\ e.name = n /\ n \in Label
    <3> HIDE DEF i, n
    <3> QED
      BY <1>1, <2>1 DEF Entry, n
  <2>3. CASE t.type[d] = INODE_DIRECTORY
    <3>1. n # ""
      BY <2>2 DEF Label
    <3>2. findInumInDir(t, d, n) = 0
      BY <1>1, <1>3, <2>1, <2>3, <3>1, LinkLooks
    <3> HIDE DEF i, j, d, n, e
    <3>3. \A l \in Used(t, d) : t.ents[d][l].name # e.name
      BY <2>1, <2>2, <3>2, FindNone
    <3>4. a.tree.type = t.type
      BY <2>1, <2>2, addEntryKeeps
    <3>5. \/ a.tree.ents = t.ents
          \/ /\ t.ents[d] # << >> /\ t.type[e.inum] # INODE_FREE
             /\ \A x \in Inode \ {d} : a.tree.ents[x] = t.ents[x]
             /\ \E k : NamePut(t, a.tree, d, k, e)
      BY <2>1, <2>2, <3>3, addEntryNames
    <3> HIDE DEF a
    <3>6. CASE a.tree.ents = t.ents
      <4>1. Resting(t, r.tree)
        BY <1>3, <3>4, <3>6, SameRests
      <4> QED
        BY <4>1 DEF Changing
    <3>7. CASE t.type[e.inum] # INODE_FREE /\ \E k : NamePut(t, a.tree, d, k, e)
      <4>1. Naming(t, r.tree)
        BY <1>3, <2>1, <3>4, <3>7 DEF Naming
      <4> QED
        BY <4>1 DEF Changing
    <3> QED
      BY <3>5, <3>6, <3>7
  <2>4. CASE t.type[d] # INODE_DIRECTORY
    <3>1. a.tree = t
      BY <2>4 DEF addEntry, Reply
    <3> QED
      BY <1>3, <3>1, RestsItself
  <2> QED
    BY <2>3, <2>4
<1> QED
  BY <1>2, <1>3, RestsItself

\* Unlink clears the slot it found the name in, and may free the inode, which is
\* no directory and has no names of its own.
LEMMA UnlinkChanges ==
  ASSUME NEW t, Sound(t), NEW p \in Path, NEW cur \in Inode, NEW junk, HasName(p, junk),
         NEW r, r = UnlinkHandler(t, p, cur, junk)
  PROVE  Changing(t, r.tree)
<1> DEFINE d  == getParentInum(t, p, cur)
           n  == getFilename(p)
           es == t.ents[d]
           k  == NameSlot(es, n)
           i  == es[k].inum
           c  == ClearEntry(t, d, k)
<1>1. t \in TreeType /\ d \in Result
  BY ParentInRange DEF Sound
<1>2. n \in Label
  BY NameIs, Zenon DEF HasName
<1>3. \/ r.tree = t
      \/ /\ ~ (d < 0) /\ es # << >> /\ k # 0
         /\ t.type[i] # INODE_FREE /\ t.type[i] # INODE_DIRECTORY
         /\ r.tree = DropLink(c, i)
  BY DEF UnlinkHandler, HasName, Reply
<1> HIDE DEF d, n, es, k, i, c
<1>4. CASE /\ ~ (d < 0) /\ es # << >> /\ k # 0
           /\ t.type[i] # INODE_FREE /\ t.type[i] # INODE_DIRECTORY
           /\ r.tree = DropLink(c, i)
  <2>1. d \in Inode
    BY <1>1, <1>4 DEF Result, ERROR, LOST
  <2>2. Len(es) \in Nat /\ DOMAIN es = 1 .. Len(es) /\ es \in Seq(Entry)
    BY <1>1, <2>1, EntriesAre DEF es
  <2>3. k \in 1 .. Len(es) - 1 /\ es[k].name = n
    BY <1>4, <2>2, NameSlotIs DEF k
  <2>4. k \in DOMAIN t.ents[d] /\ i = t.ents[d][k].inum /\ t.ents[d][k].name = n
    BY <2>2, <2>3 DEF es, i
  <2>5. i # 0
    BY <1>2, <2>1, <2>4 DEF Sound, Placed, Label
  <2>6. k \in Used(t, d)
    BY <2>4, <2>5 DEF Used
  <2>7. i \in Inode \ {0, ROOTINODE} /\ t.type[d] = INODE_DIRECTORY
    BY <1>4, <2>1, <2>4, <2>6, UsedAre DEF Sound
  <2>8. /\ Sound(c) /\ Entered(t, c, d, k, Unused) /\ c.nlink = t.nlink
        /\ Cardinality(Links(c, i)) <= c.nlink[i] - 1
    BY <2>1, <2>4, <2>7, ClearSound DEF c
  <2>9. /\ c.type = t.type
        /\ \A x \in Inode \ {d} : c.ents[x] = t.ents[x]
        /\ DOMAIN c.ents[d] = DOMAIN t.ents[d]
        /\ c.ents[d][k] = Unused
        /\ \A l \in DOMAIN t.ents[d] : l # k => c.ents[d][l] = t.ents[d][l]
    BY <2>8 DEF Entered
  <2>10. PICK u : u = DropLink(c, i)
    OBVIOUS
  <2>11. r.tree = u
    BY <1>4, <2>10
  <2>12. c.type[i] # INODE_FREE
    BY <1>4, <2>9
  <2>13. /\ Sound(u)
         /\ \A j \in Inode \ {i} : u.type[j] = c.type[j] /\ u.ents[j] = c.ents[j]
         /\ \/ u.type[i] = INODE_FREE
            \/ u.type[i] = c.type[i] /\ u.ents[i] = c.ents[i]
    BY <2>7, <2>8, <2>10, <2>12, DropSound
  <2>14. d # i
    BY <1>4, <2>7
  <2>15. SameNames(t, u, i)
    <3>1. Used(t, i) = {}
      <4> SUFFICES ASSUME NEW l \in Used(t, i) PROVE FALSE
        OBVIOUS
      <4> QED
        BY <1>4, <2>7, UsedAre
    <3>2. CASE u.type[i] = INODE_FREE
      <4>1. u.ents[i] = << >>
        BY <2>7, <2>13, <3>2 DEF Sound
      <4>2. Used(u, i) = {}
        BY <4>1 DEF Used
      <4> QED
        BY <3>1, <4>2 DEF SameNames
    <3>3. CASE u.ents[i] = c.ents[i]
      BY <2>7, <2>9, <2>14, <3>3, EntsSame
    <3> QED
      BY <2>13, <3>2, <3>3
  <2>16. \A x \in Inode \ {d} : SameNames(t, u, x)
    BY <2>9, <2>13, <2>15, EntsSame
  <2>17. u.ents[d] = c.ents[d]
    BY <2>1, <2>13, <2>14
  <2>18. NameGone(t, u, d, k)
    BY <1>1, <1>2, <2>1, <2>4, <2>6, <2>9, <2>16, <2>17, ClearedGoes
  <2>19. /\ \A x \in Inode \ {i} : u.type[x] = t.type[x]
         /\ u.type[i] \in {t.type[i], INODE_FREE}
    BY <2>9, <2>13
  <2>20. Dropping(t, u)
    BY <1>4, <2>1, <2>4, <2>7, <2>18, <2>19 DEF Dropping
  <2> QED
    BY <2>11, <2>20 DEF Changing
<1> QED
  BY <1>3, <1>4, RestsItself

\* A directory that grows gets free slots.
LEMMA GrownRests ==
  ASSUME NEW t, NEW u, u.type = t.type, Grown(t, u)
  PROVE  Changing(t, u)
<1>1. Unused.inum = 0
  BY DEF Unused
<1>2. ASSUME NEW x \in Inode PROVE SameNames(t, u, x)
  <2>1. /\ \A k \in DOMAIN t.ents[x] : k \in DOMAIN u.ents[x] /\ u.ents[x][k] = t.ents[x][k]
        /\ \A k \in DOMAIN u.ents[x] : k \in DOMAIN t.ents[x] \/ u.ents[x][k] = Unused
    BY DEF Grown
  <2>2. Used(u, x) = Used(t, x)
    BY <1>1, <2>1 DEF Used
  <2>3. \A k \in Used(t, x) : u.ents[x][k] = t.ents[x][k]
    BY <2>1 DEF Used
  <2> QED
    BY <2>2, <2>3 DEF SameNames
<1>3. Resting(t, u)
  BY <1>2 DEF Resting
<1> QED
  BY <1>3 DEF Changing

-----------------------------------------------------------------------------
(* Names are unique.  The theorems on names speak of disks whose links     *)
(* have no target, as SymLink leaves them: where a link leads nowhere,     *)
(* Link makes an entry of its name again.                                  *)

\* The disks.
FreshImages == \A t \in Images : Untargeted(t) /\ Unique(t)

LEMMA HandledChanges ==
  ASSUME NEW r, Handled(r), Changing(tree, r.tree)
  PROVE  Changing(tree, tree')
<1>1. tree' = tree \/ tree' = r.tree
  BY DEF Handled
<1> QED
  BY <1>1, RestsItself

LEMMA NextChanges ==
  ASSUME NamedPaths, Sound(tree), Untargeted(tree), Next
  PROVE  Changing(tree, tree')
<1>1. ASSUME NEW p \in Paths PROVE p \in Path /\ From(p) \subseteq Inode
  BY ParametersAre, InodesAre DEF From, Dirs
<1>2. ASSUME NEW p \in Paths, NEW junk \in Residue PROVE HasName(p, junk) /\ getFilename(p) \in Label
  <2>1. HasName(p, junk)
    BY DEF NamedPaths
  <2>2. getFilename(p) \in Label
    BY <1>1, <2>1, NameIs DEF HasName
  <2> QED
    BY <2>1, <2>2
<1>3. ASSUME NEW p \in Paths, NEW cur \in From(p),
             RmDir(p, cur) \/ Open(p, cur) \/ ChDir(p, cur) \/ Stat(p, cur)
      PROVE  Changing(tree, tree')
  <2>1. PICK r : Handled(r) /\ r.tree = tree
    <3>1. cur \in Inode /\ p \in Path
      BY <1>1
    <3>2. ChDirHandler(tree, p, cur).tree = tree
      BY <3>1, ChDirIs
    <3>3. /\ RmDirHandler(tree, p, cur).tree = tree /\ OpenHandler(tree, p, cur).tree = tree
          /\ StatHandler(tree, p, cur).tree = tree
      BY DEF RmDirHandler, OpenHandler, StatHandler, Reply
    <3> QED
      BY <1>3, <3>2, <3>3 DEF RmDir, Open, ChDir, Stat
  <2> QED
    BY <2>1, RestsItself, HandledChanges
<1>4. ASSUME NEW p \in Paths, NEW cur \in From(p), NEW junk \in Residue,
             \/ Create(p, cur, junk) \/ SymLink(p, cur, junk) \/ MkDir(p, cur, junk)
             \/ Unlink(p, cur, junk) \/ ReadLink(p, cur, junk)
      PROVE  Changing(tree, tree')
  <2>1. cur \in Inode /\ p \in Path /\ HasName(p, junk) /\ getFilename(p) \in Label
    BY <1>1, <1>2
  <2>2. CASE Create(p, cur, junk)
    <3>1. Changing(tree, CreateHandler(tree, p, cur, junk).tree)
      BY <2>1, CreateChanges
    <3> QED
      BY <2>2, <3>1, HandledChanges DEF Create
  <2>3. CASE SymLink(p, cur, junk)
    <3>1. Changing(tree, SymLinkHandler(tree, p, cur, junk).tree)
      BY <2>1, SymLinkChanges
    <3> QED
      BY <2>3, <3>1, HandledChanges DEF SymLink
  <2>4. CASE MkDir(p, cur, junk)
    <3>1. Changing(tree, MkDirHandler(tree, p, cur, junk).tree)
      BY <2>1, MkDirChanges
    <3> QED
      BY <2>4, <3>1, HandledChanges DEF MkDir
  <2>5. CASE Unlink(p, cur, junk)
    <3>1. Changing(tree, UnlinkHandler(tree, p, cur, junk).tree)
      BY <2>1, UnlinkChanges
    <3> QED
      BY <2>5, <3>1, HandledChanges DEF Unlink
  <2>6. CASE ReadLink(p, cur, junk)
    <3> DEFINE r == ReadLinkHandler(tree, p, cur, junk)
    <3>1. r.tree = tree
      BY DEF ReadLinkHandler, Reply
    <3>2. Handled(r)
      BY <2>6 DEF ReadLink
    <3> HIDE DEF r
    <3> QED
      BY <3>1, <3>2, RestsItself, HandledChanges
  <2> QED
    BY <1>4, <2>2, <2>3, <2>4, <2>5, <2>6
<1>5. ASSUME NEW p \in Paths, NEW q \in Paths, NEW cur \in From(p) \union From(q),
             NEW junk \in Residue, Link(p, q, cur, junk)
      PROVE  Changing(tree, tree')
  <2>1. cur \in Inode /\ p \in Path /\ q \in Path /\ getFilename(q) \in Label
    BY <1>1, <1>2
  <2>2. Changing(tree, LinkHandler(tree, p, q, cur, junk).tree)
    BY <2>1, LinkChanges
  <2> QED
    BY <1>5, <2>2, HandledChanges DEF Link
<1>6. ASSUME NEW d \in Dirs(tree), NEW n \in Sizes, Grow(d, n)
      PROVE  Changing(tree, tree')
  <2> DEFINE m == Len(tree.ents[d])
             l == n - m
             yes == TRUE
  <2>1. d \in Inode /\ n \in Nat
    BY ParametersAre DEF Dirs
  <2>2. m \in Nat
    BY <2>1, EntriesAre DEF Sound
  <2>3. l \in Nat /\ m \in Int /\ m >= Len(tree.ents[d])
    <3>1. m < n
      BY <1>6 DEF Grow
    <3> HIDE DEF m
    <3>2. l \in Nat /\ m \in Int /\ m >= m
      BY <2>1, <2>2, <3>1
    <3> QED
      BY <3>2 DEF m
  <2> HIDE DEF m, l, yes
  <2> DEFINE r == WriteHandler(tree, d, m, l, yes, yes)
  <2>4. r.tree.type = tree.type /\ Grown(tree, r.tree)
    BY <2>1, <2>3, WriteSound
  <2>5. Changing(tree, r.tree)
    <3> HIDE DEF r
    <3> QED
      BY <2>4, GrownRests
  <2> QED
    BY <1>6, <2>5, HandledChanges DEF Grow, m, l, yes
<1>7. ASSUME Restart
      PROVE  Changing(tree, tree')
  <2>1. tree' = tree
    BY <1>7, BootIs DEF Restart
  <2> QED
    BY <2>1, RestsItself
<1> QED
  BY <1>3, <1>4, <1>5, <1>6, <1>7 DEF Next

\* What is true of names on such a disk.
NInv == IInv /\ Untargeted(tree) /\ Unique(tree)

LEMMA StepKeepsNames ==
  ASSUME NamedPaths, NInv, [Next]_vars
  PROVE  NInv' /\ Changing(tree, tree')
<1>1. CASE Next
  <2>1. Moves(tree, tree') /\ up' \in BOOLEAN
    BY <1>1, NextMoves DEF NInv, IInv
  <2>2. Changing(tree, tree')
    BY <1>1, NextChanges DEF NInv, IInv
  <2>3. Untargeted(tree')
    BY <2>1 DEF Moves, Targets, Untargeted, NInv
  <2>4. Unique(tree')
    BY <2>2, ChangingKeepsUnique DEF NInv
  <2> QED
    BY <2>1, <2>2, <2>3, <2>4 DEF NInv, IInv, Moves
<1>2. CASE UNCHANGED vars
  BY <1>2, RestsItself DEF NInv, IInv, vars
<1> QED
  BY <1>1, <1>2

LEMMA NamesInvariance ==
  ASSUME SoundImages, FreshImages, NamedPaths
  PROVE  Spec => []NInv
<1>1. Init => NInv
  BY DEF Init, NInv, IInv, SoundImages, FreshImages
<1>2. NInv /\ [Next]_vars => NInv'
  BY StepKeepsNames
<1> QED
  BY <1>1, <1>2, PTL DEF Spec

\* No directory has a name twice, whatever is created, linked and unlinked in
\* whatever order.
THEOREM NamesStayUnique ==
  ASSUME SoundImages, FreshImages, NamedPaths
  PROVE  Spec => []NamesUnique
<1>1. NInv => NamesUnique
  BY UniqueIs DEF NInv
<1> QED
  BY <1>1, NamesInvariance, PTL

\* The disk of mkyfs is such a disk.
THEOREM MkyfsIsFresh == Untargeted(Mkyfs) /\ Unique(Mkyfs)
<1> DEFINE t == Mkyfs
           es == << [inum |-> ROOTINODE, name |-> "."], [inum |-> ROOTINODE, name |-> ".."] >>
<1>1. /\ t.target = [i \in Inode |-> NoPath]
      /\ t.ents = [i \in Inode |-> IF i # ROOTINODE THEN << >> ELSE es]
  BY DEF Mkyfs
<1>2. DOMAIN es = {1, 2} /\ es[1].name = "." /\ es[2].name = ".."
  OBVIOUS
<1> HIDE DEF t, es
<1>3. Untargeted(t)
  BY <1>1 DEF Untargeted
<1>4. ASSUME NEW d \in Inode, NEW k \in Used(t, d), NEW l \in Used(t, d),
             t.ents[d][k].name = t.ents[d][l].name
      PROVE  k = l
  <2>1. CASE d = ROOTINODE
    <3>1. t.ents[d] = es
      BY <1>1, <2>1
    <3>2. k \in {1, 2} /\ l \in {1, 2}
      BY <1>2, <3>1 DEF Used
    <3>3. es[k].name = es[l].name
      BY <1>4, <3>1
    <3>4. "." # ".."
      OBVIOUS
    <3> QED
      BY <1>2, <3>2, <3>3, <3>4
  <2>2. CASE d # ROOTINODE
    BY <1>1, <2>2 DEF Used
  <2> QED
    BY <2>1, <2>2
<1> QED
  BY <1>3, <1>4 DEF Unique, t

-----------------------------------------------------------------------------
(* The handlers implement bindings of names to objects.                    *)

LEMMA BindingIs ==
  /\ DOMAIN binding = Inode \ {0} /\ DOMAIN binding' = Inode \ {0}
  /\ \A d \in Inode \ {0} :
       /\ binding[d] = [n \in Label |-> Bound(tree, d, n)]
       /\ binding'[d] = [n \in Label |-> Bound(tree', d, n)]
       /\ \A n \in Label : binding[d][n] = Bound(tree, d, n) /\ binding'[d][n] = Bound(tree', d, n)
BY DEF binding, Bound, Label

\* A name that leads somewhere is in a directory and leads to an inode in use.
LEMMA BoundLeads ==
  ASSUME NEW t, Sound(t), Unique(t), NEW d \in Inode, NEW n \in Label
  PROVE  /\ Bound(t, d, n) \in Inode
         /\ Bound(t, d, n) # 0 =>
              d \in Allocated(t) /\ t.type[d] = INODE_DIRECTORY /\ Bound(t, d, n) \in Allocated(t)
<1>1. CASE \A k \in Used(t, d) : t.ents[d][k].name # n
  <2>1. Bound(t, d, n) = 0
    BY <1>1, BoundIs
  <2> QED
    BY <2>1, InodesAre
<1>2. CASE \E k \in Used(t, d) : t.ents[d][k].name = n
  <2>1. PICK k \in Used(t, d) : t.ents[d][k].name = n
    BY <1>2
  <2>2. Bound(t, d, n) = t.ents[d][k].inum
    BY <2>1, BoundIs
  <2>3. /\ t.ents[d][k].inum \in Inode \ {0}
        /\ t.type[d] = INODE_DIRECTORY /\ t.type[t.ents[d][k].inum] # INODE_FREE
    BY UsedAre
  <2>4. d # 0 /\ INODE_DIRECTORY # INODE_FREE
    BY <2>3 DEF Sound, FS_HEADER, INODE_DIRECTORY, INODE_FREE
  <2> QED
    BY <2>2, <2>3, <2>4 DEF Allocated
<1> QED
  BY <1>1, <1>2

LEMMA BindingTyped ==
  ASSUME NInv
  PROVE  Names!NamesTypeOK /\ Names!NamesLead
<1>1. Sound(tree) /\ Unique(tree)
  BY DEF NInv, IInv
<1>2. \A d \in Inode \ {0}, n \in Label : binding[d][n] = Bound(tree, d, n)
  BY BindingIs
<1>3. binding \in [Inode \ {0} -> [Label -> (Inode \ {0}) \union {0}]]
  <2>1. binding = [d \in Inode \ {0} |-> [n \in Label |-> Bound(tree, d, n)]]
    BY DEF binding, Bound, Label
  <2>2. \A d \in Inode \ {0}, n \in Label : Bound(tree, d, n) \in (Inode \ {0}) \union {0}
    BY <1>1, BoundLeads
  <2> QED
    BY <2>1, <2>2
<1>4. Names!NamesTypeOK
  BY <1>3 DEF Names!NamesTypeOK, Allocated, Label
<1>5. \A d \in Inode \ {0}, n \in Label :
        binding[d][n] # 0 => d \in Allocated(tree) /\ binding[d][n] \in Allocated(tree)
  BY <1>1, <1>2, BoundLeads
<1>6. Names!NamesLead
  BY <1>5 DEF Names!NamesLead, Label
<1> QED
  BY <1>4, <1>6

\* Directories other than d keep their names.
LEMMA OnlyInOne ==
  ASSUME NInv, NInv', NEW d \in Inode, \A x \in Inode \ {d} : SameNames(tree, tree', x)
  PROVE  Names!OnlyIn(d)
<1>1. Sound(tree) /\ Unique(tree) /\ Sound(tree') /\ Unique(tree')
  BY DEF NInv, IInv
<1>2. ASSUME NEW x \in (Inode \ {0}) \ {d} PROVE binding'[x] = binding[x]
  <2>1. \A n \in Label : Bound(tree', x, n) = Bound(tree, x, n)
    BY <1>1, SameBound
  <2>2. /\ binding[x] = [n \in Label |-> Bound(tree, x, n)]
        /\ binding'[x] = [n \in Label |-> Bound(tree', x, n)]
    BY BindingIs
  <2> QED
    BY <2>1, <2>2
<1> QED
  BY <1>2 DEF Names!OnlyIn

LEMMA SameBinding ==
  ASSUME NInv, NInv', \A x \in Inode : SameNames(tree, tree', x)
  PROVE  binding' = binding
<1>1. Sound(tree) /\ Unique(tree) /\ Sound(tree') /\ Unique(tree')
  BY DEF NInv, IInv
<1>2. \A x \in Inode \ {0} : \A n \in Label : Bound(tree', x, n) = Bound(tree, x, n)
  BY <1>1, SameBound
<1>3. /\ binding = [d \in Inode \ {0} |-> [n \in Label |-> Bound(tree, d, n)]]
      /\ binding' = [d \in Inode \ {0} |-> [n \in Label |-> Bound(tree', d, n)]]
  BY DEF binding, Bound, Label
<1> QED
  BY <1>2, <1>3

\* A name that is put in binds it; the name whose slot it takes is lost.
LEMMA PutBinds ==
  ASSUME NInv, NInv', NEW d \in Inode, NEW k, NEW e, NamePut(tree, tree', d, k, e)
  PROVE  /\ d \in Allocated(tree) /\ e.name \in Names!Changed(d)
         /\ Names!Bind(d, e.name, e.inum)
<1>1. Sound(tree) /\ Unique(tree) /\ Sound(tree') /\ Unique(tree')
  BY DEF NInv, IInv
<1>2. /\ \A x \in Inode \ {d} : SameNames(tree, tree', x)
      /\ tree.type[d] = INODE_DIRECTORY /\ e.inum # 0 /\ e.name \in Label
  BY DEF NamePut
<1>3. d # 0 /\ d \in Allocated(tree)
  BY <1>1, <1>2 DEF Sound, Allocated, FS_HEADER, INODE_DIRECTORY, INODE_FREE
<1>4. Names!OnlyIn(d)
  BY <1>2, OnlyInOne
<1>5. \A n \in Label : binding[d][n] = Bound(tree, d, n) /\ binding'[d][n] = Bound(tree', d, n)
  BY <1>3, BindingIs
<1>6. /\ Bound(tree, d, e.name) = 0 /\ Bound(tree', d, e.name) = e.inum
      /\ k \in Used(tree, d) =>
           /\ tree.ents[d][k].name # e.name
           /\ tree.ents[d][k].name \in Label => Bound(tree', d, tree.ents[d][k].name) = 0
      /\ \A n : n \in Label /\ n # e.name /\ (k \in Used(tree, d) => n # tree.ents[d][k].name)
                  => Bound(tree', d, n) = Bound(tree, d, n)
  BY <1>1, PutBound
<1>7. binding[d][e.name] = 0 /\ binding'[d][e.name] = e.inum /\ binding'[d][e.name] # binding[d][e.name]
  BY <1>2, <1>5, <1>6
<1>8. \E m \in Label : /\ \A n \in Label : binding'[d][n] # binding[d][n] => n \in {m, e.name}
                       /\ m # e.name => binding'[d][m] = 0
  <2>1. CASE k \in Used(tree, d) /\ tree.ents[d][k].name \in Label
    <3> DEFINE m == tree.ents[d][k].name
    <3>1. m \in Label /\ \A n \in Label : n # e.name /\ n # m => Bound(tree', d, n) = Bound(tree, d, n)
      BY <1>6, <2>1
    <3>2. Bound(tree', d, m) = 0
      BY <1>6, <2>1
    <3> HIDE DEF m
    <3> QED
      BY <1>5, <3>1, <3>2
  <2>2. CASE ~ (k \in Used(tree, d) /\ tree.ents[d][k].name \in Label)
    <3>1. \A n \in Label : n # e.name => Bound(tree', d, n) = Bound(tree, d, n)
      BY <1>6, <2>2
    <3> QED
      BY <1>2, <1>5, <3>1
  <2> QED
    BY <2>1, <2>2
<1>9. e.name \in Names!Changed(d)
  BY <1>2, <1>7 DEF Names!Changed, Label
<1>10. \E m \in Label : Names!Changed(d) \subseteq {m, e.name} /\ (m # e.name => binding'[d][m] = 0)
  BY <1>8 DEF Names!Changed, Label
<1>11. Names!Bind(d, e.name, e.inum)
  BY <1>4, <1>7, <1>10 DEF Names!Bind, Label
<1> QED
  BY <1>3, <1>9, <1>11

\* An inode is made.
LEMMA MakingMakes ==
  ASSUME NInv, NInv', Making(tree, tree')
  PROVE  \E o \in Inode \ {0} : Names!Make(o)
<1>1. PICK i \in Inode \ {0} :
        /\ tree.type[i] = INODE_FREE /\ tree'.type[i] # INODE_FREE
        /\ \A x \in Inode \ {i} : tree'.type[x] = tree.type[x]
        /\ \/ \A x \in Inode : SameNames(tree, tree', x)
           \/ \E d \in Inode : \E k, e : NamePut(tree, tree', d, k, e) /\ e.inum = i
  BY DEF Making
<1>2. i \notin Allocated(tree) /\ Allocated(tree)' = Allocated(tree) \union {i}
  BY <1>1 DEF Allocated
<1>3. CASE \A x \in Inode : SameNames(tree, tree', x)
  <2>1. binding' = binding
    BY <1>3, SameBinding
  <2> QED
    BY <1>2, <2>1 DEF Names!Make
<1>4. CASE \E d \in Inode : \E k, e : NamePut(tree, tree', d, k, e) /\ e.inum = i
  <2>1. PICK d, k, e : d \in Inode /\ NamePut(tree, tree', d, k, e) /\ e.inum = i
    BY <1>4
  <2>2. /\ d \in Allocated(tree) /\ e.name \in Names!Changed(d)
        /\ Names!Bind(d, e.name, i)
    BY <2>1, PutBinds
  <2> QED
    BY <1>2, <2>2 DEF Names!Make
<1> QED
  BY <1>1, <1>3, <1>4

\* An inode gets one name more.
LEMMA NamingNames ==
  ASSUME NInv, NInv', Naming(tree, tree')
  PROVE  Names!NewName
<1>1. PICK d, k, e : d \in Inode /\ NamePut(tree, tree', d, k, e) /\ tree.type[e.inum] # INODE_FREE
  BY DEF Naming
<1>2. \A x \in Inode : tree'.type[x] = tree.type[x]
  BY DEF Naming
<1>3. Allocated(tree)' = Allocated(tree)
  BY <1>2 DEF Allocated
<1>4. e.inum \in Allocated(tree)
  BY <1>1 DEF NamePut, Entry, Allocated
<1>5. /\ d \in Allocated(tree) /\ e.name \in Names!Changed(d)
      /\ Names!Bind(d, e.name, e.inum)
  BY <1>1, PutBinds
<1> QED
  BY <1>3, <1>4, <1>5 DEF Names!NewName

\* A name goes, with its inode if there is no other.
LEMMA DroppingUnbinds ==
  ASSUME NInv, NInv', Dropping(tree, tree')
  PROVE  \E d \in Allocated(tree) : \E n \in Names!Changed(d) : Names!Unbind(d, n)
<1>1. Sound(tree) /\ Unique(tree) /\ Sound(tree') /\ Unique(tree')
  BY DEF NInv, IInv
<1>2. PICK d, i, k :
        /\ d \in Inode /\ i \in Inode
        /\ NameGone(tree, tree', d, k) /\ i = tree.ents[d][k].inum
        /\ tree.type[i] # INODE_DIRECTORY
        /\ \A x \in Inode \ {i} : tree'.type[x] = tree.type[x]
        /\ tree'.type[i] \in {tree.type[i], INODE_FREE}
  BY DEF Dropping
<1>3. PICK m : m = tree.ents[d][k].name
  OBVIOUS
<1>4. /\ \A x \in Inode \ {d} : SameNames(tree, tree', x)
      /\ k \in Used(tree, d) /\ m \in Label
  BY <1>2, <1>3 DEF NameGone
<1>5. tree.type[d] = INODE_DIRECTORY /\ i # 0 /\ tree.type[i] # INODE_FREE
  BY <1>1, <1>2, <1>4, UsedAre
<1>6. d # 0 /\ d \in Allocated(tree)
  BY <1>1, <1>2, <1>5 DEF Sound, Allocated, FS_HEADER, INODE_DIRECTORY, INODE_FREE
<1>7. Names!OnlyIn(d)
  BY <1>2, <1>4, OnlyInOne
<1>8. \A n \in Label : binding[d][n] = Bound(tree, d, n) /\ binding'[d][n] = Bound(tree', d, n)
  BY <1>2, <1>6, BindingIs
<1>9. /\ Bound(tree, d, m) = i /\ Bound(tree', d, m) = 0
      /\ \A n : n \in Label /\ n # m => Bound(tree', d, n) = Bound(tree, d, n)
  BY <1>1, <1>2, <1>3, GoneBound
<1>10. binding[d][m] = i /\ binding'[d][m] = 0
  BY <1>4, <1>8, <1>9
<1>11. Names!Changed(d) = {m}
  <2>1. \A n \in Label : binding'[d][n] # binding[d][n] <=> n = m
    BY <1>4, <1>5, <1>8, <1>9
  <2> QED
    BY <1>4, <2>1 DEF Names!Changed, Label
<1>12. CASE tree'.type[i] = tree.type[i]
  <2>1. Allocated(tree)' = Allocated(tree)
    BY <1>2, <1>12 DEF Allocated
  <2>2. Names!Unbind(d, m)
    BY <1>7, <1>10, <1>11, <2>1 DEF Names!Unbind
  <2> QED
    BY <1>6, <1>11, <2>2
<1>13. CASE tree'.type[i] = INODE_FREE
  <2>1. Allocated(tree)' = Allocated(tree) \ {i}
    BY <1>2, <1>13 DEF Allocated
  <2>2. binding[i] = Names!Unbound
    <3>1. \A n \in Label : Bound(tree, i, n) = 0
      BY <1>1, <1>2, BoundLeads
    <3>2. binding[i] = [n \in Label |-> Bound(tree, i, n)]
      BY <1>2, <1>5, BindingIs
    <3> QED
      BY <3>1, <3>2 DEF Names!Unbound, Label
  <2>3. ASSUME NEW x \in Inode \ {0}, NEW n \in Label PROVE binding'[x][n] # i
    <3>1. binding'[x][n] = Bound(tree', x, n)
      BY BindingIs
    <3>2. i \notin Allocated(tree')
      BY <1>13 DEF Allocated
    <3> QED
      BY <1>1, <1>5, <3>1, <3>2, BoundLeads
  <2>4. Names!Unbind(d, m)
    BY <1>7, <1>10, <1>11, <2>1, <2>2, <2>3 DEF Names!Unbind, Label
  <2> QED
    BY <1>6, <1>11, <2>4
<1> QED
  BY <1>2, <1>12, <1>13

LEMMA StepImplementsNames ==
  ASSUME NamedPaths, NInv, [Next]_vars
  PROVE  [Names!NamesNext]_(Names!names)
<1>1. NInv' /\ Changing(tree, tree')
  BY StepKeepsNames
<1>2. Names!NamesTypeOK'
  BY <1>1, BindingTyped, PTL
<1>3. CASE Resting(tree, tree')
  <2>1. binding' = binding
    BY <1>1, <1>3, SameBinding DEF Resting
  <2>2. Allocated(tree)' = Allocated(tree)
    BY <1>3 DEF Resting, Allocated
  <2> QED
    BY <2>1, <2>2 DEF Names!names
<1>4. CASE Making(tree, tree')
  BY <1>1, <1>2, <1>4, MakingMakes DEF Names!NamesNext
<1>5. CASE Naming(tree, tree')
  BY <1>1, <1>2, <1>5, NamingNames DEF Names!NamesNext
<1>6. CASE Dropping(tree, tree')
  BY <1>1, <1>2, <1>6, DroppingUnbinds DEF Names!NamesNext
<1> QED
  BY <1>1, <1>3, <1>4, <1>5, <1>6 DEF Changing

\* The server keeps bindings of names to objects: a request makes an object,
\* binds a name that led nowhere, or unbinds one; no other name changes but the
\* one whose slot a new entry takes, and an object goes only with its last name.
THEOREM NamesAreImplemented ==
  ASSUME SoundImages, FreshImages, NamedPaths
  PROVE  Spec => ImplementsNames
<1>1. NInv => Names!NamesInit
  BY BindingTyped DEF Names!NamesInit
<1>2. Init => NInv
  BY DEF Init, NInv, IInv, SoundImages, FreshImages
<1>3. NInv /\ [Next]_vars => [Names!NamesNext]_(Names!names)
  BY StepImplementsNames
<1> QED
  BY <1>1, <1>2, <1>3, NamesInvariance, PTL DEF Spec, ImplementsNames, Names!NamesSpec
=============================================================================
