---------------------------- MODULE YfsTreeProofs ----------------------------
(***************************************************************************)
(* What the operators of YfsTree return and preserve, for every tree, path *)
(* and number of inodes: path resolution ends, and no handler leaves a     *)
(* directory with an entry that its inode does not know of.                *)
(***************************************************************************)
EXTENDS YfsTree, FiniteSetTheorems, WellFoundedInduction, TLAPS

LEMMA Bounds ==
  /\ NUM_INODES \in Nat /\ NUM_INODES > 1
  /\ BLOCK_ENTRIES \in Nat /\ BLOCK_ENTRIES > 1
  /\ MAXSYMLINKS \in Nat
  /\ REUSES \in Nat /\ REUSES > 0
<1>1. REUSES \in Nat \ {0}
  BY TreeAssumption
<1>2. REUSES \in Nat /\ REUSES > 0
  BY <1>1
<1> QED
  BY <1>2, TreeAssumption

\* The root is an inode, and so is the header; the errors are none.
LEMMA InodesAre ==
  /\ 0 \in Inode /\ ROOTINODE \in Inode /\ ROOTINODE # 0
  /\ ERROR \notin Inode /\ LOST \notin Inode
  /\ \A i \in Inode : i \in Int /\ i >= 0
BY Bounds DEF Inode, ROOTINODE, ERROR, LOST

-----------------------------------------------------------------------------
(* Smallest numbers.                                                       *)

LEMMA Smallest ==
  ASSUME NEW S, S \subseteq Nat, S # {}
  PROVE  \E m \in S : \A k \in S : m <= k
<1>1. IsWellFoundedOn(OpToRel(<, Nat), Nat)
  BY NatLessThanWellFounded
<1>2. \E m \in S : \A k \in S : ~ (<<k, m>> \in OpToRel(<, Nat))
  BY <1>1, WFMin
<1>3. PICK m \in S : \A k \in S : ~ (<<k, m>> \in OpToRel(<, Nat))
  BY <1>2
<1>4. ASSUME NEW k \in S PROVE m <= k
  <2>1. k \in Nat /\ m \in Nat
    OBVIOUS
  <2>2. ~ (<<k, m>> \in OpToRel(<, Nat))
    BY <1>3
  <2>3. ~ (k < m)
    BY <2>1, <2>2 DEF OpToRel
  <2> QED
    BY <2>1, <2>3
<1> QED
  BY <1>4

LEMMA MinIs ==
  ASSUME NEW S, S \subseteq Nat, S # {}
  PROVE  Min(S) \in S /\ \A k \in S : Min(S) <= k
<1>1. \E m \in S : \A k \in S : m <= k
  BY Smallest
<1> QED
  BY <1>1 DEF Min

-----------------------------------------------------------------------------
(* Path resolution.                                                        *)

\* The results of resolvePath.
Result == Inode \union {ERROR, LOST}

\* A walk that is over, and one that is not.
Over(s)  == s.names = << >> \/ s.dir < 0

\* Walk u has followed more links than s, or as many with fewer names left.
Nearer(u, s) == u.links > s.links \/ (u.links = s.links /\ Len(u.names) < Len(s.names))

\* The induction over walks: a set of them has a walk nearest to its end.
LEMMA NearestWalk ==
  ASSUME NEW S, S \subseteq Walk, S # {}
  PROVE  \E s \in S : \A u \in S : ~ Nearer(u, s)
<1> DEFINE left(s) == MAXSYMLINKS - s.links
           L == {left(s) : s \in S}
<1>1. ASSUME NEW s \in S PROVE left(s) \in Nat /\ s.links \in Nat /\ Len(s.names) \in Nat
  <2>1. s.links \in 0 .. MAXSYMLINKS /\ s.names \in Seq(AnyName)
    BY DEF Walk
  <2> QED
    BY <2>1, Bounds
<1>2. L \subseteq Nat /\ L # {}
  BY <1>1
<1> HIDE DEF L
<1>3. PICK m \in L : \A k \in L : m <= k
  BY <1>2, Smallest
<1> DEFINE T == {s \in S : left(s) = m}
           N == {Len(s.names) : s \in T}
<1>4. N \subseteq Nat /\ N # {}
  BY <1>1, <1>3 DEF L
<1> HIDE DEF N
<1>5. PICK n \in N : \A k \in N : n <= k
  BY <1>4, Smallest
<1>6. PICK s \in S : left(s) = m /\ Len(s.names) = n
  BY <1>5 DEF N
<1>7. ASSUME NEW u \in S, Nearer(u, s) PROVE FALSE
  <2>1. left(u) \in L /\ m <= left(u)
    BY <1>3 DEF L
  <2>2. u.links = s.links /\ Len(u.names) < n
    BY <1>1, <1>6, <1>7, <2>1, Bounds DEF Nearer
  <2>3. Len(u.names) \in N
    BY <1>6, <2>2 DEF N
  <2> QED
    BY <1>1, <1>4, <1>5, <2>2, <2>3
<1> QED
  BY <1>7

\* The fields of a tree.
LEMMA FieldsIn ==
  ASSUME NEW t \in TreeType
  PROVE  /\ t.type \in [Inode -> Type] /\ t.nlink \in [Inode -> Int]
         /\ t.reuse \in [Inode -> 0 .. REUSES - 1] /\ t.target \in [Inode -> Path]
         /\ t.ents \in [Inode -> Seq(Entry)] /\ t.used \in SUBSET Inode
BY DEF TreeType

\* The entries of an inode.
LEMMA EntriesAre ==
  ASSUME NEW t \in TreeType, NEW d \in Inode
  PROVE  /\ t.ents[d] \in Seq(Entry) /\ Len(t.ents[d]) \in Nat
         /\ DOMAIN t.ents[d] = 1 .. Len(t.ents[d])
         /\ \A k \in DOMAIN t.ents[d] :
              /\ t.ents[d][k] \in Entry
              /\ t.ents[d][k].inum \in Inode /\ t.ents[d][k].name \in AnyName
<1>1. t.ents[d] \in Seq(Entry)
  BY DEF TreeType
<1>2. \A k \in DOMAIN t.ents[d] : t.ents[d][k] \in Entry
  BY <1>1
<1> QED
  BY <1>1, <1>2 DEF Entry

\* What findInumInDir gives for a directory that is there.
LEMMA FindIs ==
  ASSUME NEW t \in TreeType, NEW d \in Inode, NEW n,
         NEW i, i = findInumInDir(t, d, n)
  PROVE  /\ i \in Inode \union {ERROR}
         /\ i # 0 /\ i # ERROR =>
              \E k \in DOMAIN t.ents[d] : t.ents[d][k].inum = i /\ t.ents[d][k].name = n
<1> DEFINE es == t.ents[d]
           K  == {k \in 1 .. Len(es) : es[k].name = n}
<1>1. /\ Len(es) \in Nat /\ DOMAIN es = 1 .. Len(es)
      /\ \A k \in DOMAIN es : es[k].inum \in Inode
  BY EntriesAre
<1>2. CASE t.type[d] = INODE_FREE
  BY <1>2 DEF findInumInDir
<1>3. CASE t.type[d] # INODE_FREE /\ K = {}
  <2>1. i = 0
    BY <1>3 DEF findInumInDir, SelectInSeq
  <2> QED
    BY <2>1, InodesAre
<1>4. CASE t.type[d] # INODE_FREE /\ K # {}
  <2>1. Min(K) \in K
    <3>1. K \subseteq Nat
      BY <1>1
    <3> HIDE DEF K
    <3> QED
      BY <1>4, <3>1, MinIs
  <2>2. i = es[Min(K)].inum
    BY <1>4, <2>1 DEF findInumInDir, SelectInSeq
  <2> QED
    BY <1>1, <2>1, <2>2
<1> QED
  BY <1>2, <1>3, <1>4

\* A step of a walk that is not over is a walk nearer to its end.
LEMMA StepIsNearer ==
  ASSUME NEW t \in TreeType, NEW s \in Walk, ~ Over(s)
  PROVE  StepPath(t, s) \in Walk /\ (Over(StepPath(t, s)) \/ Nearer(StepPath(t, s), s))
<1> DEFINE i    == findInumInDir(t, s.dir, Head(s.names))
           rest == Tail(s.names)
           to   == t.target[i]
<1>1. /\ s = [dir |-> s.dir, names |-> s.names, links |-> s.links]
      /\ s.dir \in Inode /\ s.names \in Seq(AnyName) /\ s.names # << >>
      /\ s.links \in 0 .. MAXSYMLINKS
  BY DEF Walk, Over, ERROR, LOST
<1>2. rest \in Seq(AnyName) /\ Len(rest) = Len(s.names) - 1
  BY <1>1
<1>3. i \in Inode \union {ERROR}
  BY <1>1, FindIs
<1> HIDE DEF i
<1>4. CASE i = ERROR
  <2>1. StepPath(t, s) = [s EXCEPT !.dir = ERROR]
    BY <1>4 DEF StepPath, i
  <2> QED
    BY <1>1, <2>1 DEF Walk, Over, ERROR
<1>5. CASE i # ERROR /\ t.type[i] = INODE_FREE
  <2>1. StepPath(t, s) = [s EXCEPT !.dir = LOST]
    BY <1>5 DEF StepPath, i
  <2> QED
    BY <1>1, <2>1 DEF Walk, Over, LOST
<1>6. CASE i # ERROR /\ t.type[i] # INODE_FREE /\ t.type[i] # INODE_SYMLINK
  <2>1. StepPath(t, s) = [s EXCEPT !.dir = i, !.names = rest]
    BY <1>6 DEF StepPath, i
  <2>2. StepPath(t, s) = [[s EXCEPT !.dir = i] EXCEPT !.names = rest]
    BY <2>1
  <2>3. [s EXCEPT !.dir = i] = [dir |-> i, names |-> s.names, links |-> s.links]
    BY <1>1
  <2>4. StepPath(t, s) = [dir |-> i, names |-> rest, links |-> s.links]
    BY <2>2, <2>3
  <2> QED
    BY <1>1, <1>2, <1>3, <1>6, <2>4 DEF Walk, Nearer
<1>7. CASE i # ERROR /\ t.type[i] = INODE_SYMLINK /\ s.links >= MAXSYMLINKS
  <2>1. StepPath(t, s) = [s EXCEPT !.dir = ERROR]
    BY <1>7 DEF StepPath, i, INODE_SYMLINK, INODE_FREE
  <2> QED
    BY <1>1, <2>1 DEF Walk, Over, ERROR
<1>8. CASE i # ERROR /\ t.type[i] = INODE_SYMLINK /\ ~ (s.links >= MAXSYMLINKS)
  <2> DEFINE d == IF to.abs \/ (to = NoPath /\ rest # << >>) THEN ROOTINODE ELSE i
  <2>1. StepPath(t, s) = [dir |-> d, names |-> to.names \o rest, links |-> s.links + 1]
    BY <1>8 DEF StepPath, i, INODE_SYMLINK, INODE_FREE
  <2> HIDE DEF to
  <2>2. to.names \in Seq(AnyName)
    BY <1>3, <1>8 DEF TreeType, Path, to
  <2>3. d \in Inode
    BY <1>3, <1>8, InodesAre
  <2> HIDE DEF d
  <2>4. to.names \o rest \in Seq(AnyName)
    BY <1>2, <2>2
  <2>5. s.links + 1 \in 0 .. MAXSYMLINKS
    BY <1>1, <1>8, Bounds
  <2> QED
    BY <1>1, <1>3, <1>8, <2>1, <2>3, <2>4, <2>5 DEF Walk, Nearer
<1> QED
  BY <1>4, <1>5, <1>6, <1>7, <1>8

\* The walks with their results, as the smallest set that is closed under the
\* loop of resolvePath.
Closed(t, C) ==
  /\ C \subseteq Walk \X Result
  /\ \A s \in Walk : Over(s) => <<s, s.dir>> \in C
  /\ \A s \in Walk, r \in Result : ~ Over(s) /\ <<StepPath(t, s), r>> \in C => <<s, r>> \in C
Ends(t) == {x \in Walk \X Result : \A C : Closed(t, C) => x \in C}

LEMMA EndsClosed ==
  ASSUME NEW t
  PROVE  Closed(t, Ends(t))
<1>1. ASSUME NEW s \in Walk, Over(s) PROVE <<s, s.dir>> \in Ends(t)
  <2>1. s.dir \in Result
    BY DEF Walk, Result
  <2>2. \A C : Closed(t, C) => <<s, s.dir>> \in C
    BY <1>1 DEF Closed
  <2> QED
    BY <2>1, <2>2 DEF Ends
<1>2. ASSUME NEW s \in Walk, NEW r \in Result, ~ Over(s), <<StepPath(t, s), r>> \in Ends(t)
      PROVE  <<s, r>> \in Ends(t)
  <2>1. \A C : Closed(t, C) => <<StepPath(t, s), r>> \in C
    BY <1>2 DEF Ends
  <2>2. \A C : Closed(t, C) => <<s, r>> \in C
    BY <1>2, <2>1 DEF Closed
  <2> QED
    BY <2>2 DEF Ends
<1>3. Ends(t) \subseteq Walk \X Result
  BY DEF Ends
<1> QED
  BY <1>1, <1>2, <1>3 DEF Closed

\* Nothing is in it that the loop does not give.
LEMMA EndsInverse ==
  ASSUME NEW t, NEW s \in Walk, NEW r \in Result, <<s, r>> \in Ends(t)
  PROVE  /\ Over(s) => r = s.dir
         /\ ~ Over(s) => <<StepPath(t, s), r>> \in Ends(t)
<1> DEFINE C == Ends(t) \ {<<s, r>>}
<1>1. ~ Closed(t, C)
  <2>1. <<s, r>> \notin C
    OBVIOUS
  <2> HIDE DEF C
  <2> QED
    BY <2>1 DEF Ends
<1>2. C \subseteq Walk \X Result
  BY DEF Ends
<1>3. ASSUME Over(s), r # s.dir PROVE FALSE
  <2>1. ASSUME NEW u \in Walk, Over(u) PROVE <<u, u.dir>> \in C
    <3>1. <<u, u.dir>> \in Ends(t)
      BY <2>1, EndsClosed DEF Closed
    <3> QED
      BY <1>3, <3>1
  <2>2. ASSUME NEW u \in Walk, NEW q \in Result, ~ Over(u), <<StepPath(t, u), q>> \in C
        PROVE  <<u, q>> \in C
    <3>1. <<u, q>> \in Ends(t)
      BY <2>2, EndsClosed DEF Closed
    <3> QED
      BY <1>3, <2>2, <3>1
  <2> QED
    BY <1>1, <1>2, <2>1, <2>2 DEF Closed
<1>4. ASSUME ~ Over(s), <<StepPath(t, s), r>> \notin Ends(t) PROVE FALSE
  <2>1. ASSUME NEW u \in Walk, Over(u) PROVE <<u, u.dir>> \in C
    <3>1. <<u, u.dir>> \in Ends(t)
      BY <2>1, EndsClosed DEF Closed
    <3> QED
      BY <1>4, <2>1, <3>1
  <2>2. ASSUME NEW u \in Walk, NEW q \in Result, ~ Over(u), <<StepPath(t, u), q>> \in C
        PROVE  <<u, q>> \in C
    <3>1. <<u, q>> \in Ends(t)
      BY <2>2, EndsClosed DEF Closed
    <3> QED
      BY <1>4, <2>2, <3>1
  <2> QED
    BY <1>1, <1>2, <2>1, <2>2 DEF Closed
<1> QED
  BY <1>3, <1>4

\* Every walk has a result: one without would have a nearest one to its end.
LEMMA EndsTotal ==
  ASSUME NEW t \in TreeType, NEW s \in Walk
  PROVE  \E r \in Result : <<s, r>> \in Ends(t)
<1> DEFINE S == {u \in Walk : \A r \in Result : <<u, r>> \notin Ends(t)}
<1>1. ASSUME S # {} PROVE FALSE
  <2>1. S \subseteq Walk
    OBVIOUS
  <2>2. PICK u \in S : \A v \in S : ~ Nearer(v, u)
    <3> HIDE DEF S
    <3> QED
      BY <1>1, <2>1, NearestWalk
  <2>3. ~ Over(u)
    BY EndsClosed DEF Closed, Walk, Result
  <2>4. StepPath(t, u) \in Walk /\ (Over(StepPath(t, u)) \/ Nearer(StepPath(t, u), u))
    BY <2>3, StepIsNearer
  <2>5. \E r \in Result : <<StepPath(t, u), r>> \in Ends(t)
    <3>1. CASE Over(StepPath(t, u))
      BY <2>4, <3>1, EndsClosed DEF Closed, Walk, Result
    <3>2. CASE Nearer(StepPath(t, u), u)
      BY <2>2, <2>4, <3>2
    <3> QED
      BY <2>4, <3>1, <3>2
  <2> QED
    BY <2>3, <2>5, EndsClosed DEF Closed
<1> QED
  BY <1>1

\* And one only.
LEMMA EndsUnique ==
  ASSUME NEW t \in TreeType, NEW s \in Walk, NEW r \in Result, NEW q \in Result,
         <<s, r>> \in Ends(t), <<s, q>> \in Ends(t)
  PROVE  r = q
<1> DEFINE Two(u) == \E x, y \in Result : x # y /\ <<u, x>> \in Ends(t) /\ <<u, y>> \in Ends(t)
           S == {u \in Walk : Two(u)}
<1>1. ASSUME S # {} PROVE FALSE
  <2>1. S \subseteq Walk
    OBVIOUS
  <2>2. PICK u \in S : \A v \in S : ~ Nearer(v, u)
    <3> HIDE DEF S
    <3> QED
      BY <1>1, <2>1, NearestWalk
  <2>3. PICK x, y \in Result : x # y /\ <<u, x>> \in Ends(t) /\ <<u, y>> \in Ends(t)
    OBVIOUS
  <2>4. ~ Over(u)
    BY <2>3, EndsInverse
  <2>5. StepPath(t, u) \in Walk /\ (Over(StepPath(t, u)) \/ Nearer(StepPath(t, u), u))
    BY <2>4, StepIsNearer
  <2>6. <<StepPath(t, u), x>> \in Ends(t) /\ <<StepPath(t, u), y>> \in Ends(t)
    BY <2>3, <2>4, EndsInverse
  <2>7. ~ Over(StepPath(t, u))
    BY <2>3, <2>5, <2>6, EndsInverse
  <2> QED
    BY <2>2, <2>3, <2>5, <2>6, <2>7
<1> QED
  BY <1>1

\* The function that the recursion in resolvePath defines.
IsWalk(t, f) ==
  f = [s \in Walk |-> IF s.names = << >> \/ s.dir < 0 THEN s.dir ELSE f[StepPath(t, s)]]

LEMMA WalkExists ==
  ASSUME NEW t \in TreeType
  PROVE  \E f : IsWalk(t, f)
<1> DEFINE end(s) == CHOOSE r \in Result : <<s, r>> \in Ends(t)
           f == [s \in Walk |-> end(s)]
<1>1. ASSUME NEW s \in Walk PROVE end(s) \in Result /\ <<s, end(s)>> \in Ends(t)
  BY EndsTotal
<1>2. ASSUME NEW s \in Walk
      PROVE  end(s) = IF s.names = << >> \/ s.dir < 0 THEN s.dir ELSE f[StepPath(t, s)]
  <2>1. CASE Over(s)
    <3>1. end(s) = s.dir
      <4>1. end(s) \in Result /\ <<s, end(s)>> \in Ends(t)
        BY <1>1
      <4> HIDE DEF end
      <4> QED
        BY <2>1, <4>1, EndsInverse
    <3> HIDE DEF end
    <3> QED
      BY <2>1, <3>1 DEF Over
  <2>2. CASE ~ Over(s)
    <3>1. StepPath(t, s) \in Walk
      BY <2>2, StepIsNearer
    <3>2. <<StepPath(t, s), end(s)>> \in Ends(t)
      <4> HIDE DEF end
      <4> QED
        BY <1>1, <2>2, EndsInverse
    <3>3. end(StepPath(t, s)) = end(s)
      <4>1. end(StepPath(t, s)) \in Result /\ <<StepPath(t, s), end(StepPath(t, s))>> \in Ends(t)
        BY <1>1, <3>1
      <4>2. end(s) \in Result
        BY <1>1
      <4> HIDE DEF end
      <4> QED
        BY <3>1, <3>2, <4>1, <4>2, EndsUnique
    <3> QED
      BY <2>2, <3>1, <3>3 DEF Over
  <2> QED
    BY <2>1, <2>2
<1>3. f = [s \in Walk |-> IF s.names = << >> \/ s.dir < 0 THEN s.dir ELSE f[StepPath(t, s)]]
  <2> HIDE DEF end
  <2>1. DOMAIN f = Walk /\ \A s \in Walk : f[s] = end(s)
    OBVIOUS
  <2>2. f = [s \in Walk |-> f[s]]
    BY <2>1
  <2> HIDE DEF f
  <2> QED
    BY <1>2, <2>1, <2>2
<1> QED
  BY <1>3 DEF IsWalk

\* Its values are inodes or errors.
LEMMA WalkInRange ==
  ASSUME NEW t \in TreeType, NEW f, IsWalk(t, f), NEW s \in Walk
  PROVE  f[s] \in Result
<1> DEFINE S == {u \in Walk : f[u] \notin Result}
<1>1. ASSUME S # {} PROVE FALSE
  <2>1. S \subseteq Walk
    OBVIOUS
  <2>2. PICK u \in S : \A v \in S : ~ Nearer(v, u)
    <3> HIDE DEF S
    <3> QED
      BY <1>1, <2>1, NearestWalk
  <2>3. \A v \in Walk : Over(v) => f[v] \in Result
    BY DEF IsWalk, Over, Walk, Result
  <2>4. ~ Over(u)
    BY <2>3
  <2>5. StepPath(t, u) \in Walk /\ (Over(StepPath(t, u)) \/ Nearer(StepPath(t, u), u))
    BY <2>4, StepIsNearer
  <2>6. f[u] = f[StepPath(t, u)]
    BY <2>4 DEF IsWalk, Over
  <2> QED
    BY <2>2, <2>3, <2>5, <2>6
<1> QED
  BY <1>1

\* resolvePath ends for every tree and path, also through links that lead to
\* themselves, and gives an inode, 0 for a missing name, or an error.
THEOREM ResolveInRange ==
  ASSUME NEW t \in TreeType, NEW p \in Path, NEW cur \in Inode
  PROVE  resolvePath(t, p, cur) \in Result
<1> DEFINE walk == CHOOSE f : IsWalk(t, f)
           s == [dir |-> IF p.abs THEN ROOTINODE ELSE cur, names |-> p.names, links |-> 0]
<1>1. IsWalk(t, walk)
  BY WalkExists
<1>2. s \in Walk
  <2>1. p.names \in Seq(AnyName)
    BY DEF Path
  <2>2. 0 \in 0 .. MAXSYMLINKS
    BY Bounds
  <2> QED
    BY <2>1, <2>2, InodesAre DEF Walk
<1>3. resolvePath(t, p, cur) = walk[s]
  BY DEF resolvePath, IsWalk
<1> HIDE DEF walk, s
<1> QED
  BY <1>1, <1>2, <1>3, WalkInRange

\* Walk u is walk s after one more link.
OneLinkMore(u, s) == u.dir = s.dir /\ u.names = s.names /\ u.links = s.links + 1

LEMMA StepsOneLinkMore ==
  ASSUME NEW t \in TreeType, NEW s \in Walk, NEW u \in Walk, OneLinkMore(u, s), ~ Over(s)
  PROVE  StepPath(t, u).dir = ERROR \/ OneLinkMore(StepPath(t, u), StepPath(t, s))
<1> DEFINE i    == findInumInDir(t, s.dir, Head(s.names))
           rest == Tail(s.names)
           to   == t.target[i]
<1>1. /\ s = [dir |-> s.dir, names |-> s.names, links |-> s.links]
      /\ u = [dir |-> s.dir, names |-> s.names, links |-> s.links + 1]
      /\ s.links \in Nat
  BY Bounds DEF Walk, OneLinkMore
<1>2. /\ i = findInumInDir(t, u.dir, Head(u.names)) /\ rest = Tail(u.names)
      /\ u.links = s.links + 1 /\ u.dir = s.dir /\ u.names = s.names
  BY DEF OneLinkMore
<1> HIDE DEF i, rest, to
<1>3. CASE i = ERROR
  <2>1. StepPath(t, u) = [u EXCEPT !.dir = ERROR]
    BY <1>2, <1>3 DEF StepPath
  <2> QED
    BY <1>1, <2>1
<1>4. CASE i # ERROR /\ t.type[i] = INODE_FREE
  <2>1. StepPath(t, u) = [u EXCEPT !.dir = LOST]
    BY <1>2, <1>4 DEF StepPath
  <2>2. StepPath(t, s) = [s EXCEPT !.dir = LOST]
    BY <1>4 DEF StepPath, i
  <2> QED
    BY <1>1, <2>1, <2>2 DEF OneLinkMore
<1>5. CASE i # ERROR /\ t.type[i] # INODE_FREE /\ t.type[i] # INODE_SYMLINK
  <2>1. StepPath(t, u) = [u EXCEPT !.dir = i, !.names = rest]
    BY <1>2, <1>5 DEF StepPath
  <2>2. StepPath(t, s) = [s EXCEPT !.dir = i, !.names = rest]
    BY <1>5 DEF StepPath, i, rest
  <2> QED
    BY <1>1, <2>1, <2>2 DEF OneLinkMore
<1>6. CASE i # ERROR /\ t.type[i] # INODE_FREE /\ t.type[i] = INODE_SYMLINK /\ u.links >= MAXSYMLINKS
  <2>1. StepPath(t, u) = [u EXCEPT !.dir = ERROR]
    BY <1>2, <1>6 DEF StepPath
  <2> QED
    BY <1>1, <2>1
<1>7. CASE i # ERROR /\ t.type[i] # INODE_FREE /\ t.type[i] = INODE_SYMLINK /\ ~ (u.links >= MAXSYMLINKS)
  <2> DEFINE d  == IF to.abs \/ (to = NoPath /\ rest # << >>) THEN ROOTINODE ELSE i
             ns == to.names \o rest
  <2>1. StepPath(t, u) = [dir |-> d, names |-> ns, links |-> u.links + 1]
    BY <1>2, <1>7 DEF StepPath, to
  <2>2. ~ (s.links >= MAXSYMLINKS)
    BY <1>1, <1>2, <1>7, Bounds
  <2>3. StepPath(t, s) = [dir |-> d, names |-> ns, links |-> s.links + 1]
    BY <1>7, <2>2 DEF StepPath, to, i, rest
  <2> HIDE DEF d, ns
  <2> QED
    BY <1>2, <2>1, <2>3 DEF OneLinkMore
<1> QED
  BY <1>3, <1>4, <1>5, <1>6, <1>7

\* After one link more a walk ends where it did, or after too many links.
LEMMA WalksOneLinkMore ==
  ASSUME NEW t \in TreeType, NEW f, IsWalk(t, f),
         NEW s \in Walk, NEW u \in Walk, OneLinkMore(u, s)
  PROVE  f[u] \in {f[s], ERROR}
<1> DEFINE Differs(v) == \E w \in Walk : OneLinkMore(w, v) /\ f[w] \notin {f[v], ERROR}
           S == {v \in Walk : Differs(v)}
<1>1. ASSUME S # {} PROVE FALSE
  <2>1. S \subseteq Walk
    OBVIOUS
  <2>2. PICK v \in S : \A x \in S : ~ Nearer(x, v)
    <3> HIDE DEF S
    <3> QED
      BY <1>1, <2>1, NearestWalk
  <2>3. PICK w \in Walk : OneLinkMore(w, v) /\ f[w] \notin {f[v], ERROR}
    OBVIOUS
  <2>4. v \in Walk /\ (Over(w) <=> Over(v)) /\ w.dir = v.dir
    BY <2>3 DEF OneLinkMore, Over
  <2>5. /\ \A x \in Walk : Over(x) => f[x] = x.dir
        /\ \A x \in Walk : ~ Over(x) => f[x] = f[StepPath(t, x)]
    BY DEF IsWalk, Over
  <2>6. ~ Over(v) /\ ~ Over(w)
    BY <2>3, <2>4, <2>5
  <2>7. PICK a : a = StepPath(t, v)
    OBVIOUS
  <2>8. PICK b : b = StepPath(t, w)
    OBVIOUS
  <2>9. /\ a \in Walk /\ (Over(a) \/ Nearer(a, v)) /\ b \in Walk
        /\ f[v] = f[a] /\ f[w] = f[b]
    BY <2>4, <2>5, <2>6, <2>7, <2>8, StepIsNearer
  <2>10. b.dir = ERROR \/ OneLinkMore(b, a)
    BY <2>3, <2>4, <2>6, <2>7, <2>8, StepsOneLinkMore
  <2>11. CASE b.dir = ERROR
    <3>1. Over(b)
      BY <2>11 DEF Over, ERROR
    <3> QED
      BY <2>3, <2>5, <2>9, <2>11, <3>1
  <2>12. CASE OneLinkMore(b, a) /\ Over(a)
    <3>1. Over(b) /\ b.dir = a.dir
      BY <2>12 DEF OneLinkMore, Over
    <3> QED
      BY <2>3, <2>5, <2>9, <2>12, <3>1
  <2>13. CASE OneLinkMore(b, a) /\ Nearer(a, v)
    <3>1. a \notin S
      BY <2>2, <2>13
    <3> QED
      BY <2>3, <2>9, <2>13, <3>1
  <2> QED
    BY <2>9, <2>10, <2>11, <2>12, <2>13
<1> QED
  BY <1>1

\* What resolvePath is, as a walk.
Start(p, cur) == [dir |-> IF p.abs THEN ROOTINODE ELSE cur, names |-> p.names, links |-> 0]

LEMMA ResolveIsWalk ==
  ASSUME NEW t \in TreeType
  PROVE  \E f : /\ IsWalk(t, f)
                /\ \A p, cur : resolvePath(t, p, cur) = f[Start(p, cur)]
<1> DEFINE walk == CHOOSE f : IsWalk(t, f)
<1>1. IsWalk(t, walk)
  BY WalkExists
<1>2. \A p, cur : resolvePath(t, p, cur) = walk[Start(p, cur)]
  BY DEF resolvePath, IsWalk, Start
<1> HIDE DEF walk
<1> QED
  BY <1>1, <1>2

LEMMA StartIsWalk ==
  ASSUME NEW p \in Path, NEW cur \in Inode
  PROVE  Start(p, cur) \in Walk
<1>1. p.names \in Seq(AnyName) /\ 0 \in 0 .. MAXSYMLINKS
  BY Bounds DEF Path
<1> QED
  BY <1>1, InodesAre DEF Walk, Start

\* A path through an absolute link in the root is the path with its target in
\* the place of the link, or there are too many links.
LEMMA LinkIsTarget ==
  ASSUME NEW t \in TreeType, NEW l \in AnyName, NEW n \in AnyName,
         NEW i \in Inode, i = findInumInDir(t, ROOTINODE, l),
         t.type[i] = INODE_SYMLINK, t.target[i].abs,
         NEW via, via = [abs |-> TRUE, names |-> <<l, n>>],
         NEW direct, direct = [abs |-> TRUE, names |-> Append(t.target[i].names, n)]
  PROVE  resolvePath(t, via, ROOTINODE) \in {resolvePath(t, direct, ROOTINODE), ERROR}
<1>1. PICK f : IsWalk(t, f) /\ \A p, cur : resolvePath(t, p, cur) = f[Start(p, cur)]
  BY ResolveIsWalk
<1> DEFINE s == [dir |-> ROOTINODE, names |-> <<l, n>>, links |-> 0]
           d == [dir |-> ROOTINODE, names |-> Append(t.target[i].names, n), links |-> 0]
<1>2. Start(via, ROOTINODE) = s /\ Start(direct, ROOTINODE) = d
  BY DEF Start
<1>3. t.target[i].names \in Seq(AnyName)
  BY FieldsIn DEF Path
<1>4. s \in Walk /\ d \in Walk
  <2>1. <<l, n>> \in Seq(AnyName) /\ Append(t.target[i].names, n) \in Seq(AnyName)
    BY <1>3
  <2>2. 0 \in 0 .. MAXSYMLINKS
    BY Bounds
  <2> QED
    BY <2>1, <2>2, InodesAre DEF Walk
<1>5. ~ Over(s) /\ Head(s.names) = l /\ Tail(s.names) = <<n>> /\ s.dir = ROOTINODE /\ s.links = 0
  BY DEF Over, ROOTINODE
<1>6. i # ERROR /\ t.type[i] # INODE_FREE
  BY InodesAre DEF INODE_FREE, INODE_SYMLINK
<1>7. f[s] = f[StepPath(t, s)]
  <2>1. \A x \in Walk : ~ Over(x) => f[x] = f[StepPath(t, x)]
    BY <1>1 DEF IsWalk, Over
  <2> HIDE DEF s
  <2> QED
    BY <1>4, <1>5, <2>1
<1>8. CASE 0 >= MAXSYMLINKS
  <2>1. StepPath(t, s) = [s EXCEPT !.dir = ERROR]
    BY <1>5, <1>6, <1>8 DEF StepPath
  <2>2. StepPath(t, s).dir = ERROR /\ StepPath(t, s) \in Walk
    BY <1>4, <1>5, <2>1, StepIsNearer
  <2>3. f[StepPath(t, s)] = ERROR
    BY <1>1, <2>2 DEF IsWalk, ERROR
  <2> QED
    BY <1>1, <1>2, <1>7, <2>3
<1>9. CASE ~ (0 >= MAXSYMLINKS)
  <2> DEFINE u == StepPath(t, s)
  <2>1. u = [dir |-> ROOTINODE, names |-> t.target[i].names \o <<n>>, links |-> 0 + 1]
    BY <1>5, <1>6, <1>9 DEF StepPath
  <2>2. t.target[i].names \o <<n>> = Append(t.target[i].names, n)
    <3>1. PICK ns \in Seq(AnyName) : ns = t.target[i].names
      BY <1>3
    <3>2. ns \o <<n>> = Append(ns, n)
      BY <3>1
    <3> QED
      BY <3>1, <3>2
  <2>3. u \in Walk
    BY <1>4, <1>5, StepIsNearer
  <2> HIDE DEF u
  <2>4. OneLinkMore(u, d)
    BY <2>1, <2>2 DEF OneLinkMore
  <2> HIDE DEF d, s
  <2>5. f[u] \in {f[d], ERROR}
    BY <1>1, <1>4, <2>3, <2>4, WalksOneLinkMore
  <2> QED
    BY <1>1, <1>2, <1>7, <2>5 DEF u
<1> QED
  BY <1>8, <1>9

-----------------------------------------------------------------------------
(* Trees as records, one field at a time.                                  *)

Tree(ty, nl, re, ta, en, us) ==
  [type |-> ty, nlink |-> nl, reuse |-> re, target |-> ta, ents |-> en, used |-> us]

LEMMA TreeIs ==
  ASSUME NEW t \in TreeType
  PROVE  t = Tree(t.type, t.nlink, t.reuse, t.target, t.ents, t.used)
BY DEF TreeType, Tree

LEMMA FieldsAre ==
  ASSUME NEW t, NEW ty, NEW nl, NEW re, NEW ta, NEW en, NEW us, t = Tree(ty, nl, re, ta, en, us)
  PROVE  /\ t.type = ty /\ t.nlink = nl /\ t.reuse = re
         /\ t.target = ta /\ t.ents = en /\ t.used = us
BY DEF Tree

LEMMA FreeInodeIs ==
  ASSUME NEW t \in TreeType, NEW i
  PROVE  FreeInode(t, i)
           = Tree([t.type EXCEPT ![i] = INODE_FREE], [t.nlink EXCEPT ![i] = 0], t.reuse,
                  [t.target EXCEPT ![i] = NoPath], [t.ents EXCEPT ![i] = << >>], t.used \ {i})
<1> DEFINE t1 == [t EXCEPT !.type[i] = INODE_FREE]
           t2 == [t1 EXCEPT !.nlink[i] = 0]
           t3 == [t2 EXCEPT !.target[i] = NoPath]
           t4 == [t3 EXCEPT !.ents[i] = << >>]
           t5 == [t4 EXCEPT !.used = @ \ {i}]
           ty == [t.type EXCEPT ![i] = INODE_FREE]
           nl == [t.nlink EXCEPT ![i] = 0]
           ta == [t.target EXCEPT ![i] = NoPath]
           en == [t.ents EXCEPT ![i] = << >>]
<1>1. FreeInode(t, i) = t5
  BY DEF FreeInode
<1>2. t1 = Tree(ty, t.nlink, t.reuse, t.target, t.ents, t.used)
  BY TreeIs DEF Tree
<1>3. t2 = Tree(ty, nl, t.reuse, t.target, t.ents, t.used)
  <2> HIDE DEF t1, ty
  <2> QED
    BY <1>2 DEF Tree
<1>4. t3 = Tree(ty, nl, t.reuse, ta, t.ents, t.used)
  <2> HIDE DEF t2, ty, nl
  <2> QED
    BY <1>3 DEF Tree
<1>5. t4 = Tree(ty, nl, t.reuse, ta, en, t.used)
  <2> HIDE DEF t3, ty, nl, ta
  <2> QED
    BY <1>4 DEF Tree
<1>6. t5 = Tree(ty, nl, t.reuse, ta, en, t.used \ {i})
  <2> HIDE DEF t4, ty, nl, ta, en
  <2>1. t4.used = t.used
    BY <1>5, FieldsAre
  <2>2. t5 = [t4 EXCEPT !.used = t.used \ {i}]
    BY <2>1
  <2> QED
    BY <1>5, <2>2 DEF Tree
<1> QED
  BY <1>1, <1>6

LEMMA LinkableIs ==
  ASSUME NEW t \in TreeType, NEW i \in Inode, NEW ty
  PROVE  Linkable(t, i, ty)
           = Tree([t.type EXCEPT ![i] = ty], [t.nlink EXCEPT ![i] = 0],
                  [t.reuse EXCEPT ![i] = ((t.reuse[i] + 1) % REUSES)], t.target,
                  [t.ents EXCEPT ![i] = << >>], t.used \union {i})
<1> DEFINE t1 == [t EXCEPT !.type[i] = ty]
           t2 == [t1 EXCEPT !.nlink[i] = 0]
           t3 == [t2 EXCEPT !.ents[i] = << >>]
           t4 == [t3 EXCEPT !.reuse[i] = ((@ + 1) % REUSES)]
           t5 == [t4 EXCEPT !.used = @ \union {i}]
           tp == [t.type EXCEPT ![i] = ty]
           nl == [t.nlink EXCEPT ![i] = 0]
           re == [t.reuse EXCEPT ![i] = ((t.reuse[i] + 1) % REUSES)]
           en == [t.ents EXCEPT ![i] = << >>]
<1>1. Linkable(t, i, ty) = t5
  BY DEF Linkable
<1>2. t1 = Tree(tp, t.nlink, t.reuse, t.target, t.ents, t.used)
  BY TreeIs DEF Tree
<1>3. t2 = Tree(tp, nl, t.reuse, t.target, t.ents, t.used)
  <2> HIDE DEF t1, tp
  <2> QED
    BY <1>2 DEF Tree
<1>4. t3 = Tree(tp, nl, t.reuse, t.target, en, t.used)
  <2> HIDE DEF t2, tp, nl
  <2> QED
    BY <1>3 DEF Tree
<1>5. t4 = Tree(tp, nl, re, t.target, en, t.used)
  <2> HIDE DEF t3, tp, nl, en
  <2>1. t3.reuse = t.reuse
    BY <1>4, FieldsAre
  <2>2. t4 = [t3 EXCEPT !.reuse[i] = ((t.reuse[i] + 1) % REUSES)]
    BY <2>1
  <2> QED
    BY <1>4, <2>2 DEF Tree
<1>6. t5 = Tree(tp, nl, re, t.target, en, t.used \union {i})
  <2> HIDE DEF t4, tp, nl, en, re
  <2>1. t4.used = t.used
    BY <1>5, FieldsAre
  <2>2. t5 = [t4 EXCEPT !.used = t.used \union {i}]
    BY <2>1
  <2> QED
    BY <1>5, <2>2 DEF Tree
<1> QED
  BY <1>1, <1>6

-----------------------------------------------------------------------------
(* Counting entries.                                                       *)

LEMMA LinksAre ==
  ASSUME NEW t \in TreeType, NEW i
  PROVE  /\ IsFiniteSet(Links(t, i)) /\ Cardinality(Links(t, i)) \in Nat
         /\ \A x \in Links(t, i) : \E d \in Inode : \E k \in DOMAIN t.ents[d] :
              x = <<d, k>> /\ t.ents[d][k].inum = i
         /\ \A d \in Inode : \A k \in DOMAIN t.ents[d] :
              t.ents[d][k].inum = i <=> <<d, k>> \in Links(t, i)
<1> DEFINE Slots(d) == {d} \X DOMAIN t.ents[d]
           All == {Slots(d) : d \in Inode}
<1>1. IsFiniteSet(Inode)
  BY Bounds, FS_Interval DEF Inode
<1>2. ASSUME NEW d \in Inode PROVE IsFiniteSet(Slots(d))
  <2>1. IsFiniteSet(DOMAIN t.ents[d])
    BY EntriesAre, FS_Interval
  <2>2. IsFiniteSet({d})
    BY FS_Singleton
  <2> QED
    BY <2>1, <2>2, FS_Product
<1>3. IsFiniteSet(All)
  <2> DEFINE f == [d \in Inode |-> Slots(d)]
  <2>1. f \in Surjection(Inode, All)
    BY DEF Surjection
  <2> HIDE DEF f, All
  <2> QED
    BY <1>1, <2>1, FS_Surjection
<1>4. IsFiniteSet(UNION All)
  BY <1>2, <1>3, FS_UNION
<1>5. Links(t, i) \subseteq UNION All
  BY DEF Links
<1>6. IsFiniteSet(Links(t, i)) /\ Cardinality(Links(t, i)) \in Nat
  BY <1>4, <1>5, FS_Subset, FS_CardinalityType
<1>7. ASSUME NEW x \in Links(t, i)
      PROVE  \E d \in Inode : \E k \in DOMAIN t.ents[d] : x = <<d, k>> /\ t.ents[d][k].inum = i
  BY DEF Links
<1>8. ASSUME NEW d \in Inode, NEW k \in DOMAIN t.ents[d]
      PROVE  t.ents[d][k].inum = i <=> <<d, k>> \in Links(t, i)
  BY DEF Links
<1> QED
  BY <1>6, <1>7, <1>8

\* All links of i in u, but perhaps one at slot k of d, are links of i in t.
LEMMA LinksAtMostOneMore ==
  ASSUME NEW t \in TreeType, NEW u \in TreeType, NEW i, NEW d, NEW k,
         \A e \in Inode : \A l \in DOMAIN u.ents[e] :
           u.ents[e][l].inum = i /\ <<e, l>> # <<d, k>>
             => l \in DOMAIN t.ents[e] /\ t.ents[e][l].inum = i
  PROVE  Cardinality(Links(u, i)) <= Cardinality(Links(t, i)) + 1
<1>1. Links(u, i) \subseteq Links(t, i) \union {<<d, k>>}
  BY LinksAre
<1>2. /\ IsFiniteSet(Links(t, i) \union {<<d, k>>})
      /\ Cardinality(Links(t, i) \union {<<d, k>>}) <= Cardinality(Links(t, i)) + 1
  <2> DEFINE L == Links(t, i)
             x == <<d, k>>
  <2>1. IsFiniteSet(L) /\ Cardinality(L) \in Nat
    BY LinksAre
  <2> HIDE DEF L, x
  <2>2. /\ IsFiniteSet(L \union {x})
        /\ Cardinality(L \union {x}) = IF x \in L THEN Cardinality(L) ELSE Cardinality(L) + 1
    BY <2>1, FS_AddElement
  <2>3. Cardinality(L \union {x}) <= Cardinality(L) + 1
    BY <2>1, <2>2
  <2> QED
    BY <2>2, <2>3 DEF L, x
<1>3. /\ Cardinality(Links(u, i)) <= Cardinality(Links(t, i) \union {<<d, k>>})
      /\ Cardinality(Links(t, i) \union {<<d, k>>}) \in Nat
  BY <1>1, <1>2, FS_Subset, FS_CardinalityType
<1>4. Cardinality(Links(t, i)) \in Nat /\ Cardinality(Links(u, i)) \in Nat
  BY LinksAre
<1> HIDE DEF Links
<1> QED
  BY <1>2, <1>3, <1>4

\* All of them are.
LEMMA LinksNoMore ==
  ASSUME NEW t \in TreeType, NEW u \in TreeType, NEW i,
         \A e \in Inode : \A l \in DOMAIN u.ents[e] :
           u.ents[e][l].inum = i => l \in DOMAIN t.ents[e] /\ t.ents[e][l].inum = i
  PROVE  /\ Links(u, i) \subseteq Links(t, i)
         /\ Cardinality(Links(u, i)) <= Cardinality(Links(t, i))
<1>1. Links(u, i) \subseteq Links(t, i)
  BY LinksAre
<1> QED
  BY <1>1, LinksAre, FS_Subset

\* And one of i in t is none in u.
LEMMA LinksOneLess ==
  ASSUME NEW t \in TreeType, NEW u \in TreeType, NEW i,
         Links(u, i) \subseteq Links(t, i), NEW x \in Links(t, i), x \notin Links(u, i)
  PROVE  Cardinality(Links(u, i)) <= Cardinality(Links(t, i)) - 1
<1>1. Links(u, i) \subseteq Links(t, i) \ {x}
  OBVIOUS
<1>2. /\ IsFiniteSet(Links(t, i) \ {x})
      /\ Cardinality(Links(t, i) \ {x}) = Cardinality(Links(t, i)) - 1
  BY LinksAre, FS_RemoveElement
<1> QED
  BY <1>1, <1>2, FS_Subset

-----------------------------------------------------------------------------
(* What every handler keeps.                                               *)

\* Entries are in directories, and a slot without an inode has no name.
Placed(t) ==
  \A d \in Inode : \A k \in DOMAIN t.ents[d] :
    /\ t.ents[d][k].inum # 0 => t.type[d] = INODE_DIRECTORY
    /\ t.ents[d][k].inum = 0 => t.ents[d][k].name = ""

LEMMA PlacedAt ==
  ASSUME NEW t, Placed(t), NEW d \in Inode, NEW k \in DOMAIN t.ents[d]
  PROVE  /\ t.ents[d][k].inum # 0 => t.type[d] = INODE_DIRECTORY
         /\ t.ents[d][k].inum = 0 => t.ents[d][k].name = ""
BY Zenon DEF Placed

LEMMA PlacedSame ==
  ASSUME NEW t, Placed(t), NEW u, u.ents = t.ents, u.type = t.type
  PROVE  Placed(u)
BY Zenon DEF Placed

\* No inode has more entries than its nlink says; one that is free has none.
Covered(t) == \A i \in Inode \ {0} : Cardinality(Links(t, i)) <= t.nlink[i]

Sound(t) ==
  /\ t \in TreeType
  /\ t.type[0] = FS_HEADER /\ t.type[ROOTINODE] = INODE_DIRECTORY
  /\ t.used = {0} \union Allocated(t)
  /\ \A i \in Inode : t.type[i] = INODE_FREE => t.nlink[i] = 0 /\ t.ents[i] = << >>
  /\ Placed(t)
  /\ Covered(t)

\* An inode that is free has no entry anywhere.
LEMMA FreeHasNoEntry ==
  ASSUME NEW t, Sound(t), NEW i \in Inode \ {0}, t.type[i] = INODE_FREE
  PROVE  Links(t, i) = {}
<1>1. t \in TreeType /\ Cardinality(Links(t, i)) <= 0
  BY DEF Sound, Covered
<1>2. Cardinality(Links(t, i)) = 0
  BY <1>1, LinksAre
<1> QED
  BY <1>1, <1>2, LinksAre, FS_EmptySet

\* get_new_inode takes an inode that is free.
LEMMA NewInodeIs ==
  ASSUME NEW t, Sound(t), ~ (Inode \subseteq t.used)
  PROVE  /\ NewInode(t) \in Inode \ {0} /\ NewInode(t) \notin t.used
         /\ t.type[NewInode(t)] = INODE_FREE /\ NewInode(t) # ROOTINODE
<1> DEFINE S == Inode \ t.used
<1>1. S \subseteq Nat /\ S # {}
  BY InodesAre
<1>2. \E m \in S : \A k \in S : m <= k
  <2> HIDE DEF S
  <2> QED
    BY <1>1, Smallest
<1>3. NewInode(t) \in S
  BY <1>2 DEF NewInode
<1> QED
  BY <1>3 DEF Sound, Allocated, INODE_FREE, INODE_DIRECTORY

LEMMA LinkableFields ==
  ASSUME NEW t \in TreeType, NEW i \in Inode, NEW ty \in Type,
         NEW u, u = Linkable(t, i, ty)
  PROVE  /\ u \in TreeType /\ u.used = t.used \union {i} /\ u.target = t.target
         /\ u.type[i] = ty /\ u.nlink[i] = 0 /\ u.ents[i] = << >>
         /\ \A j \in Inode \ {i} :
              u.type[j] = t.type[j] /\ u.nlink[j] = t.nlink[j] /\ u.ents[j] = t.ents[j]
<1> DEFINE n  == t.reuse[i]
           re == [t.reuse EXCEPT ![i] = ((n + 1) % REUSES)]
           tp == [t.type EXCEPT ![i] = ty]
           nl == [t.nlink EXCEPT ![i] = 0]
           en == [t.ents EXCEPT ![i] = << >>]
           us == t.used \union {i}
<1>1. u = Tree(tp, nl, re, t.target, en, us)
  BY LinkableIs
<1>2. /\ u.type = tp /\ u.nlink = nl /\ u.ents = en /\ u.target = t.target /\ u.used = us
  BY <1>1, FieldsAre
<1>3. n \in 0 .. REUSES - 1
  BY FieldsIn
<1>4. ((n + 1) % REUSES) \in 0 .. REUSES - 1
  <2> HIDE DEF n
  <2> QED
    BY <1>3, Bounds
<1>5. /\ tp \in [Inode -> Type] /\ nl \in [Inode -> Int] /\ re \in [Inode -> 0 .. REUSES - 1]
      /\ t.target \in [Inode -> Path] /\ en \in [Inode -> Seq(Entry)] /\ us \in SUBSET Inode
  BY <1>4, FieldsIn
<1>6. /\ tp[i] = ty /\ nl[i] = 0 /\ en[i] = << >>
      /\ \A j \in Inode \ {i} : tp[j] = t.type[j] /\ nl[j] = t.nlink[j] /\ en[j] = t.ents[j]
  BY FieldsIn
<1> HIDE DEF tp, nl, re, en, us
<1>7. u \in TreeType
  BY <1>1, <1>5 DEF Tree, TreeType
<1> QED
  BY <1>2, <1>6, <1>7 DEF us

LEMMA FreeFields ==
  ASSUME NEW t \in TreeType, NEW i \in Inode, NEW u, u = FreeInode(t, i)
  PROVE  /\ u \in TreeType /\ u.used = t.used \ {i}
         /\ u.type[i] = INODE_FREE /\ u.nlink[i] = 0 /\ u.ents[i] = << >> /\ u.target[i] = NoPath
         /\ \A j \in Inode \ {i} :
              /\ u.type[j] = t.type[j] /\ u.nlink[j] = t.nlink[j] /\ u.ents[j] = t.ents[j]
              /\ u.target[j] = t.target[j]
<1> DEFINE tp == [t.type EXCEPT ![i] = INODE_FREE]
           nl == [t.nlink EXCEPT ![i] = 0]
           ta == [t.target EXCEPT ![i] = NoPath]
           en == [t.ents EXCEPT ![i] = << >>]
           us == t.used \ {i}
<1>1. u = Tree(tp, nl, t.reuse, ta, en, us)
  BY FreeInodeIs
<1>2. u.type = tp /\ u.nlink = nl /\ u.ents = en /\ u.target = ta /\ u.used = us
  BY <1>1, FieldsAre
<1>3. INODE_FREE \in Type /\ NoPath \in Path
  BY DEF INODE_FREE, FS_HEADER, Type, Path, NoPath
<1>4. /\ tp \in [Inode -> Type] /\ nl \in [Inode -> Int] /\ ta \in [Inode -> Path]
      /\ en \in [Inode -> Seq(Entry)] /\ us \in SUBSET Inode
      /\ t.reuse \in [Inode -> 0 .. REUSES - 1]
  BY <1>3, FieldsIn
<1>5. /\ tp[i] = INODE_FREE /\ nl[i] = 0 /\ en[i] = << >> /\ ta[i] = NoPath
      /\ \A j \in Inode \ {i} :
           tp[j] = t.type[j] /\ nl[j] = t.nlink[j] /\ en[j] = t.ents[j] /\ ta[j] = t.target[j]
  BY FieldsIn
<1> HIDE DEF tp, nl, ta, en, us
<1>6. u \in TreeType
  BY <1>1, <1>4 DEF Tree, TreeType
<1> QED
  BY <1>2, <1>5, <1>6 DEF us

\* Slot k of d holds e, and the rest is what it was.
Entered(t, u, d, k, e) ==
  /\ u \in TreeType /\ u.used = t.used /\ u.type = t.type /\ u.target = t.target
  /\ \A x \in Inode \ {d} : u.ents[x] = t.ents[x]
  /\ DOMAIN u.ents[d] = DOMAIN t.ents[d] /\ Len(u.ents[d]) = Len(t.ents[d])
  /\ u.ents[d][k] = e
  /\ \A l \in DOMAIN t.ents[d] : l # k => u.ents[d][l] = t.ents[d][l]

LEMMA EntryFields ==
  ASSUME NEW t \in TreeType, NEW d \in Inode, NEW k \in DOMAIN t.ents[d], NEW e \in Entry,
         NEW nl \in [Inode -> Int], NEW en, en = [t.ents EXCEPT ![d] = [t.ents[d] EXCEPT ![k] = e]],
         NEW u, u = Tree(t.type, nl, t.reuse, t.target, en, t.used)
  PROVE  Entered(t, u, d, k, e) /\ u.nlink = nl
<1> DEFINE es == [t.ents[d] EXCEPT ![k] = e]
<1>1. u.type = t.type /\ u.ents = en /\ u.target = t.target /\ u.nlink = nl /\ u.used = t.used
  BY FieldsAre
<1>2. t.ents[d] \in Seq(Entry) /\ DOMAIN t.ents[d] = 1 .. Len(t.ents[d])
  BY EntriesAre
<1>3. /\ es \in Seq(Entry) /\ DOMAIN es = DOMAIN t.ents[d] /\ Len(es) = Len(t.ents[d])
      /\ es[k] = e /\ \A l \in DOMAIN t.ents[d] : l # k => es[l] = t.ents[d][l]
  BY <1>2
<1>4. en = [t.ents EXCEPT ![d] = es]
  OBVIOUS
<1> HIDE DEF es
<1>5. en \in [Inode -> Seq(Entry)]
  BY <1>3, <1>4, FieldsIn
<1>6. en[d] = es /\ \A x \in Inode \ {d} : en[x] = t.ents[x]
  BY <1>4, FieldsIn
<1>7. u \in TreeType
  <2>1. /\ t.type \in [Inode -> Type] /\ t.reuse \in [Inode -> 0 .. REUSES - 1]
        /\ t.target \in [Inode -> Path] /\ t.used \in SUBSET Inode
    BY FieldsIn
  <2> QED
    BY <1>5, <2>1 DEF Tree, TreeType
<1>8. u.ents[d] = es /\ \A x \in Inode \ {d} : u.ents[x] = t.ents[x]
  BY <1>1, <1>6
<1>9. /\ DOMAIN u.ents[d] = DOMAIN t.ents[d] /\ Len(u.ents[d]) = Len(t.ents[d])
      /\ u.ents[d][k] = e
      /\ \A l \in DOMAIN t.ents[d] : l # k => u.ents[d][l] = t.ents[d][l]
  BY <1>3, <1>8
<1> QED
  BY <1>1, <1>7, <1>8, <1>9 DEF Entered

LEMMA PutFields ==
  ASSUME NEW t \in TreeType, NEW d \in Inode, NEW k \in DOMAIN t.ents[d], NEW e \in Entry,
         NEW u, u = PutEntry(t, d, k, e)
  PROVE  /\ Entered(t, u, d, k, e)
         /\ u.nlink[e.inum] = t.nlink[e.inum] + 1
         /\ \A j \in Inode \ {e.inum} : u.nlink[j] = t.nlink[j]
<1> DEFINE i  == e.inum
           n  == t.nlink[i] + 1
           en == [t.ents EXCEPT ![d] = [t.ents[d] EXCEPT ![k] = e]]
           nl == [t.nlink EXCEPT ![i] = n]
           t1 == [t EXCEPT !.ents[d][k] = e]
           t2 == [t1 EXCEPT !.nlink[i] = @ + 1]
<1>1. i \in Inode /\ n \in Int
  BY FieldsIn DEF Entry
<1>2. u = t2
  BY DEF PutEntry
<1>3. t1 = Tree(t.type, t.nlink, t.reuse, t.target, en, t.used)
  BY TreeIs DEF Tree
<1>4. t2 = Tree(t.type, nl, t.reuse, t.target, en, t.used)
  <2> HIDE DEF t1, en
  <2>1. t1.nlink = t.nlink
    BY <1>3, FieldsAre
  <2>2. t2 = [t1 EXCEPT !.nlink[i] = (t.nlink[i] + 1)]
    BY <2>1
  <2> QED
    BY <1>3, <2>2 DEF Tree
<1>5. nl \in [Inode -> Int] /\ nl[i] = n /\ \A j \in Inode \ {i} : nl[j] = t.nlink[j]
  <2> HIDE DEF n
  <2> QED
    BY <1>1, FieldsIn
<1>6. u = Tree(t.type, nl, t.reuse, t.target, en, t.used)
  BY <1>2, <1>4
<1>7. Entered(t, u, d, k, e) /\ u.nlink = nl
  <2>1. en = [t.ents EXCEPT ![d] = [t.ents[d] EXCEPT ![k] = e]]
    OBVIOUS
  <2> HIDE DEF nl, en
  <2> QED
    BY <1>5, <1>6, <2>1, EntryFields
<1> HIDE DEF nl
<1> QED
  BY <1>5, <1>7

LEMMA ClearFields ==
  ASSUME NEW t \in TreeType, NEW d \in Inode, NEW k \in DOMAIN t.ents[d],
         NEW u, u = ClearEntry(t, d, k)
  PROVE  Entered(t, u, d, k, Unused) /\ u.nlink = t.nlink
<1> DEFINE en == [t.ents EXCEPT ![d] = [t.ents[d] EXCEPT ![k] = Unused]]
<1>1. u = Tree(t.type, t.nlink, t.reuse, t.target, en, t.used)
  BY TreeIs DEF Tree, ClearEntry
<1>2. Unused \in Entry
  BY InodesAre DEF Unused, Entry, AnyName
<1>3. t.nlink \in [Inode -> Int]
  BY FieldsIn
<1>4. en = [t.ents EXCEPT ![d] = [t.ents[d] EXCEPT ![k] = Unused]]
  OBVIOUS
<1> HIDE DEF en
<1> QED
  BY <1>1, <1>2, <1>3, <1>4, EntryFields, Z3

\* One link more, one link less, another reuse count.
LEMMA CountFields ==
  ASSUME NEW t \in TreeType, NEW i \in Inode, NEW u, u = CountLink(t, i)
  PROVE  /\ u \in TreeType /\ u.used = t.used /\ u.type = t.type /\ u.target = t.target
         /\ u.ents = t.ents /\ u.nlink[i] = t.nlink[i] + 1
         /\ \A j \in Inode \ {i} : u.nlink[j] = t.nlink[j]
<1> DEFINE n  == t.nlink[i] + 1
           nl == [t.nlink EXCEPT ![i] = n]
<1>1. u = Tree(t.type, nl, t.reuse, t.target, t.ents, t.used)
  BY TreeIs DEF Tree, CountLink
<1>2. n \in Int
  BY FieldsIn
<1>3. nl \in [Inode -> Int] /\ nl[i] = n /\ \A j \in Inode \ {i} : nl[j] = t.nlink[j]
  <2> HIDE DEF n
  <2> QED
    BY <1>2, FieldsIn
<1> HIDE DEF nl, n
<1>4. /\ u.type = t.type /\ u.ents = t.ents /\ u.target = t.target /\ u.nlink = nl
      /\ u.used = t.used
  BY <1>1, FieldsAre
<1>5. u \in TreeType
  BY <1>1, <1>3, FieldsIn DEF Tree, TreeType
<1> QED
  BY <1>3, <1>4, <1>5 DEF n

LEMMA DropFields ==
  ASSUME NEW t \in TreeType, NEW i \in Inode, ~ (t.nlink[i] <= 1),
         NEW u, u = DropLink(t, i)
  PROVE  /\ u \in TreeType /\ u.used = t.used /\ u.type = t.type /\ u.target = t.target
         /\ u.ents = t.ents /\ u.nlink[i] = t.nlink[i] - 1
         /\ \A j \in Inode \ {i} : u.nlink[j] = t.nlink[j]
<1> DEFINE n  == t.nlink[i] - 1
           nl == [t.nlink EXCEPT ![i] = n]
<1>1. u = Tree(t.type, nl, t.reuse, t.target, t.ents, t.used)
  BY TreeIs DEF Tree, DropLink
<1>2. n \in Int
  BY FieldsIn
<1>3. nl \in [Inode -> Int] /\ nl[i] = n /\ \A j \in Inode \ {i} : nl[j] = t.nlink[j]
  <2> HIDE DEF n
  <2> QED
    BY <1>2, FieldsIn
<1> HIDE DEF nl, n
<1>4. /\ u.type = t.type /\ u.ents = t.ents /\ u.target = t.target /\ u.nlink = nl
      /\ u.used = t.used
  BY <1>1, FieldsAre
<1>5. u \in TreeType
  BY <1>1, <1>3, FieldsIn DEF Tree, TreeType
<1> QED
  BY <1>3, <1>4, <1>5 DEF n

LEMMA ReuseFields ==
  ASSUME NEW t \in TreeType, NEW i \in Inode,
         NEW u, u = [t EXCEPT !.reuse[i] = (@ - 1) % REUSES]
  PROVE  /\ u \in TreeType /\ u.used = t.used /\ u.type = t.type /\ u.target = t.target
         /\ u.ents = t.ents /\ u.nlink = t.nlink
<1> DEFINE n  == ((t.reuse[i] - 1) % REUSES)
           re == [t.reuse EXCEPT ![i] = n]
<1>1. u = Tree(t.type, t.nlink, re, t.target, t.ents, t.used)
  BY TreeIs DEF Tree
<1>2. n \in 0 .. REUSES - 1
  <2>1. t.reuse[i] \in 0 .. REUSES - 1
    BY FieldsIn
  <2> QED
    BY <2>1, Bounds
<1>3. re \in [Inode -> 0 .. REUSES - 1]
  <2> HIDE DEF n
  <2> QED
    BY <1>2, FieldsIn
<1> HIDE DEF re, n
<1>4. /\ u.type = t.type /\ u.ents = t.ents /\ u.target = t.target /\ u.nlink = t.nlink
      /\ u.used = t.used
  BY <1>1, FieldsAre
<1>5. u \in TreeType
  BY <1>1, <1>3, FieldsIn DEF Tree, TreeType
<1> QED
  BY <1>4, <1>5

LEMMA LinkableSound ==
  ASSUME NEW t, Sound(t), NEW i \in Inode \ {0}, t.type[i] = INODE_FREE,
         NEW ty \in {INODE_DIRECTORY, INODE_REGULAR, INODE_SYMLINK},
         NEW u, u = Linkable(t, i, ty)
  PROVE  Sound(u)
<1>1. /\ t \in TreeType
      /\ t.type[0] = FS_HEADER /\ t.type[ROOTINODE] = INODE_DIRECTORY
      /\ t.used = {0} \union Allocated(t)
      /\ \A j \in Inode : t.type[j] = INODE_FREE => t.nlink[j] = 0 /\ t.ents[j] = << >>
      /\ Placed(t) /\ Covered(t)
  BY DEF Sound
<1>2. ty \in Type /\ ty # INODE_FREE
  BY DEF Type, INODE_FREE, INODE_DIRECTORY, INODE_REGULAR, INODE_SYMLINK, FS_HEADER
<1>3. /\ u \in TreeType /\ u.used = t.used \union {i} /\ u.target = t.target
      /\ u.type[i] = ty /\ u.nlink[i] = 0 /\ u.ents[i] = << >>
      /\ \A j \in Inode \ {i} :
           u.type[j] = t.type[j] /\ u.nlink[j] = t.nlink[j] /\ u.ents[j] = t.ents[j]
  BY <1>1, <1>2, LinkableFields
<1>4. \A j \in Inode : u.ents[j] = t.ents[j]
  BY <1>1, <1>3
<1>5. i # ROOTINODE
  BY <1>1 DEF INODE_FREE, INODE_DIRECTORY
<1>6. Placed(u)
  <2>1. ASSUME NEW d \in Inode, NEW k \in DOMAIN u.ents[d]
        PROVE  /\ u.ents[d][k].inum # 0 => u.type[d] = INODE_DIRECTORY
               /\ u.ents[d][k].inum = 0 => u.ents[d][k].name = ""
    <3>1. d # i
      BY <1>3
    <3>2. k \in DOMAIN t.ents[d] /\ u.ents[d] = t.ents[d] /\ u.type[d] = t.type[d]
      BY <1>3, <3>1
    <3>3. Placed(t)
      BY <1>1
    <3>4. /\ t.ents[d][k].inum # 0 => t.type[d] = INODE_DIRECTORY
          /\ t.ents[d][k].inum = 0 => t.ents[d][k].name = ""
      BY <3>2, <3>3, PlacedAt
    <3> QED
      BY <3>2, <3>4, Zenon
  <2> QED
    BY <2>1 DEF Placed
<1>7. Covered(u)
  <2>1. ASSUME NEW j \in Inode \ {0} PROVE Cardinality(Links(u, j)) <= u.nlink[j]
    <3>1. Cardinality(Links(u, j)) <= Cardinality(Links(t, j))
      BY <1>1, <1>3, <1>4, LinksNoMore
    <3>2. Cardinality(Links(t, j)) <= t.nlink[j] /\ t.nlink[i] = 0
      BY <1>1 DEF Covered
    <3>3. u.nlink[j] = t.nlink[j]
      BY <1>3, <3>2
    <3>4. Cardinality(Links(u, j)) \in Nat /\ Cardinality(Links(t, j)) \in Nat /\ t.nlink[j] \in Int
      BY <1>1, <1>3, LinksAre, FieldsIn
    <3> QED
      BY <3>1, <3>2, <3>3, <3>4
  <2> QED
    BY <2>1 DEF Covered
<1>8. u.used = {0} \union Allocated(u)
  BY <1>1, <1>2, <1>3 DEF Allocated
<1>9. /\ u.type[0] = FS_HEADER /\ u.type[ROOTINODE] = INODE_DIRECTORY
      /\ \A j \in Inode : u.type[j] = INODE_FREE => u.nlink[j] = 0 /\ u.ents[j] = << >>
  BY <1>1, <1>2, <1>3, <1>5, InodesAre
<1> QED
  BY <1>3, <1>6, <1>7, <1>8, <1>9 DEF Sound

\* An entry for inode i, which is in use, is put in slot k of d and counted.
LEMMA PutSound ==
  ASSUME NEW t, Sound(t), NEW d \in Inode, t.type[d] = INODE_DIRECTORY,
         NEW k \in DOMAIN t.ents[d], NEW e \in Entry, e.inum # 0,
         t.type[e.inum] # INODE_FREE,
         NEW u, u = PutEntry(t, d, k, e)
  PROVE  Sound(u) /\ Entered(t, u, d, k, e)
<1> DEFINE i == e.inum
<1>1. /\ t \in TreeType
      /\ t.type[0] = FS_HEADER /\ t.type[ROOTINODE] = INODE_DIRECTORY
      /\ t.used = {0} \union Allocated(t)
      /\ \A j \in Inode : t.type[j] = INODE_FREE => t.nlink[j] = 0 /\ t.ents[j] = << >>
      /\ Placed(t) /\ Covered(t)
  BY DEF Sound
<1>2. i \in Inode \ {0} /\ t.nlink[i] \in Int
  <2>1. i \in Inode \ {0}
    BY DEF Entry
  <2> QED
    BY <1>1, <2>1, FieldsIn
<1>3. /\ Entered(t, u, d, k, e)
      /\ u.nlink[i] = t.nlink[i] + 1 /\ \A j \in Inode \ {i} : u.nlink[j] = t.nlink[j]
  BY <1>1, PutFields
<1>4. /\ u \in TreeType /\ u.used = t.used /\ u.type = t.type
      /\ \A x \in Inode \ {d} : u.ents[x] = t.ents[x]
      /\ DOMAIN u.ents[d] = DOMAIN t.ents[d]
      /\ u.ents[d][k] = e
      /\ \A l \in DOMAIN t.ents[d] : l # k => u.ents[d][l] = t.ents[d][l]
  BY <1>3 DEF Entered
<1>5. ASSUME NEW x \in Inode, NEW l \in DOMAIN u.ents[x]
      PROVE  \/ x = d /\ l = k /\ u.ents[x][l] = e
             \/ <<x, l>> # <<d, k>> /\ l \in DOMAIN t.ents[x] /\ u.ents[x][l] = t.ents[x][l]
  BY <1>4
<1>6. Placed(u)
  <2>1. ASSUME NEW x \in Inode, NEW l \in DOMAIN u.ents[x]
        PROVE  /\ u.ents[x][l].inum # 0 => u.type[x] = INODE_DIRECTORY
               /\ u.ents[x][l].inum = 0 => u.ents[x][l].name = ""
    <3>1. CASE x = d /\ l = k /\ u.ents[x][l] = e
      BY <1>4, <3>1
    <3>2. CASE l \in DOMAIN t.ents[x] /\ u.ents[x][l] = t.ents[x][l]
      <4>1. Placed(t) /\ u.type = t.type
        BY <1>1, <1>4
      <4>2. /\ t.ents[x][l].inum # 0 => t.type[x] = INODE_DIRECTORY
            /\ t.ents[x][l].inum = 0 => t.ents[x][l].name = ""
        BY <3>2, <4>1 DEF Placed
      <4> QED
        BY <3>2, <4>1, <4>2
    <3> QED
      BY <1>5, <3>1, <3>2
  <2> QED
    BY <2>1 DEF Placed
<1>7. ASSUME NEW j \in Inode \ {0} PROVE Cardinality(Links(u, j)) <= u.nlink[j]
  <2>1. Cardinality(Links(t, j)) <= t.nlink[j]
    BY <1>1 DEF Covered
  <2>2. Cardinality(Links(u, j)) \in Nat /\ Cardinality(Links(t, j)) \in Nat /\ t.nlink[j] \in Int
    <3>1. t \in TreeType /\ u \in TreeType
      BY <1>1, <1>4
    <3>2. t.nlink[j] \in Int
      BY <3>1, FieldsIn
    <3> QED
      BY <3>1, <3>2, LinksAre
  <2>3. CASE j = i
    <3>1. Cardinality(Links(u, j)) <= Cardinality(Links(t, j)) + 1
      <4>1. \A x \in Inode : \A l \in DOMAIN u.ents[x] :
              u.ents[x][l].inum = j /\ <<x, l>> # <<d, k>>
                => l \in DOMAIN t.ents[x] /\ t.ents[x][l].inum = j
        BY <1>5
      <4>2. t \in TreeType /\ u \in TreeType
        BY <1>1, <1>4
      <4> QED
        BY <4>1, <4>2, LinksAtMostOneMore
    <3> QED
      BY <1>2, <1>3, <2>1, <2>2, <2>3, <3>1
  <2>4. CASE j # i
    <3>1. Cardinality(Links(u, j)) <= Cardinality(Links(t, j))
      <4>1. \A x \in Inode : \A l \in DOMAIN u.ents[x] :
              u.ents[x][l].inum = j => l \in DOMAIN t.ents[x] /\ t.ents[x][l].inum = j
        BY <1>5, <2>4
      <4> QED
        BY <1>1, <1>4, <4>1, LinksNoMore
    <3> QED
      BY <1>3, <2>1, <2>2, <2>4, <3>1
  <2> QED
    BY <2>3, <2>4
<1>8. Covered(u)
  BY <1>7 DEF Covered
<1>9. /\ u.used = {0} \union Allocated(u)
      /\ u.type[0] = FS_HEADER /\ u.type[ROOTINODE] = INODE_DIRECTORY
      /\ \A j \in Inode : u.type[j] = INODE_FREE => u.nlink[j] = 0 /\ u.ents[j] = << >>
  <2>1. u.used = {0} \union Allocated(u)
    BY <1>1, <1>4 DEF Allocated
  <2>2. ASSUME NEW j \in Inode, u.type[j] = INODE_FREE PROVE u.nlink[j] = 0 /\ u.ents[j] = << >>
    <3>1. j # d /\ j # i
      BY <1>4, <2>2 DEF INODE_FREE, INODE_DIRECTORY
    <3> QED
      BY <1>1, <1>3, <1>4, <2>2, <3>1
  <2> QED
    BY <1>1, <1>4, <2>1, <2>2
<1> QED
  BY <1>3, <1>4, <1>6, <1>8, <1>9 DEF Sound

\* The link of inode i is counted and its entry is nowhere.
LEMMA CountSound ==
  ASSUME NEW t, Sound(t), NEW i \in Inode, t.type[i] # INODE_FREE,
         NEW u, u = CountLink(t, i)
  PROVE  Sound(u) /\ u.type = t.type /\ u.target = t.target /\ u.ents = t.ents
<1>1. /\ t \in TreeType
      /\ t.type[0] = FS_HEADER /\ t.type[ROOTINODE] = INODE_DIRECTORY
      /\ t.used = {0} \union Allocated(t)
      /\ \A j \in Inode : t.type[j] = INODE_FREE => t.nlink[j] = 0 /\ t.ents[j] = << >>
      /\ Placed(t) /\ Covered(t)
  BY DEF Sound
<1>4. /\ u \in TreeType /\ u.type = t.type /\ u.ents = t.ents /\ u.target = t.target
      /\ u.used = t.used
      /\ u.nlink[i] = t.nlink[i] + 1 /\ \A j \in Inode \ {i} : u.nlink[j] = t.nlink[j]
  BY <1>1, CountFields
<1>5. u \in TreeType
  BY <1>4
<1>6. Placed(u)
  <2>1. Placed(t) /\ u.ents = t.ents /\ u.type = t.type
    BY <1>1, <1>4
  <2> QED
    BY <2>1, PlacedSame, Zenon
<1>7. ASSUME NEW j \in Inode \ {0} PROVE Cardinality(Links(u, j)) <= u.nlink[j]
  <2>1. Cardinality(Links(u, j)) <= Cardinality(Links(t, j))
    BY <1>1, <1>4, <1>5, LinksNoMore
  <2>2. Cardinality(Links(t, j)) <= t.nlink[j]
    BY <1>1 DEF Covered
  <2>3. /\ Cardinality(Links(u, j)) \in Nat /\ Cardinality(Links(t, j)) \in Nat
        /\ u.nlink[j] \in Int /\ t.nlink[j] \in Int
    BY <1>1, <1>5, LinksAre, FieldsIn
  <2>4. u.nlink[j] >= t.nlink[j]
    BY <1>4, <2>3
  <2> QED
    BY <2>1, <2>2, <2>3, <2>4
<1>8. Covered(u)
  BY <1>7 DEF Covered
<1>9. /\ u.used = {0} \union Allocated(u)
      /\ \A j \in Inode : u.type[j] = INODE_FREE => u.nlink[j] = 0 /\ u.ents[j] = << >>
  BY <1>1, <1>4 DEF Allocated
<1> QED
  BY <1>1, <1>4, <1>5, <1>6, <1>8, <1>9 DEF Sound

\* An inode without an entry is freed.
LEMMA FreeSound ==
  ASSUME NEW t, Sound(t), NEW i \in Inode \ {0, ROOTINODE}, Links(t, i) = {},
         NEW u, u = FreeInode(t, i)
  PROVE  Sound(u)
<1>1. /\ t \in TreeType
      /\ t.type[0] = FS_HEADER /\ t.type[ROOTINODE] = INODE_DIRECTORY
      /\ t.used = {0} \union Allocated(t)
      /\ \A j \in Inode : t.type[j] = INODE_FREE => t.nlink[j] = 0 /\ t.ents[j] = << >>
      /\ Placed(t) /\ Covered(t)
  BY DEF Sound
<1>2. /\ u \in TreeType /\ u.used = t.used \ {i}
      /\ u.type[i] = INODE_FREE /\ u.nlink[i] = 0 /\ u.ents[i] = << >>
      /\ \A j \in Inode \ {i} :
           u.type[j] = t.type[j] /\ u.nlink[j] = t.nlink[j] /\ u.ents[j] = t.ents[j]
  BY <1>1, FreeFields
<1>3. Placed(u)
  <2>1. ASSUME NEW d \in Inode, NEW k \in DOMAIN u.ents[d]
        PROVE  /\ u.ents[d][k].inum # 0 => u.type[d] = INODE_DIRECTORY
               /\ u.ents[d][k].inum = 0 => u.ents[d][k].name = ""
    <3>1. d # i
      BY <1>2
    <3>2. k \in DOMAIN t.ents[d] /\ u.ents[d] = t.ents[d] /\ u.type[d] = t.type[d]
      BY <1>2, <3>1
    <3>3. Placed(t)
      BY <1>1
    <3>4. /\ t.ents[d][k].inum # 0 => t.type[d] = INODE_DIRECTORY
          /\ t.ents[d][k].inum = 0 => t.ents[d][k].name = ""
      BY <3>2, <3>3, PlacedAt
    <3> QED
      BY <3>2, <3>4, Zenon
  <2> QED
    BY <2>1 DEF Placed
<1>4. ASSUME NEW j \in Inode \ {0} PROVE Cardinality(Links(u, j)) <= u.nlink[j]
  <2>1. /\ Links(u, j) \subseteq Links(t, j)
        /\ Cardinality(Links(u, j)) <= Cardinality(Links(t, j))
    <3>1. ASSUME NEW x \in Inode, NEW l \in DOMAIN u.ents[x], u.ents[x][l].inum = j
          PROVE  l \in DOMAIN t.ents[x] /\ t.ents[x][l].inum = j
      BY <1>2, <3>1
    <3> QED
      BY <1>1, <1>2, <3>1, LinksNoMore
  <2>2. Cardinality(Links(t, j)) <= t.nlink[j]
    BY <1>1 DEF Covered
  <2>3. /\ Cardinality(Links(u, j)) \in Nat /\ Cardinality(Links(t, j)) \in Nat
        /\ t.nlink[j] \in Int
    BY <1>1, <1>2, LinksAre, FieldsIn
  <2>4. CASE j = i
    <3>1. Links(u, i) = {}
      BY <2>1, <2>4
    <3> QED
      BY <1>2, <2>4, <3>1, FS_EmptySet
  <2>5. CASE j # i
    BY <1>2, <2>1, <2>2, <2>3, <2>5
  <2> QED
    BY <2>4, <2>5
<1>5. Covered(u)
  BY <1>4 DEF Covered
<1>6. /\ u.used = {0} \union Allocated(u)
      /\ u.type[0] = FS_HEADER /\ u.type[ROOTINODE] = INODE_DIRECTORY
      /\ \A j \in Inode : u.type[j] = INODE_FREE => u.nlink[j] = 0 /\ u.ents[j] = << >>
  BY <1>1, <1>2, InodesAre DEF Allocated
<1> QED
  BY <1>2, <1>3, <1>5, <1>6 DEF Sound

\* The entry of inode i in slot k of d is cleared: one link is not used.
LEMMA ClearSound ==
  ASSUME NEW t, Sound(t), NEW d \in Inode, NEW k \in DOMAIN t.ents[d],
         NEW i, i = t.ents[d][k].inum, i # 0,
         NEW u, u = ClearEntry(t, d, k)
  PROVE  /\ Sound(u) /\ Entered(t, u, d, k, Unused) /\ u.nlink = t.nlink
         /\ Cardinality(Links(u, i)) <= u.nlink[i] - 1
<1>1. /\ t \in TreeType
      /\ t.type[0] = FS_HEADER /\ t.type[ROOTINODE] = INODE_DIRECTORY
      /\ t.used = {0} \union Allocated(t)
      /\ \A j \in Inode : t.type[j] = INODE_FREE => t.nlink[j] = 0 /\ t.ents[j] = << >>
      /\ Placed(t) /\ Covered(t)
  BY DEF Sound
<1>2. Entered(t, u, d, k, Unused) /\ u.nlink = t.nlink
  BY <1>1, ClearFields
<1>3. /\ u \in TreeType /\ u.used = t.used /\ u.type = t.type
      /\ \A x \in Inode \ {d} : u.ents[x] = t.ents[x]
      /\ DOMAIN u.ents[d] = DOMAIN t.ents[d]
      /\ u.ents[d][k] = Unused
      /\ \A l \in DOMAIN t.ents[d] : l # k => u.ents[d][l] = t.ents[d][l]
  BY <1>2 DEF Entered
<1>4. i \in Inode \ {0}
  BY <1>1, EntriesAre
<1>5. Unused.inum = 0 /\ Unused.name = ""
  BY DEF Unused
<1>6. ASSUME NEW x \in Inode, NEW l \in DOMAIN u.ents[x]
      PROVE  \/ u.ents[x][l] = Unused
             \/ l \in DOMAIN t.ents[x] /\ u.ents[x][l] = t.ents[x][l]
  BY <1>3
<1>7. Placed(u)
  <2>1. ASSUME NEW x \in Inode, NEW l \in DOMAIN u.ents[x]
        PROVE  /\ u.ents[x][l].inum # 0 => u.type[x] = INODE_DIRECTORY
               /\ u.ents[x][l].inum = 0 => u.ents[x][l].name = ""
    <3>1. CASE u.ents[x][l] = Unused
      BY <1>5, <3>1
    <3>2. CASE l \in DOMAIN t.ents[x] /\ u.ents[x][l] = t.ents[x][l]
      <4>1. Placed(t) /\ u.type = t.type
        BY <1>1, <1>3
      <4>2. /\ t.ents[x][l].inum # 0 => t.type[x] = INODE_DIRECTORY
            /\ t.ents[x][l].inum = 0 => t.ents[x][l].name = ""
        BY <3>2, <4>1 DEF Placed
      <4> QED
        BY <3>2, <4>1, <4>2
    <3> QED
      BY <1>6, <3>1, <3>2
  <2> QED
    BY <2>1 DEF Placed
<1>8. ASSUME NEW j \in Inode \ {0}
      PROVE  /\ Links(u, j) \subseteq Links(t, j)
             /\ Cardinality(Links(u, j)) <= Cardinality(Links(t, j))
  <2>1. \A x \in Inode : \A l \in DOMAIN u.ents[x] :
          u.ents[x][l].inum = j => l \in DOMAIN t.ents[x] /\ t.ents[x][l].inum = j
    BY <1>5, <1>6
  <2>2. t \in TreeType /\ u \in TreeType
    BY <1>1, <1>3
  <2> QED
    BY <2>1, <2>2, LinksNoMore
<1>9. ASSUME NEW j \in Inode \ {0}
      PROVE  /\ Cardinality(Links(t, j)) <= t.nlink[j]
             /\ Cardinality(Links(u, j)) \in Nat /\ Cardinality(Links(t, j)) \in Nat
             /\ t.nlink[j] \in Int
  <2>1. t \in TreeType /\ u \in TreeType /\ Covered(t)
    BY <1>1, <1>3
  <2>2. Cardinality(Links(t, j)) <= t.nlink[j]
    BY <2>1 DEF Covered
  <2> QED
    BY <2>1, <2>2, LinksAre, FieldsIn
<1>10. Covered(u)
  <2>1. ASSUME NEW j \in Inode \ {0} PROVE Cardinality(Links(u, j)) <= u.nlink[j]
    BY <1>2, <1>8, <1>9
  <2> QED
    BY <2>1 DEF Covered
<1>11. Cardinality(Links(u, i)) <= u.nlink[i] - 1
  <2>1. <<d, k>> \in Links(t, i) /\ <<d, k>> \notin Links(u, i)
    <3>1. t \in TreeType /\ u \in TreeType /\ k \in DOMAIN u.ents[d] /\ u.ents[d][k].inum # i
      BY <1>1, <1>3, <1>5
    <3> QED
      BY <3>1, LinksAre
  <2>2. Cardinality(Links(u, i)) <= Cardinality(Links(t, i)) - 1
    <3>1. t \in TreeType /\ u \in TreeType /\ Links(u, i) \subseteq Links(t, i)
      BY <1>1, <1>3, <1>4, <1>8
    <3> QED
      BY <2>1, <3>1, LinksOneLess
  <2> QED
    BY <1>2, <1>4, <1>9, <2>2
<1>12. /\ u.used = {0} \union Allocated(u)
       /\ u.type[0] = FS_HEADER /\ u.type[ROOTINODE] = INODE_DIRECTORY
       /\ \A j \in Inode : u.type[j] = INODE_FREE => u.nlink[j] = 0 /\ u.ents[j] = << >>
  <2>1. u.used = {0} \union Allocated(u)
    BY <1>1, <1>3 DEF Allocated
  <2>2. ASSUME NEW j \in Inode, u.type[j] = INODE_FREE PROVE u.nlink[j] = 0 /\ u.ents[j] = << >>
    <3>1. t.type[j] = INODE_FREE /\ t.ents[j] = << >> /\ t.nlink[j] = 0
      BY <1>1, <1>3, <2>2
    <3>2. j # d
      BY <3>1
    <3> QED
      BY <1>2, <1>3, <3>1, <3>2
  <2> QED
    BY <1>1, <1>3, <2>1, <2>2
<1> QED
  BY <1>2, <1>3, <1>7, <1>10, <1>11, <1>12 DEF Sound

\* The end of UnlinkHandler, when there is a link too many.
LEMMA DropSound ==
  ASSUME NEW t, Sound(t), NEW i \in Inode \ {0, ROOTINODE}, t.type[i] # INODE_FREE,
         Cardinality(Links(t, i)) <= t.nlink[i] - 1,
         NEW u, u = DropLink(t, i)
  PROVE  /\ Sound(u)
         /\ \A j \in Inode \ {i} : u.type[j] = t.type[j] /\ u.ents[j] = t.ents[j]
         /\ \/ u.type[i] = INODE_FREE /\ u.target[i] = NoPath
            \/ u.type[i] = t.type[i] /\ u.ents[i] = t.ents[i] /\ u.nlink[i] = t.nlink[i] - 1
         /\ \A j \in Inode : u.target[j] \in {t.target[j], NoPath}
<1>1. /\ t \in TreeType
      /\ t.type[0] = FS_HEADER /\ t.type[ROOTINODE] = INODE_DIRECTORY
      /\ t.used = {0} \union Allocated(t)
      /\ \A j \in Inode : t.type[j] = INODE_FREE => t.nlink[j] = 0 /\ t.ents[j] = << >>
      /\ Placed(t) /\ Covered(t)
  BY DEF Sound
<1>2. Cardinality(Links(t, i)) \in Nat /\ IsFiniteSet(Links(t, i)) /\ t.nlink[i] \in Int
  BY <1>1, LinksAre, FieldsIn
<1>3. CASE t.nlink[i] <= 1
  <2>1. u = FreeInode(t, i)
    BY <1>3 DEF DropLink
  <2>2. Links(t, i) = {}
    <3>1. Cardinality(Links(t, i)) = 0
      BY <1>2, <1>3
    <3> QED
      BY <1>2, <3>1, FS_EmptySet
  <2>3. Sound(u)
    BY <2>1, <2>2, FreeSound
  <2>4. /\ u.type[i] = INODE_FREE /\ u.target[i] = NoPath
        /\ \A j \in Inode \ {i} :
             u.type[j] = t.type[j] /\ u.ents[j] = t.ents[j] /\ u.target[j] = t.target[j]
    BY <1>1, <2>1, FreeFields
  <2> QED
    BY <2>3, <2>4
<1>4. CASE ~ (t.nlink[i] <= 1)
  <2>1. /\ u \in TreeType /\ u.used = t.used /\ u.type = t.type /\ u.target = t.target
        /\ u.ents = t.ents /\ u.nlink[i] = t.nlink[i] - 1
        /\ \A j \in Inode \ {i} : u.nlink[j] = t.nlink[j]
    BY <1>1, <1>4, DropFields
  <2>2. Placed(u)
    <3>1. Placed(t) /\ u.ents = t.ents /\ u.type = t.type
      BY <1>1, <2>1
    <3> QED
      BY <3>1, PlacedSame, Zenon
  <2>3. Covered(u)
    <3>1. ASSUME NEW j \in Inode \ {0} PROVE Cardinality(Links(u, j)) <= u.nlink[j]
      <4>1. Links(u, j) = Links(t, j)
        BY <2>1 DEF Links
      <4>2. Cardinality(Links(t, j)) <= t.nlink[j]
        BY <1>1 DEF Covered
      <4> QED
        BY <2>1, <4>1, <4>2
    <3> QED
      BY <3>1 DEF Covered
  <2>4. /\ u.used = {0} \union Allocated(u)
        /\ u.type[0] = FS_HEADER /\ u.type[ROOTINODE] = INODE_DIRECTORY
        /\ \A j \in Inode : u.type[j] = INODE_FREE => u.nlink[j] = 0 /\ u.ents[j] = << >>
    BY <1>1, <2>1 DEF Allocated
  <2> QED
    BY <2>1, <2>2, <2>3, <2>4 DEF Sound
<1> QED
  BY <1>3, <1>4

\* Where addEntry writes.
LEMMA SlotIs ==
  ASSUME NEW es \in Seq(Entry), es # << >>
  PROVE  /\ Slot(es) \in DOMAIN es
         /\ Slot(es) # Len(es) => es[Slot(es)].inum = 0
<1> DEFINE K == {k \in 1 .. Len(Front(es)) : Front(es)[k].inum = 0}
<1>1. Len(es) \in Nat /\ Len(es) > 0 /\ DOMAIN es = 1 .. Len(es)
  OBVIOUS
<1>2. Len(Front(es)) = Len(es) - 1 /\ \A k \in 1 .. Len(es) - 1 : Front(es)[k] = es[k]
  BY <1>1 DEF Front
<1>3. CASE K = {}
  <2>1. Slot(es) = Len(es)
    BY <1>3 DEF Slot, SelectInSeq
  <2> QED
    BY <1>1, <2>1
<1>4. CASE K # {}
  <2>1. Min(K) \in K
    <3>1. K \subseteq Nat
      OBVIOUS
    <3> HIDE DEF K
    <3> QED
      BY <1>4, <3>1, MinIs
  <2>2. Slot(es) = Min(K)
    BY <1>1, <1>2, <1>4, <2>1 DEF Slot, SelectInSeq
  <2>3. Slot(es) \in 1 .. Len(es) - 1 /\ es[Slot(es)].inum = 0
    BY <1>2, <2>1, <2>2
  <2> QED
    BY <1>1, <2>3
<1> QED
  BY <1>3, <1>4

-----------------------------------------------------------------------------
(* Requests that add names.                                                *)

\* Inodes in use keep their types, and the last entry of a directory is the
\* only one that can go.
Kept(t, u) ==
  /\ \A i \in Inode : t.type[i] # INODE_FREE => u.type[i] = t.type[i]
  /\ \A d \in Inode :
       /\ Len(u.ents[d]) = Len(t.ents[d])
       /\ \A k \in 1 .. Len(t.ents[d]) - 1 :
            t.ents[d][k].inum # 0 => u.ents[d][k] = t.ents[d][k]

LEMMA KeptItself ==
  ASSUME NEW t, NEW u, u.type = t.type, u.ents = t.ents
  PROVE  Kept(t, u)
BY DEF Kept

LEMMA KeptInTurn ==
  ASSUME NEW t, NEW u, NEW v, Kept(t, u), Kept(u, v)
  PROVE  Kept(t, v)
<1>1. ASSUME NEW i \in Inode, t.type[i] # INODE_FREE PROVE v.type[i] = t.type[i]
  BY <1>1 DEF Kept
<1>2. ASSUME NEW d \in Inode
      PROVE  /\ Len(v.ents[d]) = Len(t.ents[d])
             /\ \A k \in 1 .. Len(t.ents[d]) - 1 :
                  t.ents[d][k].inum # 0 => v.ents[d][k] = t.ents[d][k]
  <2>1. Len(v.ents[d]) = Len(t.ents[d]) /\ Len(u.ents[d]) = Len(t.ents[d])
    BY DEF Kept
  <2>2. ASSUME NEW k \in 1 .. Len(t.ents[d]) - 1, t.ents[d][k].inum # 0
        PROVE  v.ents[d][k] = t.ents[d][k]
    <3>1. u.ents[d][k] = t.ents[d][k]
      BY <2>2 DEF Kept
    <3>2. k \in 1 .. Len(u.ents[d]) - 1 /\ u.ents[d][k].inum # 0
      BY <2>1, <2>2, <3>1
    <3>3. v.ents[d][k] = u.ents[d][k]
      BY <3>2 DEF Kept
    <3> QED
      BY <3>1, <3>3
  <2> QED
    BY <2>1, <2>2
<1> QED
  BY <1>1, <1>2 DEF Kept

LEMMA addEntryKeeps ==
  ASSUME NEW t, Sound(t), NEW d \in Inode, NEW e \in Entry, e.inum # 0, NEW junk,
         NEW a, a = addEntry(t, d, e, junk)
  PROVE  /\ Sound(a.tree) /\ Kept(t, a.tree)
         /\ a.tree.type = t.type /\ a.tree.target = t.target
         /\ a.res \in {ERROR, LOST, 0, 1}
         /\ a.res = ERROR => a.tree = t
         /\ a.res # ERROR => t.type[d] = INODE_DIRECTORY
<1>1. t \in TreeType /\ e.inum \in Inode
  BY DEF Sound, Entry
<1>2. CASE t.type[d] # INODE_DIRECTORY \/ t.type[e.inum] = INODE_FREE
  <2>1. a.tree = t /\ a.res = ERROR
    BY <1>2 DEF addEntry, Reply
  <2> QED
    BY <2>1, KeptItself
<1>3. CASE t.type[d] = INODE_DIRECTORY /\ t.type[e.inum] # INODE_FREE /\ t.ents[d] # << >>
  <2> DEFINE k == Slot(t.ents[d])
  <2>1. a.tree = PutEntry(t, d, k, e) /\ a.res = 1
    BY <1>3 DEF addEntry, Reply
  <2>2. k \in DOMAIN t.ents[d] /\ (k # Len(t.ents[d]) => t.ents[d][k].inum = 0)
    BY <1>1, <1>3, EntriesAre, SlotIs
  <2> HIDE DEF k
  <2>3. Sound(a.tree) /\ Entered(t, a.tree, d, k, e)
    BY <1>3, <2>1, <2>2, PutSound
  <2>4. /\ a.tree.type = t.type /\ a.tree.target = t.target
        /\ \A x \in Inode \ {d} : a.tree.ents[x] = t.ents[x]
        /\ Len(a.tree.ents[d]) = Len(t.ents[d])
        /\ \A l \in DOMAIN t.ents[d] : l # k => a.tree.ents[d][l] = t.ents[d][l]
    BY <2>3 DEF Entered
  <2>5. ASSUME NEW x \in Inode
        PROVE  /\ Len(a.tree.ents[x]) = Len(t.ents[x])
               /\ \A l \in 1 .. Len(t.ents[x]) - 1 :
                    t.ents[x][l].inum # 0 => a.tree.ents[x][l] = t.ents[x][l]
    <3>1. CASE x # d
      BY <2>4, <3>1
    <3>2. CASE x = d
      <4>1. Len(t.ents[d]) \in Nat /\ DOMAIN t.ents[d] = 1 .. Len(t.ents[d])
        BY <1>1, EntriesAre
      <4> QED
        BY <2>2, <2>4, <3>2, <4>1
    <3> QED
      BY <3>1, <3>2
  <2>6. Kept(t, a.tree)
    BY <2>4, <2>5 DEF Kept
  <2> QED
    BY <1>3, <2>1, <2>3, <2>4, <2>6 DEF ERROR
<1>4. CASE t.type[d] = INODE_DIRECTORY /\ t.type[e.inum] # INODE_FREE /\ t.ents[d] = << >>
  <2>1. a.tree = CountLink(t, e.inum) /\ a.res \in {0, LOST}
    BY <1>4 DEF addEntry, Reply
  <2>2. /\ Sound(a.tree) /\ a.tree.type = t.type /\ a.tree.target = t.target
        /\ a.tree.ents = t.ents
    BY <1>1, <1>4, <2>1, CountSound
  <2> QED
    BY <1>4, <2>1, <2>2, KeptItself DEF ERROR, LOST
<1> QED
  BY <1>2, <1>3, <1>4

\* An inode that was made linkable and got no entry is free again.
LEMMA UnlinkableFields ==
  ASSUME NEW t \in TreeType, NEW i \in Inode, NEW u, u = Unlinkable(t, i)
  PROVE  /\ u \in TreeType /\ u.used = t.used \ {i}
         /\ u.type[i] = INODE_FREE /\ u.nlink[i] = 0 /\ u.ents[i] = << >> /\ u.target[i] = NoPath
         /\ \A j \in Inode \ {i} :
              /\ u.type[j] = t.type[j] /\ u.nlink[j] = t.nlink[j] /\ u.ents[j] = t.ents[j]
              /\ u.target[j] = t.target[j]
<1> DEFINE w == [t EXCEPT !.reuse[i] = (@ - 1) % REUSES]
<1>1. u = FreeInode(w, i)
  BY DEF Unlinkable
<1>2. /\ w \in TreeType /\ w.used = t.used /\ w.type = t.type /\ w.target = t.target
      /\ w.ents = t.ents /\ w.nlink = t.nlink
  BY ReuseFields
<1> HIDE DEF w
<1>3. /\ u \in TreeType /\ u.used = w.used \ {i}
      /\ u.type[i] = INODE_FREE /\ u.nlink[i] = 0 /\ u.ents[i] = << >> /\ u.target[i] = NoPath
      /\ \A j \in Inode \ {i} :
           /\ u.type[j] = w.type[j] /\ u.nlink[j] = w.nlink[j] /\ u.ents[j] = w.ents[j]
           /\ u.target[j] = w.target[j]
  BY <1>1, <1>2, FreeFields, Z3
<1> QED
  BY <1>2, <1>3

\* Targets are stored nowhere in the code: they stay, or go with their inode.
Targets(t, u) == \A i \in Inode : u.target[i] \in {t.target[i], NoPath}

LEMMA SoundSame ==
  ASSUME NEW t, Sound(t), NEW u \in TreeType, u.type = t.type, u.nlink = t.nlink,
         u.ents = t.ents, u.used = t.used
  PROVE  Sound(u)
<1>1. /\ t \in TreeType
      /\ t.type[0] = FS_HEADER /\ t.type[ROOTINODE] = INODE_DIRECTORY
      /\ t.used = {0} \union Allocated(t)
      /\ \A j \in Inode : t.type[j] = INODE_FREE => t.nlink[j] = 0 /\ t.ents[j] = << >>
      /\ Placed(t) /\ Covered(t)
  BY DEF Sound
<1>2. Placed(u)
  BY <1>1, PlacedSame, Zenon
<1>3. \A j : Links(u, j) = Links(t, j)
  BY DEF Links
<1>4. Covered(u)
  BY <1>1, <1>3 DEF Covered
<1>5. Allocated(u) = Allocated(t)
  BY DEF Allocated
<1> QED
  BY <1>1, <1>2, <1>4, <1>5 DEF Sound

LEMMA createFileKeeps ==
  ASSUME NEW t, Sound(t), NEW d \in Inode, NEW n \in AnyName, NEW junk,
         NEW ty \in {INODE_DIRECTORY, INODE_REGULAR, INODE_SYMLINK},
         NEW c, c = createFile(t, n, d, ty, junk)
  PROVE  /\ Sound(c.tree) /\ Kept(t, c.tree) /\ Targets(t, c.tree)
         /\ c.res \in {ERROR, LOST} \union (Inode \ {0})
         /\ c.res \in Inode => t.type[d] = INODE_DIRECTORY /\ c.tree.type[c.res] = ty
<1> DEFINE i == NewInode(t)
           w == Linkable(t, i, ty)
           e == [inum |-> i, name |-> n]
           a == addEntry(w, d, e, junk)
<1>1. t \in TreeType
  BY DEF Sound
<1>2. CASE findInumInDir(t, d, n) # 0 \/ Inode \subseteq t.used
  <2>1. c.tree = t /\ c.res = ERROR
    BY <1>2 DEF createFile, Reply
  <2>2. Kept(t, t) /\ Targets(t, t)
    BY KeptItself DEF Targets
  <2> QED
    BY <2>1, <2>2, InodesAre
<1>3. CASE ~ (findInumInDir(t, d, n) # 0 \/ Inode \subseteq t.used)
  <2>1. i \in Inode \ {0} /\ i \notin t.used /\ t.type[i] = INODE_FREE /\ i # ROOTINODE
    BY <1>3, NewInodeIs
  <2>2. c = IF a.res = ERROR THEN Reply(Unlinkable(a.tree, i), ERROR)
            ELSE Reply(a.tree, IF a.res = LOST THEN LOST ELSE i)
    BY <1>3 DEF createFile
  <2> HIDE DEF i
  <2>3. Sound(w) /\ w \in TreeType
    BY <2>1, LinkableSound DEF Sound
  <2>4. ty \in Type /\ ty # INODE_FREE
    BY DEF Type, INODE_FREE, INODE_DIRECTORY, INODE_REGULAR, INODE_SYMLINK, FS_HEADER
  <2>5. /\ w.used = t.used \union {i} /\ w.target = t.target
        /\ w.type[i] = ty /\ w.nlink[i] = 0 /\ w.ents[i] = << >>
        /\ \A j \in Inode \ {i} :
             w.type[j] = t.type[j] /\ w.nlink[j] = t.nlink[j] /\ w.ents[j] = t.ents[j]
    BY <1>1, <2>1, <2>4, LinkableFields
  <2>6. t.ents[i] = << >> /\ t.nlink[i] = 0
    BY <2>1 DEF Sound
  <2> HIDE DEF w
  <2>7. \A j \in Inode : w.ents[j] = t.ents[j]
    BY <2>5, <2>6
  <2>8. Kept(t, w)
    BY <2>1, <2>5, <2>7 DEF Kept
  <2>9. e \in Entry /\ e.inum # 0 /\ e.inum = i
    BY <2>1 DEF Entry
  <2> HIDE DEF e
  <2>10. /\ Sound(a.tree) /\ Kept(w, a.tree)
         /\ a.tree.type = w.type /\ a.tree.target = w.target
         /\ a.res \in {ERROR, LOST, 0, 1}
         /\ a.res = ERROR => a.tree = w
         /\ a.res # ERROR => w.type[d] = INODE_DIRECTORY
    BY <2>3, <2>9, addEntryKeeps
  <2> HIDE DEF a
  <2>11. CASE a.res = ERROR
    <3>1. PICK u : u = Unlinkable(w, i)
      OBVIOUS
    <3>2. c.tree = u /\ c.res = ERROR
      BY <2>2, <2>10, <2>11, <3>1 DEF Reply
    <3>3. /\ u \in TreeType /\ u.used = w.used \ {i}
          /\ u.type[i] = INODE_FREE /\ u.nlink[i] = 0 /\ u.ents[i] = << >>
          /\ u.target[i] = NoPath
          /\ \A j \in Inode \ {i} :
               /\ u.type[j] = w.type[j] /\ u.nlink[j] = w.nlink[j] /\ u.ents[j] = w.ents[j]
               /\ u.target[j] = w.target[j]
      <4>1. i \in Inode /\ w \in TreeType
        BY <2>1, <2>3
      <4> QED
        BY <3>1, <4>1, UnlinkableFields, Z3
    <3>4. \A j \in Inode : u.type[j] = t.type[j] /\ u.nlink[j] = t.nlink[j] /\ u.ents[j] = t.ents[j]
      BY <2>1, <2>5, <2>6, <3>3
    <3>5. u.type = t.type /\ u.nlink = t.nlink /\ u.ents = t.ents
      BY <1>1, <3>3, <3>4, FieldsIn
    <3>6. u.used = t.used
      BY <2>1, <2>5, <3>3
    <3>7. Sound(u)
      BY <3>3, <3>5, <3>6, SoundSame
    <3>8. Targets(t, u)
      BY <2>5, <3>3 DEF Targets
    <3> QED
      BY <3>2, <3>5, <3>7, <3>8, KeptItself, InodesAre
  <2>12. CASE a.res # ERROR
    <3>1. c.tree = a.tree /\ c.res \in {LOST, i}
      BY <2>2, <2>12 DEF Reply
    <3>2. Kept(t, c.tree)
      BY <2>8, <2>10, <3>1, KeptInTurn
    <3>3. Targets(t, c.tree)
      BY <2>5, <2>10, <3>1 DEF Targets
    <3>4. d # i
      <4>1. t.type[d] # INODE_FREE
        BY <1>3 DEF findInumInDir, ERROR
      <4> QED
        BY <2>1, <4>1
    <3>5. t.type[d] = INODE_DIRECTORY /\ c.tree.type[i] = ty
      BY <2>5, <2>10, <2>12, <3>1, <3>4
    <3> QED
      BY <2>1, <2>10, <3>1, <3>2, <3>3, <3>5, InodesAre
  <2> QED
    BY <2>11, <2>12
<1> QED
  BY <1>2, <1>3

-----------------------------------------------------------------------------
(* The handlers.                                                           *)

LEMMA FilenameIs ==
  ASSUME NEW p \in Path
  PROVE  getFilename(p) \in AnyName
<1>1. p.names \in Seq(AnyName)
  BY DEF Path
<1>2. ASSUME p.names # << >> PROVE p.names[Len(p.names)] \in AnyName
  BY <1>1, <1>2
<1>3. "" \in AnyName
  BY DEF AnyName
<1> QED
  BY <1>2, <1>3 DEF getFilename, Last

LEMMA ParentIsPath ==
  ASSUME NEW p \in Path
  PROVE  ParentPath(p) \in Path
<1>1. p.abs \in BOOLEAN /\ p.names \in Seq(AnyName) /\ p = [abs |-> p.abs, names |-> p.names]
  BY DEF Path
<1>2. ASSUME p.names # << >> PROVE Front(p.names) \in Seq(AnyName)
  BY <1>1, <1>2 DEF Front
<1> QED
  BY <1>1, <1>2 DEF ParentPath, Path

LEMMA ParentInRange ==
  ASSUME NEW t \in TreeType, NEW p \in Path, NEW cur \in Inode
  PROVE  getParentInum(t, p, cur) \in Result
<1>1. resolvePath(t, ParentPath(p), cur) \in Result
  BY ParentIsPath, ResolveInRange
<1> QED
  BY <1>1 DEF getParentInum, Result

\* A handler that only adds.
Adds(t, r) ==
  /\ Sound(r.tree) /\ Kept(t, r.tree) /\ Targets(t, r.tree)
  /\ r.res \in Result

LEMMA AddsNothing ==
  ASSUME NEW t, Sound(t), NEW x \in Result
  PROVE  Adds(t, Reply(t, x))
<1>1. Kept(t, t) /\ Targets(t, t)
  BY KeptItself DEF Targets
<1> QED
  BY <1>1 DEF Adds, Reply

LEMMA CreateAdds ==
  ASSUME NEW t, Sound(t), NEW p \in Path, NEW cur \in Inode, NEW junk
  PROVE  Adds(t, CreateHandler(t, p, cur, junk))
<1> DEFINE d == getParentInum(t, p, cur)
           n == getFilename(p)
           c == createFile(t, n, d, INODE_REGULAR, junk)
           r == CreateHandler(t, p, cur, junk)
<1>1. d \in Result /\ n \in AnyName
  BY ParentInRange, FilenameIs DEF Sound
<1>2. CASE EndsInSlash(p) \/ d < 0
  <2>1. r = Reply(t, ERROR) \/ (d < 0 /\ r = Reply(t, d))
    BY <1>2 DEF CreateHandler
  <2>2. ERROR \in Result
    BY DEF Result
  <2> HIDE DEF d, r
  <2> QED
    BY <1>1, <2>1, <2>2, AddsNothing DEF r
<1>3. CASE ~ (EndsInSlash(p) \/ d < 0)
  <2>1. r = c
    BY <1>3 DEF CreateHandler
  <2> HIDE DEF d, n
  <2>2. d \in Inode
    BY <1>1, <1>3 DEF Result, ERROR, LOST
  <2>3. /\ Sound(c.tree) /\ Kept(t, c.tree) /\ Targets(t, c.tree)
        /\ c.res \in {ERROR, LOST} \union (Inode \ {0})
    BY <1>1, <2>2, createFileKeeps
  <2> QED
    BY <2>1, <2>3 DEF Adds, Result
<1> QED
  BY <1>2, <1>3

LEMMA SymLinkAdds ==
  ASSUME NEW t, Sound(t), NEW p \in Path, NEW cur \in Inode, NEW junk
  PROVE  Adds(t, SymLinkHandler(t, p, cur, junk))
<1> DEFINE d == getParentInum(t, p, cur)
           n == getFilename(p)
           c == createFile(t, n, d, INODE_SYMLINK, junk)
           r == SymLinkHandler(t, p, cur, junk)
<1>1. d \in Result /\ n \in AnyName
  BY ParentInRange, FilenameIs DEF Sound
<1>2. CASE d < 0
  <2>1. \E x \in {ERROR, LOST} : r = Reply(t, x)
    BY <1>2 DEF SymLinkHandler
  <2>2. ERROR \in Result /\ LOST \in Result
    BY DEF Result
  <2> HIDE DEF r
  <2> QED
    BY <2>1, <2>2, AddsNothing DEF r
<1>3. CASE ~ (d < 0)
  <2>1. r = Reply(c.tree, IF c.res < 0 THEN c.res ELSE 0)
    BY <1>3 DEF SymLinkHandler
  <2> HIDE DEF d, n
  <2>2. d \in Inode
    BY <1>1, <1>3 DEF Result, ERROR, LOST
  <2>3. /\ Sound(c.tree) /\ Kept(t, c.tree) /\ Targets(t, c.tree)
        /\ c.res \in {ERROR, LOST} \union (Inode \ {0})
    BY <1>1, <2>2, createFileKeeps
  <2>4. r.tree = c.tree /\ r.res \in Result
    BY <2>1, <2>3, InodesAre DEF Reply, Result
  <2> QED
    BY <2>3, <2>4 DEF Adds
<1> QED
  BY <1>2, <1>3

LEMMA MkDirAdds ==
  ASSUME NEW t, Sound(t), NEW p \in Path, NEW cur \in Inode, NEW junk
  PROVE  Adds(t, MkDirHandler(t, p, cur, junk))
<1> DEFINE d  == getParentInum(t, p, cur)
           n  == getFilename(p)
           c  == createFile(t, n, d, INODE_DIRECTORY, junk)
           e1 == [inum |-> c.res, name |-> "."]
           a  == addEntry(c.tree, c.res, e1, junk)
           e2 == [inum |-> d, name |-> ".."]
           b  == addEntry(a.tree, c.res, e2, junk)
           r  == MkDirHandler(t, p, cur, junk)
<1>1. d \in Result /\ n \in AnyName
  BY ParentInRange, FilenameIs DEF Sound
<1>2. r = IF d < 0 THEN Reply(t, d)
          ELSE IF c.res < 0 THEN c
          ELSE Reply(b.tree, IF LOST \in {a.res, b.res} THEN LOST ELSE 0)
  BY DEF MkDirHandler
<1> HIDE DEF r
<1>3. CASE d < 0
  <2>1. r = Reply(t, d)
    BY <1>2, <1>3
  <2> HIDE DEF d
  <2> QED
    BY <1>1, <2>1, AddsNothing DEF r
<1>4. CASE ~ (d < 0)
  <2> HIDE DEF d, n
  <2>1. d \in Inode
    BY <1>1, <1>4 DEF Result, ERROR, LOST
  <2>2. INODE_DIRECTORY \in {INODE_DIRECTORY, INODE_REGULAR, INODE_SYMLINK}
    OBVIOUS
  <2>3. /\ Sound(c.tree) /\ Kept(t, c.tree) /\ Targets(t, c.tree)
        /\ c.res \in {ERROR, LOST} \union (Inode \ {0})
        /\ c.res \in Inode => t.type[d] = INODE_DIRECTORY /\ c.tree.type[c.res] = INODE_DIRECTORY
    BY <1>1, <2>1, <2>2, createFileKeeps
  <2> HIDE DEF c
  <2>4. CASE c.res < 0
    <3>1. r = c
      BY <1>2, <1>4, <2>4
    <3> QED
      BY <2>3, <3>1 DEF Adds, Result, r
  <2>5. CASE ~ (c.res < 0)
    <3>1. c.res \in Inode \ {0}
      BY <2>3, <2>5 DEF ERROR, LOST
    <3>2. d # 0
      BY <2>3, <3>1 DEF Sound, FS_HEADER, INODE_DIRECTORY
    <3>3. /\ e1 \in Entry /\ e1.inum # 0
          /\ e2 \in Entry /\ e2.inum # 0
      BY <2>1, <3>1, <3>2 DEF Entry, AnyName
    <3> HIDE DEF e1, e2
    <3>4. Sound(a.tree) /\ Kept(c.tree, a.tree) /\ a.tree.target = c.tree.target
      BY <2>3, <3>1, <3>3, addEntryKeeps
    <3> HIDE DEF a
    <3>5. Sound(b.tree) /\ Kept(a.tree, b.tree) /\ b.tree.target = a.tree.target
      BY <3>1, <3>3, <3>4, addEntryKeeps
    <3> HIDE DEF b
    <3>6. r.tree = b.tree /\ r.res \in {LOST, 0}
      BY <1>2, <1>4, <2>5 DEF Reply
    <3>7. Kept(t, b.tree)
      BY <2>3, <3>4, <3>5, KeptInTurn
    <3>8. Targets(t, b.tree)
      BY <2>3, <3>4, <3>5 DEF Targets
    <3>9. r.res \in Result
      BY <3>6, InodesAre DEF Result
    <3> QED
      BY <3>5, <3>6, <3>7, <3>8, <3>9 DEF Adds, r
  <2> QED
    BY <2>4, <2>5
<1> QED
  BY <1>3, <1>4

LEMMA LinkAdds ==
  ASSUME NEW t, Sound(t), NEW p \in Path, NEW q \in Path, NEW cur \in Inode, NEW junk
  PROVE  Adds(t, LinkHandler(t, p, q, cur, junk))
<1> DEFINE i == resolvePath(t, p, cur)
           d == getParentInum(t, q, cur)
           n == getFilename(q)
           e == [inum |-> i, name |-> n]
           a == addEntry(t, d, e, junk)
           r == LinkHandler(t, p, q, cur, junk)
<1>1. i \in Result /\ d \in Result /\ n \in AnyName
  BY ResolveInRange, ParentInRange, FilenameIs DEF Sound
<1>2. \/ \E x \in {ERROR, LOST} : r = Reply(t, x)
      \/ ~ (i <= 0) /\ ~ (d < 0) /\ r = Reply(a.tree, IF a.res = LOST THEN LOST ELSE 0)
  BY DEF LinkHandler
<1> HIDE DEF r
<1>3. CASE \E x \in {ERROR, LOST} : r = Reply(t, x)
  <2>1. ERROR \in Result /\ LOST \in Result
    BY DEF Result
  <2> QED
    BY <1>3, <2>1, AddsNothing DEF r
<1>4. CASE ~ (i <= 0) /\ ~ (d < 0) /\ r = Reply(a.tree, IF a.res = LOST THEN LOST ELSE 0)
  <2> HIDE DEF i, d, n
  <2>1. i \in Inode \ {0} /\ d \in Inode
    BY <1>1, <1>4 DEF Result, ERROR, LOST
  <2>2. e \in Entry /\ e.inum # 0
    BY <1>1, <2>1 DEF Entry
  <2> HIDE DEF e
  <2>3. Sound(a.tree) /\ Kept(t, a.tree) /\ a.tree.target = t.target
    BY <2>1, <2>2, addEntryKeeps
  <2> HIDE DEF a
  <2>4. r.tree = a.tree /\ r.res \in {LOST, 0}
    BY <1>4 DEF Reply
  <2>5. r.res \in Result
    BY <2>4, InodesAre DEF Result
  <2> QED
    BY <2>3, <2>4, <2>5 DEF Adds, Targets, r
<1> QED
  BY <1>2, <1>3, <1>4

\* What Unlink may do to the entries that are not last: clear one, and take its
\* link back.
OneCleared(t, u) ==
  \A d \in Inode : \A k \in 1 .. Len(t.ents[d]) - 1 :
    LET e == t.ents[d][k]
    IN  e.inum # 0 /\ u.ents[d][k] # e =>
          /\ u.ents[d][k] = Unused
          /\ t.type[e.inum] # INODE_DIRECTORY
          /\ u.nlink[e.inum] = t.nlink[e.inum] - 1 \/ u.type[e.inum] = INODE_FREE

LEMMA KeptClearsNone ==
  ASSUME NEW t, NEW u, Kept(t, u)
  PROVE  OneCleared(t, u)
BY DEF Kept, OneCleared

LEMMA NameSlotIs ==
  ASSUME NEW es \in Seq(Entry), es # << >>, NEW n
  PROVE  NameSlot(es, n) # 0 =>
           NameSlot(es, n) \in 1 .. Len(es) - 1 /\ es[NameSlot(es, n)].name = n
<1> DEFINE K == {l \in 1 .. Len(Front(es)) : Front(es)[l].name = n}
<1>1. Len(es) \in Nat /\ Len(es) > 0
  OBVIOUS
<1>2. Len(Front(es)) = Len(es) - 1 /\ \A l \in 1 .. Len(es) - 1 : Front(es)[l] = es[l]
  <2>1. Front(es) = SubSeq(es, 1, Len(es) - 1)
    BY DEF Front
  <2>2. /\ Len(SubSeq(es, 1, Len(es) - 1)) = Len(es) - 1
        /\ \A l \in 1 .. Len(es) - 1 : SubSeq(es, 1, Len(es) - 1)[l] = es[l]
    BY <1>1
  <2> QED
    BY <2>1, <2>2, Zenon
<1> SUFFICES ASSUME NameSlot(es, n) # 0
             PROVE  NameSlot(es, n) \in 1 .. Len(es) - 1 /\ es[NameSlot(es, n)].name = n
  OBVIOUS
<1>3. K # {} /\ NameSlot(es, n) = Min(K)
  BY DEF NameSlot, SelectInSeq
<1>4. Min(K) \in K
  <2>1. K \subseteq Nat
    OBVIOUS
  <2> HIDE DEF K
  <2> QED
    BY <1>3, <2>1, MinIs
<1> QED
  BY <1>2, <1>3, <1>4

\* The path ends in a name, and the stack does not hold an entry of it.
HasName(p, junk) == getFilename(p) # "" /\ junk.name # getFilename(p)

\* Unlink of such a path.
LEMMA UnlinkSound ==
  ASSUME NEW t, Sound(t), NEW p \in Path, NEW cur \in Inode, NEW junk,
         HasName(p, junk),
         NEW r, r = UnlinkHandler(t, p, cur, junk)
  PROVE  /\ Sound(r.tree) /\ OneCleared(t, r.tree) /\ Targets(t, r.tree)
         /\ r.res \in Result
         /\ \A j \in Inode : t.type[j] = INODE_DIRECTORY => r.tree.type[j] = INODE_DIRECTORY
<1> DEFINE d  == getParentInum(t, p, cur)
           n  == getFilename(p)
           es == t.ents[d]
           k  == NameSlot(es, n)
           i  == es[k].inum
           c  == ClearEntry(t, d, k)
<1>1. t \in TreeType /\ d \in Result
  BY ParentInRange DEF Sound
<1>2. \/ \E x \in Result : r = Reply(t, x)
      \/ /\ ~ (d < 0) /\ es # << >> /\ k # 0
         /\ t.type[i] # INODE_FREE /\ t.type[i] # INODE_DIRECTORY
         /\ r = Reply(DropLink(c, i), 0)
  <2>1. ERROR \in Result /\ LOST \in Result /\ ROOTINODE \in Result
    BY InodesAre DEF Result
  <2> QED
    BY <1>1, <2>1 DEF UnlinkHandler, HasName
<1> HIDE DEF d, n, es, k, i, c
<1>3. CASE \E x \in Result : r = Reply(t, x)
  <2>1. r.tree = t /\ r.res \in Result
    BY <1>3 DEF Reply
  <2>2. Kept(t, t) /\ Targets(t, t)
    BY KeptItself DEF Targets
  <2> QED
    BY <2>1, <2>2, KeptClearsNone
<1>4. CASE /\ ~ (d < 0) /\ es # << >> /\ k # 0
           /\ t.type[i] # INODE_FREE /\ t.type[i] # INODE_DIRECTORY
           /\ r = Reply(DropLink(c, i), 0)
  <2>1. d \in Inode
    BY <1>1, <1>4 DEF Result, ERROR, LOST
  <2>2. Len(es) \in Nat /\ DOMAIN es = 1 .. Len(es) /\ es \in Seq(Entry)
    BY <1>1, <2>1, EntriesAre DEF es
  <2>3. k \in 1 .. Len(es) - 1 /\ es[k].name = n
    BY <1>4, <2>2, NameSlotIs DEF k
  <2>4. k \in DOMAIN t.ents[d] /\ i = t.ents[d][k].inum
    BY <2>2, <2>3 DEF es, i
  <2>5. i \in Inode \ {0, ROOTINODE}
    <3>1. i \in Inode /\ i # ROOTINODE
      BY <1>1, <1>4, <2>1, <2>4, EntriesAre DEF Sound
    <3>2. i # 0
      <4>1. t.ents[d][k].name # ""
        BY <2>3 DEF es, n, HasName
      <4> QED
        BY <2>1, <2>4, <4>1 DEF Sound, Placed
    <3> QED
      BY <3>1, <3>2
  <2>6. /\ Sound(c) /\ Entered(t, c, d, k, Unused) /\ c.nlink = t.nlink
        /\ Cardinality(Links(c, i)) <= c.nlink[i] - 1
    BY <2>1, <2>4, <2>5, ClearSound DEF c
  <2>7. /\ c.type = t.type /\ c.target = t.target
        /\ \A x \in Inode \ {d} : c.ents[x] = t.ents[x]
        /\ DOMAIN c.ents[d] = DOMAIN t.ents[d]
        /\ c.ents[d][k] = Unused
        /\ \A l \in DOMAIN t.ents[d] : l # k => c.ents[d][l] = t.ents[d][l]
    BY <2>6 DEF Entered
  <2>8. PICK u : u = DropLink(c, i)
    OBVIOUS
  <2>9. r.tree = u /\ r.res = 0
    BY <1>4, <2>8 DEF Reply
  <2>10. c.type[i] # INODE_FREE /\ c.type[i] # INODE_DIRECTORY
    BY <1>4, <2>7
  <2>11. /\ Sound(u)
         /\ \A j \in Inode \ {i} : u.type[j] = c.type[j] /\ u.ents[j] = c.ents[j]
         /\ \/ u.type[i] = INODE_FREE /\ u.target[i] = NoPath
            \/ u.type[i] = c.type[i] /\ u.ents[i] = c.ents[i] /\ u.nlink[i] = c.nlink[i] - 1
         /\ \A j \in Inode : u.target[j] \in {c.target[j], NoPath}
    BY <2>5, <2>6, <2>8, <2>10, DropSound
  <2>12. Targets(t, u)
    BY <2>7, <2>11 DEF Targets
  <2>13. ASSUME NEW x \in Inode, NEW l \in 1 .. Len(t.ents[x]) - 1,
                t.ents[x][l].inum # 0, u.ents[x][l] # t.ents[x][l]
         PROVE  x = d /\ l = k /\ u.ents[x][l] = Unused
    <3>1. l \in DOMAIN t.ents[x]
      BY <1>1, EntriesAre
    <3>2. t.type[x] = INODE_DIRECTORY
      BY <2>13, <3>1 DEF Sound, Placed
    <3>3. x # i
      BY <1>4, <3>2
    <3>4. u.ents[x] = c.ents[x]
      BY <2>11, <3>3
    <3> QED
      BY <2>7, <2>13, <3>1, <3>4
  <2>14. u.nlink[i] = t.nlink[i] - 1 \/ u.type[i] = INODE_FREE
    BY <2>6, <2>11
  <2>15. OneCleared(t, u)
    <3>1. ASSUME NEW x \in Inode, NEW l \in 1 .. Len(t.ents[x]) - 1,
                 t.ents[x][l].inum # 0, u.ents[x][l] # t.ents[x][l]
          PROVE  /\ u.ents[x][l] = Unused
                 /\ t.type[t.ents[x][l].inum] # INODE_DIRECTORY
                 /\ \/ u.nlink[t.ents[x][l].inum] = t.nlink[t.ents[x][l].inum] - 1
                    \/ u.type[t.ents[x][l].inum] = INODE_FREE
      <4>1. x = d /\ l = k /\ u.ents[x][l] = Unused
        BY <2>13, <3>1
      <4>2. t.ents[x][l].inum = i
        BY <2>4, <4>1
      <4> QED
        BY <2>7, <2>10, <2>14, <4>1, <4>2
    <3> QED
      BY <3>1 DEF OneCleared
  <2>16. ASSUME NEW j \in Inode, t.type[j] = INODE_DIRECTORY PROVE u.type[j] = INODE_DIRECTORY
    BY <2>7, <2>10, <2>11, <2>16
  <2>17. r.res \in Result
    BY <2>9, InodesAre DEF Result
  <2> QED
    BY <2>9, <2>11, <2>12, <2>15, <2>16, <2>17
<1> QED
  BY <1>2, <1>3, <1>4

\* Entries of inode i are cleared or free slots are added.
LEMMA StoreSound ==
  ASSUME NEW t, Sound(t), NEW u \in TreeType, NEW i \in Inode, t.type[i] # INODE_FREE,
         u.type = t.type, u.nlink = t.nlink, u.used = t.used,
         \A x \in Inode \ {i} : u.ents[x] = t.ents[x],
         \A k \in DOMAIN u.ents[i] :
           \/ u.ents[i][k] = Unused
           \/ k \in DOMAIN t.ents[i] /\ u.ents[i][k] = t.ents[i][k]
  PROVE  Sound(u)
<1>1. /\ t \in TreeType
      /\ t.type[0] = FS_HEADER /\ t.type[ROOTINODE] = INODE_DIRECTORY
      /\ t.used = {0} \union Allocated(t)
      /\ \A j \in Inode : t.type[j] = INODE_FREE => t.nlink[j] = 0 /\ t.ents[j] = << >>
      /\ Placed(t) /\ Covered(t)
  BY DEF Sound
<1>2. Unused.inum = 0 /\ Unused.name = ""
  BY DEF Unused
<1>3. ASSUME NEW x \in Inode, NEW l \in DOMAIN u.ents[x]
      PROVE  \/ u.ents[x][l] = Unused
             \/ l \in DOMAIN t.ents[x] /\ u.ents[x][l] = t.ents[x][l]
  OBVIOUS
<1>4. Placed(u)
  <2>1. ASSUME NEW x \in Inode, NEW l \in DOMAIN u.ents[x]
        PROVE  /\ u.ents[x][l].inum # 0 => u.type[x] = INODE_DIRECTORY
               /\ u.ents[x][l].inum = 0 => u.ents[x][l].name = ""
    <3>1. CASE u.ents[x][l] = Unused
      BY <1>2, <3>1
    <3>2. CASE l \in DOMAIN t.ents[x] /\ u.ents[x][l] = t.ents[x][l]
      <4>1. Placed(t)
        BY <1>1
      <4>2. /\ t.ents[x][l].inum # 0 => t.type[x] = INODE_DIRECTORY
            /\ t.ents[x][l].inum = 0 => t.ents[x][l].name = ""
        BY <3>2, <4>1 DEF Placed
      <4> QED
        BY <3>2, <4>2
    <3> QED
      BY <1>3, <3>1, <3>2
  <2> QED
    BY <2>1 DEF Placed
<1>5. Covered(u)
  <2>1. ASSUME NEW j \in Inode \ {0} PROVE Cardinality(Links(u, j)) <= u.nlink[j]
    <3>1. \A x \in Inode : \A l \in DOMAIN u.ents[x] :
            u.ents[x][l].inum = j => l \in DOMAIN t.ents[x] /\ t.ents[x][l].inum = j
      BY <1>2, <1>3
    <3>2. t \in TreeType
      BY <1>1
    <3>3. Cardinality(Links(u, j)) <= Cardinality(Links(t, j))
      BY <3>1, <3>2, LinksNoMore
    <3>4. Cardinality(Links(t, j)) <= t.nlink[j]
      BY <1>1 DEF Covered
    <3>5. /\ Cardinality(Links(u, j)) \in Nat /\ Cardinality(Links(t, j)) \in Nat
          /\ t.nlink[j] \in Int
      BY <3>2, LinksAre, FieldsIn
    <3> QED
      BY <3>3, <3>4, <3>5
  <2> QED
    BY <2>1 DEF Covered
<1>6. /\ u.used = {0} \union Allocated(u)
      /\ \A j \in Inode : u.type[j] = INODE_FREE => u.nlink[j] = 0 /\ u.ents[j] = << >>
  BY <1>1 DEF Allocated
<1> QED
  BY <1>1, <1>4, <1>5, <1>6 DEF Sound

\* Every slot stays as it is, and there may be new ones that are free.
Grown(t, u) ==
  \A x \in Inode :
    /\ \A k \in DOMAIN t.ents[x] : k \in DOMAIN u.ents[x] /\ u.ents[x][k] = t.ents[x][k]
    /\ \A k \in DOMAIN u.ents[x] : k \in DOMAIN t.ents[x] \/ u.ents[x][k] = Unused

\* Writing behind the end of what is there clears nothing.
LEMMA WriteSound ==
  ASSUME NEW t, Sound(t), NEW i \in Inode, NEW p \in Int, NEW n \in Nat,
         NEW room, NEW zero,
         NEW r, r = WriteHandler(t, i, p, n, room, zero)
  PROVE  /\ Sound(r.tree)
         /\ r.tree.type = t.type /\ r.tree.nlink = t.nlink /\ r.tree.target = t.target
         /\ p >= Len(t.ents[i]) => OneCleared(t, r.tree) /\ Grown(t, r.tree)
<1> DEFINE m    == Len(t.ents[i])
           size == IF room /\ p + n > BLOCK_ENTRIES * ((m \div BLOCK_ENTRIES) + 1) THEN p + n ELSE m
           last == BLOCK_ENTRIES * Max({1, (size + BLOCK_ENTRIES - 1) \div BLOCK_ENTRIES})
           end  == IF p >= size THEN p ELSE IF p + n < last THEN p + n ELSE last
           es   == [k \in 1 .. size |->
                      IF k \in p + 1 .. end \/ k > m THEN Unused ELSE t.ents[i][k]]
           u    == [t EXCEPT !.ents[i] = es]
<1>1. t \in TreeType /\ m \in Nat /\ DOMAIN t.ents[i] = 1 .. m /\ t.ents[i] \in Seq(Entry)
  BY EntriesAre DEF Sound
<1>2. \/ r.tree = t
      \/ t.type[i] # INODE_FREE /\ r.tree = u
  BY DEF WriteHandler, Reply
<1>3. CASE r.tree = t
  <2>1. Grown(t, r.tree)
    BY <1>3 DEF Grown
  <2> QED
    BY <1>3, <2>1, KeptItself, KeptClearsNone
<1>4. CASE t.type[i] # INODE_FREE /\ r.tree = u
  <2>1. size \in Nat /\ (p >= m => size >= m)
    <3>1. m \div BLOCK_ENTRIES \in Nat
      <4> HIDE DEF m
      <4> QED
        BY <1>1, Bounds
    <3>2. BLOCK_ENTRIES * ((m \div BLOCK_ENTRIES) + 1) \in Nat
      <4> HIDE DEF m
      <4> DEFINE q == (m \div BLOCK_ENTRIES) + 1
      <4>1. q \in Nat
        BY <3>1
      <4> HIDE DEF q
      <4>2. BLOCK_ENTRIES * q \in Nat
        BY <4>1, Bounds
      <4> QED
        BY <4>2 DEF q
    <3> DEFINE b == BLOCK_ENTRIES * ((m \div BLOCK_ENTRIES) + 1)
    <3>3. size = IF room /\ p + n > b THEN p + n ELSE m
      OBVIOUS
    <3> HIDE DEF b, m, size
    <3>4. b \in Nat
      BY <3>2 DEF b
    <3> QED
      BY <1>1, <3>3, <3>4
  <2> HIDE DEF size
  <2> HIDE DEF end, m
  <2>2. Unused \in Entry
    BY InodesAre DEF Unused, Entry, AnyName
  <2>3. ASSUME NEW k \in 1 .. size
        PROVE  (IF k \in p + 1 .. end \/ k > m THEN Unused ELSE t.ents[i][k]) \in Entry
    <3>1. CASE k > m
      BY <2>2, <3>1
    <3>2. CASE ~ (k > m)
      <4>1. k \in 1 .. m
        BY <1>1, <2>1, <3>2
      <4>2. t.ents[i][k] \in Entry
        BY <1>1, <4>1 DEF m
      <4> QED
        BY <2>2, <4>2
    <3> QED
      BY <3>1, <3>2
  <2>4. es \in Seq(Entry) /\ DOMAIN es = 1 .. size
    <3>1. es \in [1 .. size -> Entry]
      BY <2>3
    <3> HIDE DEF es
    <3> QED
      BY <2>1, <3>1
  <2>5. ASSUME NEW k \in DOMAIN es
        PROVE  /\ es[k] = Unused \/ (k \in DOMAIN t.ents[i] /\ es[k] = t.ents[i][k])
               /\ p >= m /\ k <= m => es[k] = t.ents[i][k]
               /\ k > m => es[k] = Unused
    <3>1. k \in 1 .. size /\ k \in Int
      BY <2>1, <2>4
    <3>2. es[k] = IF k \in p + 1 .. end \/ k > m THEN Unused ELSE t.ents[i][k]
      BY <3>1
    <3> HIDE DEF es
    <3>3. p >= m /\ k <= m => ~ (k \in p + 1 .. end \/ k > m)
      BY <1>1, <3>1
    <3>4. ~ (k > m) => k \in DOMAIN t.ents[i]
      BY <1>1, <2>1, <3>1
    <3> QED
      BY <3>2, <3>3, <3>4
  <2> HIDE DEF es
  <2> DEFINE en == [t.ents EXCEPT ![i] = es]
  <2>6. u = Tree(t.type, t.nlink, t.reuse, t.target, en, t.used)
    BY <1>1, TreeIs DEF Tree
  <2>7. en \in [Inode -> Seq(Entry)] /\ en[i] = es /\ \A x \in Inode \ {i} : en[x] = t.ents[x]
    BY <1>1, <2>4, FieldsIn
  <2> HIDE DEF en, u
  <2>8. u.type = t.type /\ u.nlink = t.nlink /\ u.target = t.target /\ u.ents = en /\ u.used = t.used
    BY <2>6, FieldsAre
  <2>9. u \in TreeType
    <3>1. /\ t.type \in [Inode -> Type] /\ t.reuse \in [Inode -> 0 .. REUSES - 1]
          /\ t.target \in [Inode -> Path] /\ t.used \in SUBSET Inode
          /\ t.nlink \in [Inode -> Int]
      BY <1>1, FieldsIn
    <3> QED
      BY <2>6, <2>7, <3>1 DEF Tree, TreeType
  <2>10. /\ u.ents[i] = es /\ \A x \in Inode \ {i} : u.ents[x] = t.ents[x]
    BY <2>7, <2>8
  <2>11. Sound(u)
    <3>1. \A k \in DOMAIN u.ents[i] :
            \/ u.ents[i][k] = Unused
            \/ k \in DOMAIN t.ents[i] /\ u.ents[i][k] = t.ents[i][k]
      BY <2>5, <2>10
    <3> QED
      BY <1>4, <2>8, <2>9, <2>10, <3>1, StoreSound
  <2>12. ASSUME p >= m PROVE OneCleared(t, u)
    <3>1. ASSUME NEW x \in Inode, NEW k \in 1 .. Len(t.ents[x]) - 1
          PROVE  u.ents[x][k] = t.ents[x][k]
      <4>1. CASE x # i
        BY <2>10, <4>1
      <4>2. CASE x = i
        <5>1. k \in 1 .. m /\ k \in DOMAIN es
          BY <1>1, <2>1, <2>4, <2>12, <4>2 DEF m
        <5>2. k <= m
          BY <1>1, <5>1
        <5> QED
          BY <2>5, <2>10, <2>12, <4>2, <5>1, <5>2
      <4> QED
        BY <4>1, <4>2
    <3> QED
      BY <3>1 DEF OneCleared
  <2>13. ASSUME p >= m PROVE Grown(t, u)
    <3>1. ASSUME NEW x \in Inode
          PROVE  /\ \A k \in DOMAIN t.ents[x] : k \in DOMAIN u.ents[x] /\ u.ents[x][k] = t.ents[x][k]
                 /\ \A k \in DOMAIN u.ents[x] : k \in DOMAIN t.ents[x] \/ u.ents[x][k] = Unused
      <4>1. CASE x # i
        BY <2>10, <4>1
      <4>2. CASE x = i
        <5>1. ASSUME NEW k \in DOMAIN t.ents[i] PROVE k \in DOMAIN es /\ es[k] = t.ents[i][k]
          <6>1. k \in 1 .. m /\ k \in 1 .. size /\ k <= m
            BY <1>1, <2>1, <2>13
          <6> QED
            BY <2>4, <2>5, <2>13, <6>1
        <5>2. \A k \in DOMAIN es : k \in DOMAIN t.ents[i] \/ es[k] = Unused
          BY <2>5
        <5> QED
          BY <2>10, <4>2, <5>1, <5>2
      <4> QED
        BY <4>1, <4>2
    <3> QED
      BY <3>1 DEF Grown
  <2> QED
    BY <1>4, <2>8, <2>11, <2>12, <2>13 DEF m
<1> QED
  BY <1>2, <1>3, <1>4

\* The next boot finds the inodes that are in use.
LEMMA BootIs ==
  ASSUME NEW t, Sound(t)
  PROVE  Boot(t) = t
<1> DEFINE us == {0} \union {i \in Inode : t.type[i] # INODE_FREE}
<1>1. t.used = us
  BY DEF Sound, Allocated
<1>2. Boot(t) = [t EXCEPT !.used = t.used]
  BY <1>1 DEF Boot
<1>3. t \in TreeType
  BY DEF Sound
<1>4. t = Tree(t.type, t.nlink, t.reuse, t.target, t.ents, t.used)
  BY <1>3, TreeIs
<1> QED
  BY <1>2, <1>4 DEF Tree

\* ChDir answers with a directory.
LEMMA ChDirIs ==
  ASSUME NEW t, Sound(t), NEW p \in Path, NEW cur \in Inode
  PROVE  /\ ChDirHandler(t, p, cur).tree = t
         /\ ChDirHandler(t, p, cur).res \in Dirs(t) \union {ERROR, LOST}
<1>1. p = [abs |-> p.abs, names |-> p.names] /\ p.abs \in BOOLEAN /\ p.names \in Seq(AnyName)
  BY DEF Path
<1>2. "." \in AnyName
  BY DEF AnyName
<1>3. <<".">> \in Seq(AnyName)
  BY <1>2
<1>4. ASSUME p.names # << >> PROVE Append(Front(p.names), ".") \in Seq(AnyName)
  <2>1. Front(p.names) \in Seq(AnyName)
    BY <1>1, <1>4 DEF Front
  <2> QED
    BY <1>2, <2>1
<1>5. WithDot(p) \in Path
  BY <1>1, <1>3, <1>4 DEF WithDot, Path
<1> DEFINE i == resolvePath(t, WithDot(p), cur)
<1>6. i \in Result
  BY <1>5, ResolveInRange DEF Sound
<1>7. ChDirHandler(t, p, cur)
        = Reply(t, IF i < 0 THEN i ELSE IF t.type[i] = INODE_DIRECTORY THEN i ELSE ERROR)
  BY DEF ChDirHandler
<1> HIDE DEF i
<1> QED
  BY <1>6, <1>7, InodesAre DEF Reply, Dirs, Result, ERROR, LOST
=============================================================================
