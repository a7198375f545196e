-------------------------- MODULE YfsStorageProofs --------------------------
(***************************************************************************)
(* What the operators of YfsStorage preserve and change, for every size of *)
(* the disk and of the caches.                                             *)
(***************************************************************************)
EXTENDS YfsStorage, SequenceTheorems, FiniteSetTheorems, TLAPS

-----------------------------------------------------------------------------
(* The list of entries.                                                    *)

\* The elements of a list without its k-th.
LEMMA RemoveAtElements ==
  ASSUME NEW q \in Seq(Nat), NEW k \in 1 .. Len(q)
  PROVE  /\ RemoveAt(q, k) \in Seq(Nat)
         /\ Len(RemoveAt(q, k)) = Len(q) - 1
         /\ \A j \in 1 .. Len(q) - 1 :
              RemoveAt(q, k)[j] = IF j < k THEN q[j] ELSE q[j + 1]
<1> DEFINE s == SubSeq(q, 1, k - 1)
           t == SubSeq(q, k + 1, Len(q))
<1>1. \A i \in 1 .. Len(q) : q[i] \in Nat
  BY ElementOfSeq
<1>2. Len(q) \in Nat
  OBVIOUS
<1>3. /\ s \in Seq(Nat)
      /\ Len(s) = k - 1
      /\ \A i \in 1 .. k - 1 : s[i] = q[i]
  <2>1. \A i \in 1 .. k - 1 : q[i] \in Nat
    BY <1>1, <1>2
  <2>2. /\ s \in Seq(Nat)
        /\ Len(s) = IF 1 <= k - 1 THEN k - 1 - 1 + 1 ELSE 0
        /\ \A i \in 1 .. k - 1 - 1 + 1 : s[i] = q[1 + i - 1]
    BY <2>1, SubSeqProperties
  <2> QED
    BY <2>2
<1>4. /\ t \in Seq(Nat)
      /\ Len(t) = Len(q) - k
      /\ \A i \in 1 .. Len(q) - k : t[i] = q[k + i]
  <2>1. \A i \in k + 1 .. Len(q) : q[i] \in Nat
    BY <1>1, <1>2
  <2>2. /\ t \in Seq(Nat)
        /\ Len(t) = IF k + 1 <= Len(q) THEN Len(q) - (k + 1) + 1 ELSE 0
        /\ \A i \in 1 .. Len(q) - (k + 1) + 1 : t[i] = q[k + 1 + i - 1]
    BY <1>2, <2>1, SubSeqProperties
  <2> QED
    BY <1>2, <2>2
<1>5. /\ s \o t \in Seq(Nat)
      /\ Len(s \o t) = Len(s) + Len(t)
      /\ \A i \in 1 .. Len(s) + Len(t) :
           (s \o t)[i] = IF i <= Len(s) THEN s[i] ELSE t[i - Len(s)]
  BY <1>3, <1>4, ConcatProperties
<1>6. RemoveAt(q, k) = s \o t
  BY DEF RemoveAt
<1> HIDE DEF s, t
<1>7. Len(s) + Len(t) = Len(q) - 1
  BY <1>2, <1>3, <1>4
<1>8. ASSUME NEW j \in 1 .. Len(q) - 1
      PROVE  (s \o t)[j] = IF j < k THEN q[j] ELSE q[j + 1]
  <2>1. (s \o t)[j] = IF j <= Len(s) THEN s[j] ELSE t[j - Len(s)]
    BY <1>5, <1>7
  <2>2. CASE j < k
    BY <2>1, <2>2, <1>2, <1>3
  <2>3. CASE ~ (j < k)
    <3>1. j - Len(s) \in 1 .. Len(q) - k /\ k + (j - Len(s)) = j + 1
      BY <2>3, <1>2, <1>3
    <3>2. t[j - Len(s)] = q[j + 1]
      BY <3>1, <1>4
    <3> QED
      BY <2>1, <2>3, <3>2, <1>2, <1>3
  <2> QED
    BY <2>2, <2>3
<1> QED
  BY <1>5, <1>6, <1>7, <1>8

\* Unlinking an entry takes it out of the list and nothing else.
LEMMA RemoveQueueElements ==
  ASSUME NEW q \in Seq(Nat), IsInjective(q), NEW n \in ToSet(q)
  PROVE  /\ RemoveQueue(q, n) \in Seq(Nat)
         /\ Len(RemoveQueue(q, n)) = Len(q) - 1
         /\ IsInjective(RemoveQueue(q, n))
         /\ ToSet(RemoveQueue(q, n)) = ToSet(q) \ {n}
<1> DEFINE k == CHOOSE k \in DOMAIN q : q[k] = n
           r == RemoveQueue(q, n)
<1>1. DOMAIN q = 1 .. Len(q) /\ Len(q) \in Nat
  OBVIOUS
<1>2. k \in 1 .. Len(q) /\ q[k] = n
  BY <1>1 DEF ToSet
<1> HIDE DEF k
<1>3. /\ r \in Seq(Nat)
      /\ Len(r) = Len(q) - 1
      /\ \A j \in 1 .. Len(q) - 1 : r[j] = IF j < k THEN q[j] ELSE q[j + 1]
  BY <1>2, RemoveAtElements DEF RemoveQueue, k
<1> HIDE DEF r
<1>4. DOMAIN r = 1 .. Len(q) - 1
  BY <1>3
<1>5. IsInjective(r)
  <2> SUFFICES ASSUME NEW i \in 1 .. Len(q) - 1, NEW j \in 1 .. Len(q) - 1, r[i] = r[j]
               PROVE  i = j
    BY <1>4 DEF IsInjective
  <2> DEFINE x == IF i < k THEN i ELSE i + 1
             y == IF j < k THEN j ELSE j + 1
  <2>1. x \in 1 .. Len(q) /\ y \in 1 .. Len(q)
    BY <1>1, <1>2
  <2>2. r[i] = q[x] /\ r[j] = q[y]
    BY <1>1, <1>2, <1>3
  <2>3. x = y
    BY <2>1, <2>2, <1>1 DEF IsInjective
  <2> QED
    BY <2>3, <1>2, <1>1
<1>6. ToSet(r) \subseteq ToSet(q) \ {n}
  <2> SUFFICES ASSUME NEW j \in 1 .. Len(q) - 1
               PROVE  r[j] \in ToSet(q) \ {n}
    BY <1>4 DEF ToSet
  <2> DEFINE y == IF j < k THEN j ELSE j + 1
  <2>1. y \in 1 .. Len(q) /\ r[j] = q[y] /\ y # k
    <3>1. j \in Int /\ k \in Int /\ 1 <= j /\ j <= Len(q) - 1 /\ 1 <= k /\ k <= Len(q)
      BY <1>1, <1>2
    <3>2. CASE j < k
      <4>1. y = j /\ r[j] = q[j]
        BY <1>3, <3>2
      <4> QED
        BY <1>1, <3>1, <3>2, <4>1
    <3>3. CASE ~ (j < k)
      <4>1. y = j + 1 /\ r[j] = q[j + 1]
        BY <1>3, <3>3
      <4> HIDE DEF y
      <4> QED
        BY <1>1, <3>1, <3>3, <4>1
    <3> QED
      BY <3>2, <3>3
  <2>2. q[y] # n
    BY <2>1, <1>1, <1>2 DEF IsInjective
  <2> QED
    BY <2>1, <2>2, <1>1 DEF ToSet
<1>7. ToSet(q) \ {n} \subseteq ToSet(r)
  <2> SUFFICES ASSUME NEW i \in 1 .. Len(q), q[i] # n
               PROVE  q[i] \in ToSet(r)
    BY <1>1 DEF ToSet
  <2> DEFINE j == IF i < k THEN i ELSE i - 1
  <2>1. i # k
    BY <1>2
  <2>2. j \in 1 .. Len(q) - 1 /\ r[j] = q[i]
    <3>1. i \in Int /\ k \in Int /\ 1 <= i /\ i <= Len(q) /\ 1 <= k /\ k <= Len(q)
      BY <1>1, <1>2
    <3>2. CASE i < k
      <4>1. j = i /\ i \in 1 .. Len(q) - 1
        BY <1>1, <3>1, <3>2
      <4> HIDE DEF j
      <4> QED
        BY <1>3, <3>2, <4>1
    <3>3. CASE ~ (i < k)
      <4>1. j = i - 1 /\ i - 1 \in 1 .. Len(q) - 1 /\ ~ (i - 1 < k) /\ (i - 1) + 1 = i
        BY <1>1, <2>1, <3>1, <3>3
      <4> HIDE DEF j
      <4> QED
        BY <1>3, <4>1
    <3> QED
      BY <3>2, <3>3
  <2> QED
    BY <2>2, <1>4 DEF ToSet
<1> QED
  BY <1>3, <1>5, <1>6, <1>7 DEF r

\* Enqueueing puts one entry in the list.
LEMMA AppendElements ==
  ASSUME NEW q \in Seq(Nat), IsInjective(q), NEW n \in Nat, n \notin ToSet(q)
  PROVE  /\ Append(q, n) \in Seq(Nat)
         /\ Len(Append(q, n)) = Len(q) + 1
         /\ IsInjective(Append(q, n))
         /\ ToSet(Append(q, n)) = ToSet(q) \union {n}
<1> DEFINE r == Append(q, n)
<1>1. /\ r \in Seq(Nat) /\ Len(r) = Len(q) + 1 /\ DOMAIN r = 1 .. Len(q) + 1
      /\ DOMAIN q = 1 .. Len(q) /\ Len(q) \in Nat
      /\ r[Len(q) + 1] = n /\ \A i \in 1 .. Len(q) : r[i] = q[i]
  OBVIOUS
<1> HIDE DEF r
<1>2. ToSet(r) = ToSet(q) \union {n}
  <2>1. \A i \in 1 .. Len(q) + 1 : i \in 1 .. Len(q) \/ i = Len(q) + 1
    BY <1>1
  <2>2. \A i \in 1 .. Len(q) : i \in 1 .. Len(q) + 1
    BY <1>1
  <2>3. Len(q) + 1 \in 1 .. Len(q) + 1
    BY <1>1
  <2> QED
    BY <1>1, <2>1, <2>2, <2>3 DEF ToSet
<1>3. IsInjective(r)
  <2> SUFFICES ASSUME NEW i \in 1 .. Len(q) + 1, NEW j \in 1 .. Len(q) + 1, r[i] = r[j]
               PROVE  i = j
    BY <1>1 DEF IsInjective
  <2>1. \A x \in 1 .. Len(q) : q[x] # n
    BY <1>1 DEF ToSet
  <2>2. CASE i \in 1 .. Len(q) /\ j \in 1 .. Len(q)
    BY <1>1, <2>2 DEF IsInjective
  <2>3. CASE i = Len(q) + 1 \/ j = Len(q) + 1
    BY <1>1, <2>1, <2>3
  <2> QED
    BY <1>1, <2>2, <2>3
<1> QED
  BY <1>1, <1>2, <1>3 DEF r

\* There is always an address no live entry has.
LEMMA MallocFresh ==
  ASSUME NEW c, c.queue \in Seq(Nat)
  PROVE  Malloc(c) \in Nat /\ Malloc(c) \notin ToSet(c.queue)
<1> DEFINE q == c.queue
           L == Len(q)
<1>1. L \in Nat /\ DOMAIN q = 1 .. L
  OBVIOUS
<1>2. \E n \in 0 .. L : n \notin ToSet(q)
  <2> SUFFICES ASSUME \A n \in 0 .. L : n \in ToSet(q)
               PROVE  FALSE
    OBVIOUS
  <2> DEFINE f == [n \in 0 .. L |-> CHOOSE k \in 1 .. L : q[k] = n]
  <2>1. \A n \in 0 .. L : f[n] \in 1 .. L /\ q[f[n]] = n
    BY <1>1 DEF ToSet
  <2>2. f \in [0 .. L -> 1 .. L]
    BY <2>1
  <2>3. /\ IsFiniteSet(0 .. L) /\ IsFiniteSet(1 .. L)
        /\ Cardinality(1 .. L) < Cardinality(0 .. L)
    <3>0. 0 \in Int /\ 1 \in Int /\ L \in Int
      BY <1>1
    <3> HIDE DEF L
    <3>1. /\ IsFiniteSet(0 .. L)
          /\ Cardinality(0 .. L) = IF 0 > L THEN 0 ELSE L - 0 + 1
      BY <3>0, FS_Interval
    <3>2. /\ IsFiniteSet(1 .. L)
          /\ Cardinality(1 .. L) = IF 1 > L THEN 0 ELSE L - 1 + 1
      BY <3>0, FS_Interval
    <3> QED
      BY <1>1, <3>1, <3>2
  <2> HIDE DEF f
  <2>4. \E x, y \in 0 .. L : x # y /\ f[x] = f[y]
    BY <2>2, <2>3, FS_PigeonHole
  <2> QED
    BY <2>1, <2>4
<1> QED
  BY <1>1, <1>2 DEF Malloc

-----------------------------------------------------------------------------
(* One cache.  K are its numbers, L those of them that have one entry.     *)

WellFormed(c, K, V, L) == CacheType(c, K, V) /\ Linked(c, L)

\* What a well-formed cache consists of.
LEMMA WellFormedParts ==
  ASSUME NEW c, NEW K, NEW V, NEW L, WellFormed(c, K, V, L)
  PROVE  /\ c = [hash |-> c.hash, queue |-> c.queue, info |-> c.info]
         /\ c.hash \in [K -> Nat \union {NULL}]
         /\ c.queue \in Seq(Nat)
         /\ ToSet(c.queue) \subseteq Nat
         /\ c.info \in [ToSet(c.queue) -> Entry(K, V)]
         /\ IsInjective(c.queue)
         /\ \A k \in K : c.hash[k] # NULL =>
              c.hash[k] \in ToSet(c.queue) /\ c.info[c.hash[k]].num = k
         /\ \A n \in ToSet(c.queue) : c.info[n].num \in L => c.hash[c.info[n].num] = n
<1>1. c.queue \in Seq(Nat)
  BY DEF WellFormed, CacheType
<1>2. ToSet(c.queue) \subseteq Nat
  <2>1. DOMAIN c.queue = 1 .. Len(c.queue)
    BY <1>1
  <2>2. \A i \in 1 .. Len(c.queue) : c.queue[i] \in Nat
    BY <1>1, ElementOfSeq
  <2> QED
    BY <2>1, <2>2 DEF ToSet
<1> QED
  BY <1>1, <1>2 DEF WellFormed, CacheType, Linked, HashIsLive, NoOrphan

\* What makes a cache well formed.
LEMMA WellFormedIntro ==
  ASSUME NEW K, NEW V, NEW L,
         NEW hash \in [K -> Nat \union {NULL}],
         NEW queue \in Seq(Nat),
         NEW info \in [ToSet(queue) -> Entry(K, V)],
         IsInjective(queue),
         \A k \in K : hash[k] # NULL => hash[k] \in ToSet(queue) /\ info[hash[k]].num = k,
         \A n \in ToSet(queue) : info[n].num \in L => hash[info[n].num] = n
  PROVE  WellFormed([hash |-> hash, queue |-> queue, info |-> info], K, V, L)
BY DEF WellFormed, CacheType, Linked, HashIsLive, NoOrphan

\* init_lru leaves a well-formed cache.
LEMMA EmptyWellFormed ==
  ASSUME NEW K, NEW V, NEW L
  PROVE  WellFormed(EmptyCache(K), K, V, L)
<1>1. ToSet(<< >>) = {}
  BY DEF ToSet
<1>2. << >> \in [ToSet(<< >>) -> Entry(K, V)]
  BY <1>1
<1>3. IsInjective(<< >>)
  BY DEF IsInjective
<1> QED
  BY <1>1, <1>2, <1>3 DEF WellFormed, CacheType, Linked, HashIsLive, NoOrphan, EmptyCache

\* A hit (get_block_lru, get_inode_lru) changes only the order of the list.
LEMMA TouchWellFormed ==
  ASSUME NEW c, NEW K, NEW V, NEW L, WellFormed(c, K, V, L), NEW n \in ToSet(c.queue)
  PROVE  /\ WellFormed(Touch(c, n), K, V, L)
         /\ Touch(c, n).hash = c.hash
         /\ Touch(c, n).info = c.info
         /\ Len(Touch(c, n).queue) = Len(c.queue)
         /\ ToSet(Touch(c, n).queue) = ToSet(c.queue)
<1> DEFINE q == Append(RemoveQueue(c.queue, n), n)
<1>1. /\ q \in Seq(Nat) /\ IsInjective(q) /\ Len(q) = Len(c.queue)
      /\ ToSet(q) = ToSet(c.queue)
  <2>1. /\ c.queue \in Seq(Nat) /\ IsInjective(c.queue) /\ n \in Nat
    BY WellFormedParts
  <2>2. /\ RemoveQueue(c.queue, n) \in Seq(Nat)
        /\ Len(RemoveQueue(c.queue, n)) = Len(c.queue) - 1
        /\ IsInjective(RemoveQueue(c.queue, n))
        /\ ToSet(RemoveQueue(c.queue, n)) = ToSet(c.queue) \ {n}
    BY <2>1, RemoveQueueElements
  <2>3. n \notin ToSet(RemoveQueue(c.queue, n))
    BY <2>2
  <2>4. /\ q \in Seq(Nat)
        /\ Len(q) = Len(RemoveQueue(c.queue, n)) + 1
        /\ IsInjective(q)
        /\ ToSet(q) = ToSet(RemoveQueue(c.queue, n)) \union {n}
    BY <2>1, <2>2, <2>3, AppendElements
  <2>5. Len(c.queue) \in Nat
    BY <2>1
  <2> QED
    BY <2>2, <2>4, <2>5
<1>2. Touch(c, n) = [hash |-> c.hash, queue |-> q, info |-> c.info]
  <2>1. c \in [hash : {c.hash}, queue : {c.queue}, info : {c.info}]
    BY DEF WellFormed, CacheType
  <2>2. Touch(c, n) = [c EXCEPT !.queue = q]
    BY DEF Touch
  <2> HIDE DEF q
  <2> QED
    BY <2>1, <2>2
<1> HIDE DEF q
<1>3. WellFormed([hash |-> c.hash, queue |-> q, info |-> c.info], K, V, L)
  <2>1. /\ c.hash \in [K -> Nat \union {NULL}]
        /\ c.info \in [ToSet(q) -> Entry(K, V)]
        /\ \A k \in K : c.hash[k] # NULL => c.hash[k] \in ToSet(q) /\ c.info[c.hash[k]].num = k
        /\ \A m \in ToSet(q) : c.info[m].num \in L => c.hash[c.info[m].num] = m
    BY <1>1, WellFormedParts
  <2> QED
    BY <1>1, <2>1, WellFormedIntro
<1> QED
  BY <1>1, <1>2, <1>3

\* A new entry of a number the table lacks keeps the cache well formed.
LEMMA InsertWellFormed ==
  ASSUME NEW c, NEW K, NEW V, NEW L, WellFormed(c, K, V, L),
         NEW n \in Nat, n \notin ToSet(c.queue),
         NEW e \in Entry(K, V), c.hash[e.num] = NULL
  PROVE  /\ WellFormed(Insert(c, n, e), K, V, L)
         /\ Insert(c, n, e).hash = [c.hash EXCEPT ![e.num] = n]
         /\ Len(Insert(c, n, e).queue) = Len(c.queue) + 1
         /\ ToSet(Insert(c, n, e).queue) = ToSet(c.queue) \union {n}
         /\ Insert(c, n, e).info[n] = e
         /\ \A m \in ToSet(c.queue) : Insert(c, n, e).info[m] = c.info[m]
<1> DEFINE q == Append(c.queue, n)
           h == [c.hash EXCEPT ![e.num] = n]
           f == [m \in ToSet(c.queue) \union {n} |-> IF m = n THEN e ELSE c.info[m]]
<1>1. /\ q \in Seq(Nat) /\ IsInjective(q) /\ Len(q) = Len(c.queue) + 1
      /\ ToSet(q) = ToSet(c.queue) \union {n}
  BY WellFormedParts, AppendElements
<1>2. Insert(c, n, e) = [hash |-> h, queue |-> q, info |-> f]
  BY DEF Insert
<1>3. e.num \in K
  BY DEF Entry
<1>4. h \in [K -> Nat \union {NULL}]
  BY <1>3, WellFormedParts
<1>5. f \in [ToSet(q) -> Entry(K, V)]
  BY <1>1, WellFormedParts
<1>6. f[n] = e /\ \A m \in ToSet(c.queue) : f[m] = c.info[m]
  OBVIOUS
<1>7. h[e.num] = n /\ \A k \in K \ {e.num} : h[k] = c.hash[k]
  BY <1>3, WellFormedParts
<1> HIDE DEF q, f
<1>8. \A k \in K : h[k] # NULL => h[k] \in ToSet(q) /\ f[h[k]].num = k
  <2> HIDE DEF h
  <2> QED
    BY <1>1, <1>6, <1>7, WellFormedParts
<1>9. \A m \in ToSet(q) : f[m].num \in L => h[f[m].num] = m
  <2> SUFFICES ASSUME NEW m \in ToSet(q), f[m].num \in L
               PROVE  h[f[m].num] = m
    OBVIOUS
  <2>1. CASE m = n
    BY <2>1, <1>6, <1>7
  <2>2. CASE m \in ToSet(c.queue)
    <3>1. f[m] = c.info[m] /\ c.hash[c.info[m].num] = m
      BY <2>2, <1>6, WellFormedParts
    <3>2. m \in Nat /\ NULL \notin Nat
      BY <2>2, WellFormedParts DEF NULL
    <3>3. c.info[m].num # e.num
      BY <3>1, <3>2
    <3>4. c.info[m].num \in K
      BY <2>2, WellFormedParts DEF Entry
    <3> HIDE DEF h
    <3> QED
      BY <3>1, <3>3, <3>4, <1>7
  <2> QED
    BY <2>1, <2>2, <1>1
<1> HIDE DEF h
<1>10. WellFormed(Insert(c, n, e), K, V, L)
  <2>1. WellFormed([hash |-> h, queue |-> q, info |-> f], K, V, L)
    BY <1>1, <1>4, <1>5, <1>8, <1>9, WellFormedIntro
  <2> QED
    BY <1>2, <2>1
<1> QED
  BY <1>1, <1>2, <1>6, <1>10 DEF h

\* Freeing an entry with its place in the table keeps the cache well formed.
LEMMA DropWellFormed ==
  ASSUME NEW c, NEW K, NEW V, NEW L, WellFormed(c, K, V, L), NEW n \in ToSet(c.queue)
  PROVE  /\ WellFormed(Drop(c, n), K, V, L)
         /\ Drop(c, n).hash = [c.hash EXCEPT ![c.info[n].num] = NULL]
         /\ Len(Drop(c, n).queue) = Len(c.queue) - 1
         /\ ToSet(Drop(c, n).queue) = ToSet(c.queue) \ {n}
         /\ \A m \in ToSet(c.queue) \ {n} : Drop(c, n).info[m] = c.info[m]
<1> DEFINE q == RemoveQueue(c.queue, n)
           x == c.info[n].num
           h == [c.hash EXCEPT ![x] = NULL]
           f == [m \in ToSet(c.queue) \ {n} |-> c.info[m]]
<1>1. /\ q \in Seq(Nat) /\ IsInjective(q) /\ Len(q) = Len(c.queue) - 1
      /\ ToSet(q) = ToSet(c.queue) \ {n}
  BY WellFormedParts, RemoveQueueElements
<1>2. Drop(c, n) = [hash |-> h, queue |-> q, info |-> f]
  BY DEF Drop
<1>3. x \in K
  BY WellFormedParts DEF Entry
<1>4. h \in [K -> Nat \union {NULL}]
  BY WellFormedParts
<1>5. f \in [ToSet(q) -> Entry(K, V)]
  BY <1>1, WellFormedParts
<1>6. \A m \in ToSet(c.queue) \ {n} : f[m] = c.info[m]
  OBVIOUS
<1>7. h[x] = NULL /\ \A k \in K \ {x} : h[k] = c.hash[k]
  BY <1>3, WellFormedParts
<1> HIDE DEF q, f
<1>8. \A k \in K : h[k] # NULL => h[k] \in ToSet(q) /\ f[h[k]].num = k
  <2> SUFFICES ASSUME NEW k \in K, h[k] # NULL
               PROVE  h[k] \in ToSet(q) /\ f[h[k]].num = k
    OBVIOUS
  <2>1. k # x /\ h[k] = c.hash[k]
    BY <1>7
  <2>2. h[k] \in ToSet(c.queue) /\ c.info[h[k]].num = k
    BY <2>1, WellFormedParts
  <2>3. h[k] # n
    BY <2>1, <2>2
  <2> QED
    BY <2>2, <2>3, <1>1, <1>6
<1>9. \A m \in ToSet(q) : f[m].num \in L => h[f[m].num] = m
  <2> SUFFICES ASSUME NEW m \in ToSet(c.queue) \ {n}, c.info[m].num \in L
               PROVE  h[c.info[m].num] = m
    BY <1>1, <1>6
  <2>1. c.hash[c.info[m].num] = m /\ c.info[m].num \in K
    BY WellFormedParts DEF Entry
  <2>2. c.info[m].num # x
    <3>1. x \in L => c.hash[x] = n
      BY WellFormedParts
    <3> QED
      BY <2>1, <3>1
  <2> QED
    BY <2>1, <2>2, <1>7
<1> HIDE DEF h, x
<1>10. WellFormed(Drop(c, n), K, V, L)
  <2>1. WellFormed([hash |-> h, queue |-> q, info |-> f], K, V, L)
    BY <1>1, <1>4, <1>5, <1>8, <1>9, WellFormedIntro
  <2> QED
    BY <1>2, <2>1
<1> QED
  BY <1>1, <1>2, <1>6, <1>10 DEF h, x

\* A store into an entry that keeps its number keeps the cache well formed.
LEMMA UpdateWellFormed ==
  ASSUME NEW c, NEW K, NEW V, NEW L, WellFormed(c, K, V, L),
         NEW n \in ToSet(c.queue), NEW e \in Entry(K, V), e.num = c.info[n].num
  PROVE  WellFormed([c EXCEPT !.info[n] = e], K, V, L)
<1> DEFINE f == [c.info EXCEPT ![n] = e]
<1>1. [c EXCEPT !.info[n] = e] = [hash |-> c.hash, queue |-> c.queue, info |-> f]
  <2>1. c \in [hash : {c.hash}, queue : {c.queue}, info : {c.info}]
    BY DEF WellFormed, CacheType
  <2> QED
    BY <2>1
<1>2. f \in [ToSet(c.queue) -> Entry(K, V)]
  BY WellFormedParts
<1>3. \A m \in ToSet(c.queue) : f[m].num = c.info[m].num
  BY WellFormedParts
<1> HIDE DEF f
<1> QED
  <2>1. /\ \A k \in K : c.hash[k] # NULL => c.hash[k] \in ToSet(c.queue) /\ f[c.hash[k]].num = k
        /\ \A m \in ToSet(c.queue) : f[m].num \in L => c.hash[f[m].num] = m
    BY <1>3, WellFormedParts
  <2>2. WellFormed([hash |-> c.hash, queue |-> c.queue, info |-> f], K, V, L)
    BY <1>2, <2>1, WellFormedParts, WellFormedIntro
  <2> QED
    BY <1>1, <2>2

-----------------------------------------------------------------------------
(* The disk and the block cache.                                           *)

DiskType == [Block -> [Slot -> Cell]]

\* A clean entry of a block holds what the sector holds.
CleanBlocks(s) ==
  \A b \in SoundBlock : s.bc.hash[b] # NULL =>
    (~ s.bc.info[s.bc.hash[b]].dirty => s.bc.info[s.bc.hash[b]].val = s.disk[b])

StorageOK(s) ==
  /\ s = [disk |-> s.disk, bc |-> s.bc, ic |-> s.ic]
  /\ s.disk \in DiskType
  /\ WellFormed(s.bc, Block, [Slot -> Cell], SoundBlock)
  /\ WellFormed(s.ic, Inode, Cell, Inode)
  /\ CleanBlocks(s)

\* A sector only ever takes the content its block has.
SectorsFollow(s, t) ==
  \A b \in SoundBlock : t.disk[b] = s.disk[b] \/ t.disk[b] = BlockData(s, b)

\* What an entry of the block cache is.
LEMMA BlockEntry ==
  ASSUME NEW s, StorageOK(s), NEW n \in ToSet(s.bc.queue)
  PROVE  /\ n \in Nat /\ n # NULL
         /\ s.bc.info[n] \in Entry(Block, [Slot -> Cell])
         /\ s.bc.info[n].num \in Block
         /\ s.bc.info[n].dirty \in BOOLEAN
         /\ s.bc.info[n].val \in [Slot -> Cell]
         /\ s.bc.info[n].num \in SoundBlock => s.bc.hash[s.bc.info[n].num] = n
<1>1. WellFormed(s.bc, Block, [Slot -> Cell], SoundBlock)
  BY DEF StorageOK
<1>2. n \in Nat /\ n # NULL
  <2>1. ToSet(s.bc.queue) \subseteq Nat
    BY <1>1, WellFormedParts
  <2>2. n \in Nat
    BY <2>1
  <2> QED
    BY <2>2 DEF NULL
<1>3. s.bc.info[n] \in Entry(Block, [Slot -> Cell])
  BY <1>1, WellFormedParts
<1>4. s.bc.info[n].num \in SoundBlock => s.bc.hash[s.bc.info[n].num] = n
  BY <1>1, WellFormedParts
<1> QED
  BY <1>2, <1>3, <1>4 DEF Entry

\* What the block hash table and a block for a reader are.
LEMMA BlockHash ==
  ASSUME NEW s, StorageOK(s), NEW b \in Block
  PROVE  /\ s.disk[b] \in [Slot -> Cell]
         /\ s.bc.hash[b] # NULL =>
              s.bc.hash[b] \in ToSet(s.bc.queue) /\ s.bc.info[s.bc.hash[b]].num = b
         /\ BlockData(s, b) \in [Slot -> Cell]
<1>1. s.disk[b] \in [Slot -> Cell]
  BY DEF StorageOK, DiskType
<1>2. s.bc.hash[b] # NULL =>
        s.bc.hash[b] \in ToSet(s.bc.queue) /\ s.bc.info[s.bc.hash[b]].num = b
  BY WellFormedParts DEF StorageOK
<1> QED
  BY <1>1, <1>2, BlockEntry DEF BlockData

\* Eviction may write a sector and drop an entry; no block changes.
LEMMA EvictBlockKeeps ==
  ASSUME NEW s, StorageOK(s), NEW bad
  PROVE  LET t == EvictBlock(s, bad)
         IN  /\ StorageOK(t)
             /\ t.ic = s.ic
             /\ \A b \in SoundBlock : BlockData(t, b) = BlockData(s, b)
             /\ SectorsFollow(s, t)
             /\ ToSet(t.bc.queue) \subseteq ToSet(s.bc.queue)
             /\ \A b \in Block : t.bc.hash[b] = NULL \/ t.bc.hash[b] = s.bc.hash[b]
<1> DEFINE t == EvictBlock(s, bad)
           n == Head(s.bc.queue)
           e == s.bc.info[n]
<1>1. CASE Len(s.bc.queue) < BLOCK_CACHESIZE \/ (e.dirty /\ e.num \in bad)
  <2>1. t = s
    BY <1>1 DEF EvictBlock
  <2> QED
    BY <2>1 DEF SectorsFollow
<1>2. CASE ~ (Len(s.bc.queue) < BLOCK_CACHESIZE \/ (e.dirty /\ e.num \in bad))
  <2>1. n \in ToSet(s.bc.queue)
    <3>1. s.bc.queue \in Seq(Nat) /\ Len(s.bc.queue) \in Nat
      BY WellFormedParts DEF StorageOK
    <3>2. Len(s.bc.queue) >= 1
      BY <1>2, <3>1, StorageAssumption
    <3>3. DOMAIN s.bc.queue = 1 .. Len(s.bc.queue) /\ n = s.bc.queue[1]
      BY <3>1, <3>2
    <3> QED
      BY <3>1, <3>2, <3>3 DEF ToSet
  <2> DEFINE d == IF e.dirty THEN [s.disk EXCEPT ![e.num] = e.val] ELSE s.disk
             c == Drop(s.bc, n)
  <2>2. t = [disk |-> d, bc |-> c, ic |-> s.ic]
    <3>1. s = [disk |-> s.disk, bc |-> s.bc, ic |-> s.ic]
      BY DEF StorageOK
    <3>2. t = [s EXCEPT !.disk = d, !.bc = c]
      BY <1>2 DEF EvictBlock
    <3> HIDE DEF t, d, c
    <3> QED
      BY <3>1, <3>2
  <2>3. /\ e.num \in Block /\ e.val \in [Slot -> Cell] /\ e.dirty \in BOOLEAN
        /\ e.num \in SoundBlock => s.bc.hash[e.num] = n
        /\ n # NULL
    BY <2>1, BlockEntry, Zenon
  <2>4. d \in DiskType
    BY <2>3, Zenon DEF StorageOK, DiskType
  <2>5. \A b \in Block : d[b] = IF e.dirty /\ b = e.num THEN e.val ELSE s.disk[b]
    BY <2>3 DEF StorageOK, DiskType
  <2>6. /\ WellFormed(c, Block, [Slot -> Cell], SoundBlock)
        /\ c.hash = [s.bc.hash EXCEPT ![e.num] = NULL]
        /\ ToSet(c.queue) = ToSet(s.bc.queue) \ {n}
        /\ \A m \in ToSet(s.bc.queue) \ {n} : c.info[m] = s.bc.info[m]
    <3>1. WellFormed(s.bc, Block, [Slot -> Cell], SoundBlock)
      BY DEF StorageOK
    <3> QED
      BY <2>1, <3>1, DropWellFormed, Zenon
  <2>7. \A b \in Block : c.hash[b] = IF b = e.num THEN NULL ELSE s.bc.hash[b]
    BY <2>3, <2>6, WellFormedParts DEF StorageOK
  <2> HIDE DEF d, c, t
  <2>8. \A b \in SoundBlock : b \in Block
    BY DEF SoundBlock
  <2>9. ASSUME NEW b \in SoundBlock, b # e.num
        PROVE  /\ t.bc.hash[b] = s.bc.hash[b]
               /\ t.disk[b] = s.disk[b]
               /\ t.bc.hash[b] # NULL => t.bc.info[t.bc.hash[b]] = s.bc.info[s.bc.hash[b]]
    <3>1. t.bc.hash[b] = s.bc.hash[b] /\ t.disk[b] = s.disk[b]
      BY <2>2, <2>5, <2>7, <2>8, <2>9
    <3>2. ASSUME t.bc.hash[b] # NULL
          PROVE  s.bc.hash[b] \in ToSet(s.bc.queue) \ {n}
      BY <3>1, <3>2, <2>8, <2>9, BlockHash
    <3> QED
      BY <3>1, <3>2, <2>2, <2>6
  <2>10. ASSUME NEW b \in SoundBlock, b = e.num
         PROVE  /\ t.bc.hash[b] = NULL
                /\ s.bc.hash[b] = n
                /\ t.disk[b] = e.val
    <3>1. t.bc.hash[b] = NULL /\ s.bc.hash[b] = n
      BY <2>2, <2>3, <2>7, <2>8, <2>10
    <3>2. ~ e.dirty => e.val = s.disk[b]
      BY <3>1, <2>3, Zenon DEF StorageOK, CleanBlocks
    <3> QED
      BY <3>1, <3>2, <2>2, <2>5, <2>8, <2>10, Zenon
  <2>11. \A b \in SoundBlock : BlockData(t, b) = BlockData(s, b)
    BY <2>3, <2>9, <2>10, Zenon DEF BlockData
  <2>12. SectorsFollow(s, t)
    BY <2>3, <2>9, <2>10 DEF SectorsFollow, BlockData
  <2>13. CleanBlocks(t)
    BY <2>9, <2>10 DEF CleanBlocks, StorageOK
  <2>14. StorageOK(t)
    BY <2>2, <2>4, <2>6, <2>13 DEF StorageOK
  <2>15. /\ t.ic = s.ic
         /\ ToSet(t.bc.queue) \subseteq ToSet(s.bc.queue)
         /\ \A b \in Block : t.bc.hash[b] = NULL \/ t.bc.hash[b] = s.bc.hash[b]
    BY <2>2, <2>6, <2>7
  <2> QED
    BY <2>11, <2>12, <2>14, <2>15 DEF t
<1> QED
  BY <1>1, <1>2

\* get_block returns an entry of the block, and no block changes.
LEMMA GetBlockKeeps ==
  ASSUME NEW s, StorageOK(s), NEW b \in Block, NEW bad
  PROVE  LET t == GetBlock(s, b, bad)
         IN  /\ StorageOK(t)
             /\ t.ic = s.ic
             /\ \A x \in SoundBlock : BlockData(t, x) = BlockData(s, x)
             /\ SectorsFollow(s, t)
             /\ t.bc.hash[b] # NULL
<1> DEFINE t == GetBlock(s, b, bad)
<1>1. CASE s.bc.hash[b] # NULL
  <2> DEFINE c == Touch(s.bc, s.bc.hash[b])
  <2>1. t = [disk |-> s.disk, bc |-> c, ic |-> s.ic]
    <3>1. s = [disk |-> s.disk, bc |-> s.bc, ic |-> s.ic]
      BY DEF StorageOK
    <3>2. t = [s EXCEPT !.bc = c]
      BY <1>1 DEF GetBlock, SetBlockLru
    <3> HIDE DEF t, c
    <3> QED
      BY <3>1, <3>2
  <2>2. /\ WellFormed(c, Block, [Slot -> Cell], SoundBlock)
        /\ c.hash = s.bc.hash /\ c.info = s.bc.info
    <3>1. s.bc.hash[b] \in ToSet(s.bc.queue)
      BY <1>1, BlockHash
    <3> QED
      BY <3>1, TouchWellFormed DEF StorageOK
  <2> HIDE DEF t, c
  <2>3. \A x \in SoundBlock : BlockData(t, x) = BlockData(s, x)
    BY <2>1, <2>2 DEF BlockData
  <2>4. CleanBlocks(t)
    BY <2>1, <2>2 DEF CleanBlocks, StorageOK
  <2>5. StorageOK(t)
    BY <2>1, <2>2, <2>4 DEF StorageOK
  <2>6. SectorsFollow(s, t)
    BY <2>1 DEF SectorsFollow
  <2>7. t.ic = s.ic /\ t.bc.hash[b] # NULL
    BY <1>1, <2>1, <2>2
  <2> QED
    BY <2>3, <2>5, <2>6, <2>7 DEF t
<1>2. CASE s.bc.hash[b] = NULL
  <2> DEFINE n == Malloc(s.bc)
             e == [num |-> b, dirty |-> FALSE, val |-> s.disk[b]]
             u == EvictBlock(s, bad)
             c == Insert(u.bc, n, e)
  <2>1. /\ StorageOK(u)
        /\ u.ic = s.ic
        /\ \A x \in SoundBlock : BlockData(u, x) = BlockData(s, x)
        /\ SectorsFollow(s, u)
        /\ ToSet(u.bc.queue) \subseteq ToSet(s.bc.queue)
        /\ \A x \in Block : u.bc.hash[x] = NULL \/ u.bc.hash[x] = s.bc.hash[x]
    BY EvictBlockKeeps
  <2>2. n \in Nat /\ n \notin ToSet(s.bc.queue)
    <3>1. s.bc.queue \in Seq(Nat)
      BY WellFormedParts DEF StorageOK
    <3> QED
      BY <3>1, MallocFresh
  <2> HIDE DEF n, u
  <2>3. n \notin ToSet(u.bc.queue) /\ u.bc.hash[b] = NULL
    BY <1>2, <2>1, <2>2
  <2>4. e \in Entry(Block, [Slot -> Cell]) /\ e.num = b
    BY BlockHash DEF Entry
  <2>5. t = [disk |-> u.disk, bc |-> c, ic |-> u.ic]
    <3>1. u = [disk |-> u.disk, bc |-> u.bc, ic |-> u.ic]
      BY <2>1 DEF StorageOK
    <3>2. t = [u EXCEPT !.bc = c]
      BY <1>2 DEF GetBlock, SetBlockLru, n, u
    <3> HIDE DEF t, c
    <3> QED
      BY <3>1, <3>2
  <2>6. /\ WellFormed(c, Block, [Slot -> Cell], SoundBlock)
        /\ c.hash = [u.bc.hash EXCEPT ![e.num] = n]
        /\ c.info[n] = e
        /\ \A m \in ToSet(u.bc.queue) : c.info[m] = u.bc.info[m]
    <3>1. WellFormed(u.bc, Block, [Slot -> Cell], SoundBlock)
      BY <2>1 DEF StorageOK
    <3>2. u.bc.hash[e.num] = NULL
      BY <2>3, <2>4
    <3> HIDE DEF e
    <3> QED
      BY <3>1, <3>2, <2>2, <2>3, <2>4, InsertWellFormed
  <2>7. \A x \in Block : c.hash[x] = IF x = b THEN n ELSE u.bc.hash[x]
    <3>1. WellFormed(u.bc, Block, [Slot -> Cell], SoundBlock)
      BY <2>1 DEF StorageOK
    <3>2. u.bc.hash \in [Block -> Nat \union {NULL}]
      BY <3>1, WellFormedParts
    <3> QED
      BY <3>2, <2>4, <2>6
  <2>8. e.val = s.disk[b] /\ e.dirty = FALSE
    OBVIOUS
  <2>9. n # NULL
    BY <2>2 DEF NULL
  <2> HIDE DEF c, t, e
  <2>10. \A x \in SoundBlock : x \in Block
    BY DEF SoundBlock
  <2>11. ASSUME NEW x \in SoundBlock, x # b
         PROVE  /\ t.bc.hash[x] = u.bc.hash[x]
                /\ t.disk[x] = u.disk[x]
                /\ t.bc.hash[x] # NULL => t.bc.info[t.bc.hash[x]] = u.bc.info[u.bc.hash[x]]
    <3>1. t.bc.hash[x] = u.bc.hash[x] /\ t.disk[x] = u.disk[x]
      BY <2>5, <2>7, <2>10, <2>11
    <3>2. ASSUME t.bc.hash[x] # NULL
          PROVE  u.bc.hash[x] \in ToSet(u.bc.queue)
      BY <3>1, <3>2, <2>1, <2>10, BlockHash
    <3> QED
      BY <3>1, <3>2, <2>5, <2>6
  <2>12. b \in SoundBlock => u.disk[b] = s.disk[b]
    BY <1>2, <2>1 DEF SectorsFollow, BlockData
  <2>13. /\ t.bc.hash[b] = n /\ t.bc.info[n] = e /\ t.disk = u.disk
    BY <2>5, <2>6, <2>7
  <2>14. \A x \in SoundBlock : BlockData(t, x) = BlockData(s, x)
    <3> SUFFICES ASSUME NEW x \in SoundBlock
                 PROVE  BlockData(t, x) = BlockData(s, x)
      OBVIOUS
    <3>1. CASE x = b
      BY <3>1, <1>2, <2>8, <2>9, <2>13 DEF BlockData
    <3>2. CASE x # b
      <4>1. BlockData(t, x) = BlockData(u, x)
        BY <3>2, <2>11 DEF BlockData
      <4> QED
        BY <4>1, <2>1
    <3> QED
      BY <3>1, <3>2
  <2>15. CleanBlocks(t)
    <3> SUFFICES ASSUME NEW x \in SoundBlock, t.bc.hash[x] # NULL,
                        ~ t.bc.info[t.bc.hash[x]].dirty
                 PROVE  t.bc.info[t.bc.hash[x]].val = t.disk[x]
      BY DEF CleanBlocks
    <3>1. CASE x = b
      BY <3>1, <2>8, <2>12, <2>13
    <3>2. CASE x # b
      BY <3>2, <2>1, <2>11 DEF StorageOK, CleanBlocks
    <3> QED
      BY <3>1, <3>2
  <2>16. StorageOK(t)
    <3>1. u.disk \in DiskType /\ WellFormed(u.ic, Inode, Cell, Inode)
      BY <2>1 DEF StorageOK
    <3> QED
      BY <3>1, <2>5, <2>6, <2>15 DEF StorageOK
  <2>17. SectorsFollow(s, t)
    BY <2>1, <2>13 DEF SectorsFollow
  <2>18. t.ic = s.ic /\ t.bc.hash[b] # NULL
    BY <2>1, <2>5, <2>9, <2>13
  <2> QED
    BY <2>14, <2>16, <2>17, <2>18 DEF t
<1> QED
  BY <1>1, <1>2

\* A store into a block changes that block, and no sector but by eviction.
LEMMA PutCellKeeps ==
  ASSUME NEW s, StorageOK(s), NEW b \in Block, NEW o \in Slot, NEW v \in Cell, NEW bad
  PROVE  LET t == PutCell(s, b, o, v, bad)
         IN  /\ StorageOK(t)
             /\ t.ic = s.ic
             /\ \A x \in SoundBlock : BlockData(t, x) =
                  IF x = b THEN [BlockData(s, x) EXCEPT ![o] = v] ELSE BlockData(s, x)
             /\ SectorsFollow(s, t)
<1> DEFINE u == GetBlock(s, b, bad)
           n == u.bc.hash[b]
           e == [u.bc.info[n] EXCEPT !.val[o] = v, !.dirty = TRUE]
           c == [u.bc EXCEPT !.info[n] = e]
           t == PutCell(s, b, o, v, bad)
<1>1. /\ StorageOK(u)
      /\ u.ic = s.ic
      /\ \A x \in SoundBlock : BlockData(u, x) = BlockData(s, x)
      /\ SectorsFollow(s, u)
      /\ u.bc.hash[b] # NULL
  BY GetBlockKeeps
<1> HIDE DEF u
<1>2. n \in ToSet(u.bc.queue) /\ u.bc.info[n].num = b
  BY <1>1, BlockHash
<1>3. u.bc.info[n] \in Entry(Block, [Slot -> Cell])
  BY <1>1, <1>2, BlockEntry
<1>4. /\ e \in Entry(Block, [Slot -> Cell])
      /\ e.num = b
      /\ e.dirty = TRUE
      /\ e.val = [u.bc.info[n].val EXCEPT ![o] = v]
  BY <1>2, <1>3 DEF Entry
<1>5. t = [u EXCEPT !.bc.info[n] = e]
  BY DEF PutCell, u
<1> HIDE DEF e
<1>6. u.bc \in [hash : {u.bc.hash}, queue : {u.bc.queue}, info : {u.bc.info}]
  BY <1>1 DEF StorageOK, WellFormed, CacheType
<1>7. c = [hash |-> u.bc.hash, queue |-> u.bc.queue, info |-> [u.bc.info EXCEPT ![n] = e]]
  BY <1>6
<1>8. t = [disk |-> u.disk, bc |-> c, ic |-> u.ic]
  <2>1. u = [disk |-> u.disk, bc |-> u.bc, ic |-> u.ic]
    BY <1>1 DEF StorageOK
  <2>2. t = [u EXCEPT !.bc = c]
    BY <1>5
  <2> HIDE DEF t, c
  <2> QED
    BY <2>1, <2>2
<1>9. WellFormed(c, Block, [Slot -> Cell], SoundBlock)
  <2>1. WellFormed(u.bc, Block, [Slot -> Cell], SoundBlock)
    BY <1>1 DEF StorageOK
  <2> QED
    BY <2>1, <1>2, <1>4, UpdateWellFormed
<1>10. u.bc.info \in [ToSet(u.bc.queue) -> Entry(Block, [Slot -> Cell])]
  BY <1>1, WellFormedParts DEF StorageOK
<1>11. /\ c.hash = u.bc.hash
       /\ c.info[n] = e
       /\ \A m \in ToSet(u.bc.queue) \ {n} : c.info[m] = u.bc.info[m]
  BY <1>2, <1>7, <1>10
<1>12. \A x \in SoundBlock : x \in Block
  BY DEF SoundBlock
<1>13. /\ t.disk = u.disk /\ t.bc = c /\ t.ic = u.ic
  BY <1>8
<1> HIDE DEF n, c, t
<1>14. ASSUME NEW x \in SoundBlock, x # b, u.bc.hash[x] # NULL
       PROVE  t.bc.info[t.bc.hash[x]] = u.bc.info[u.bc.hash[x]]
  <2>1. u.bc.hash[x] \in ToSet(u.bc.queue) /\ u.bc.info[u.bc.hash[x]].num = x
    BY <1>1, <1>12, <1>14, BlockHash
  <2> QED
    BY <2>1, <1>2, <1>11, <1>13, <1>14
<1>15. \A x \in SoundBlock : BlockData(t, x) =
         IF x = b THEN [BlockData(s, x) EXCEPT ![o] = v] ELSE BlockData(s, x)
  <2> SUFFICES ASSUME NEW x \in SoundBlock
               PROVE  BlockData(t, x) =
                        IF x = b THEN [BlockData(s, x) EXCEPT ![o] = v] ELSE BlockData(s, x)
    OBVIOUS
  <2>1. CASE x = b
    <3>1. BlockData(t, x) = e.val
      BY <2>1, <1>1, <1>11, <1>13 DEF BlockData, n
    <3>2. BlockData(u, x) = u.bc.info[n].val
      BY <2>1, <1>1 DEF BlockData, n
    <3> QED
      BY <2>1, <3>1, <3>2, <1>1, <1>4
  <2>2. CASE x # b
    <3>1. BlockData(t, x) = BlockData(u, x)
      BY <2>2, <1>11, <1>13, <1>14 DEF BlockData
    <3> QED
      BY <2>2, <3>1, <1>1
  <2> QED
    BY <2>1, <2>2
<1>16. CleanBlocks(t)
  <2> SUFFICES ASSUME NEW x \in SoundBlock, t.bc.hash[x] # NULL,
                      ~ t.bc.info[t.bc.hash[x]].dirty
               PROVE  t.bc.info[t.bc.hash[x]].val = t.disk[x]
    BY DEF CleanBlocks
  <2>1. x # b
    BY <1>4, <1>11, <1>13 DEF n
  <2> QED
    BY <2>1, <1>1, <1>11, <1>13, <1>14 DEF StorageOK, CleanBlocks
<1>17. StorageOK(t)
  <2>1. u.disk \in DiskType /\ WellFormed(u.ic, Inode, Cell, Inode)
    BY <1>1 DEF StorageOK
  <2> QED
    BY <2>1, <1>8, <1>9, <1>13, <1>16 DEF StorageOK
<1>18. SectorsFollow(s, t)
  BY <1>1, <1>13 DEF SectorsFollow
<1> QED
  BY <1>1, <1>13, <1>15, <1>17, <1>18 DEF t

-----------------------------------------------------------------------------
(* Inodes.                                                                 *)

\* INODE_TO_BLOCK and INODE_IN_BLOCK_ADDR give a slot of a block.
LEMMA InodeAddress ==
  ASSUME NEW i \in Inode
  PROVE  /\ INODE_TO_BLOCK(i) \in Block
         /\ INODE_IN_BLOCK_ADDR(i) \in Slot
         /\ i = INODES_PER_BLOCK * (INODE_TO_BLOCK(i) - 1) + INODE_IN_BLOCK_ADDR(i)
         /\ i \in SoundInode <=> INODE_TO_BLOCK(i) \in SoundBlock
         /\ INODE_TO_BLOCK(i) \notin DataBlock
<1> DEFINE p == INODES_PER_BLOCK
           k == NUM_BLOCKS_FOR_INODES
<1>1. p \in Nat /\ p > 0 /\ NUM_INODES \in Nat /\ NUM_INODES > 0 /\ NUM_BLOCKS \in Nat
      /\ i \in Nat /\ i <= NUM_INODES - 1
  BY StorageAssumption DEF Inode
<1>2. i \div p \in Int /\ i % p \in 0 .. p - 1 /\ i = p * (i \div p) + (i % p)
  BY <1>1
<1>3. i \div p >= 0
  BY <1>1
<1>4. k \in Int /\ NUM_INODES + p - 1 < p * k + p
  BY <1>1 DEF NUM_BLOCKS_FOR_INODES
<1>5. i \div p < k
  BY <1>1, <1>2, <1>3, <1>4
<1>6. INODE_TO_BLOCK(i) \in Block
  BY <1>1, <1>2, <1>3, <1>4, <1>5, StorageAssumption DEF INODE_TO_BLOCK, Block
<1>7. INODE_IN_BLOCK_ADDR(i) \in Slot
  BY <1>2 DEF INODE_IN_BLOCK_ADDR, Slot
<1>8. i = p * (INODE_TO_BLOCK(i) - 1) + INODE_IN_BLOCK_ADDR(i)
  BY <1>1, <1>2 DEF INODE_IN_BLOCK_ADDR, INODE_TO_BLOCK
<1>9. i \in SoundInode <=> INODE_TO_BLOCK(i) \in SoundBlock
  BY <1>6 DEF SoundInode, SoundBlock
<1>10. INODE_TO_BLOCK(i) \notin DataBlock
  BY <1>1, <1>2, <1>4, <1>5 DEF INODE_TO_BLOCK, DataBlock
<1> QED
  BY <1>6, <1>7, <1>8, <1>9, <1>10

\* Two inodes never share a slot of a block.
LEMMA InodeAddressInjective ==
  ASSUME NEW i \in Inode, NEW j \in Inode,
         INODE_TO_BLOCK(i) = INODE_TO_BLOCK(j),
         INODE_IN_BLOCK_ADDR(i) = INODE_IN_BLOCK_ADDR(j)
  PROVE  i = j
BY InodeAddress, Zenon

\* The clean inodes among J that are cached hold what their blocks hold.
CleanInodes(s, J) ==
  \A i \in J : s.ic.hash[i] # NULL =>
    (~ s.ic.info[s.ic.hash[i]].dirty => s.ic.info[s.ic.hash[i]].val = InodeInBlock(s, i))

\* Clean inodes of a smaller set.
LEMMA CleanInodesSubset ==
  ASSUME NEW s, NEW J, NEW L \in SUBSET J, CleanInodes(s, J)
  PROVE  CleanInodes(s, L)
BY DEF CleanInodes

\* What an entry of the inode cache is.
LEMMA InodeEntry ==
  ASSUME NEW s, StorageOK(s), NEW n \in ToSet(s.ic.queue)
  PROVE  /\ n \in Nat /\ n # NULL
         /\ s.ic.info[n] \in Entry(Inode, Cell)
         /\ s.ic.info[n].num \in Inode
         /\ s.ic.info[n].dirty \in BOOLEAN
         /\ s.ic.info[n].val \in Cell
         /\ s.ic.hash[s.ic.info[n].num] = n
<1>1. WellFormed(s.ic, Inode, Cell, Inode)
  BY DEF StorageOK
<1>2. n \in Nat /\ n # NULL
  <2>1. ToSet(s.ic.queue) \subseteq Nat
    BY <1>1, WellFormedParts
  <2>2. n \in Nat
    BY <2>1
  <2> QED
    BY <2>2 DEF NULL
<1>3. s.ic.info[n] \in Entry(Inode, Cell)
  BY <1>1, WellFormedParts
<1>4. s.ic.info[n].num \in Inode => s.ic.hash[s.ic.info[n].num] = n
  BY <1>1, WellFormedParts
<1> QED
  BY <1>2, <1>3, <1>4 DEF Entry

\* What the inode hash table and an inode for a reader are.
LEMMA InodeHash ==
  ASSUME NEW s, StorageOK(s), NEW i \in Inode
  PROVE  /\ InodeInBlock(s, i) \in Cell
         /\ s.ic.hash[i] # NULL =>
              s.ic.hash[i] \in ToSet(s.ic.queue) /\ s.ic.info[s.ic.hash[i]].num = i
<1>1. InodeInBlock(s, i) \in Cell
  BY InodeAddress, BlockHash DEF InodeInBlock
<1>2. s.ic.hash[i] # NULL =>
        s.ic.hash[i] \in ToSet(s.ic.queue) /\ s.ic.info[s.ic.hash[i]].num = i
  BY WellFormedParts DEF StorageOK
<1> QED
  BY <1>1, <1>2

\* Copying an inode into its block changes no other inode.
LEMMA StoreInodeKeeps ==
  ASSUME NEW s, StorageOK(s), NEW i \in Inode, NEW v \in Cell, NEW bad
  PROVE  LET t == StoreInode(s, i, v, bad)
         IN  /\ StorageOK(t)
             /\ t.ic = s.ic
             /\ \A j \in SoundInode : InodeInBlock(t, j) = IF j = i THEN v ELSE InodeInBlock(s, j)
<1> DEFINE b == INODE_TO_BLOCK(i)
           o == INODE_IN_BLOCK_ADDR(i)
           t == StoreInode(s, i, v, bad)
<1>1. b \in Block /\ o \in Slot
  BY InodeAddress
<1>2. /\ StorageOK(t)
      /\ t.ic = s.ic
      /\ \A x \in SoundBlock : BlockData(t, x) =
           IF x = b THEN [BlockData(s, x) EXCEPT ![o] = v] ELSE BlockData(s, x)
  BY <1>1, PutCellKeeps DEF StoreInode
<1> HIDE DEF t
<1>3. ASSUME NEW j \in SoundInode
      PROVE  InodeInBlock(t, j) = IF j = i THEN v ELSE InodeInBlock(s, j)
  <2> DEFINE x == INODE_TO_BLOCK(j)
             y == INODE_IN_BLOCK_ADDR(j)
  <2>1. j \in Inode /\ x \in SoundBlock /\ x \in Block /\ y \in Slot
    BY InodeAddress DEF SoundInode
  <2>2. BlockData(s, x) \in [Slot -> Cell]
    BY <2>1, BlockHash
  <2>3. InodeInBlock(t, j) = BlockData(t, x)[y] /\ InodeInBlock(s, j) = BlockData(s, x)[y]
    BY DEF InodeInBlock
  <2>4. j # i => x # b \/ y # o
    BY <2>1, InodeAddressInjective
  <2>5. j = i => x = b /\ y = o
    OBVIOUS
  <2> HIDE DEF x, y, b, o
  <2>6. CASE x = b
    BY <2>6, <1>2, <2>1, <2>2, <2>3, <2>4, <2>5
  <2>7. CASE x # b
    BY <2>7, <1>2, <2>1, <2>3, <2>5
  <2> QED
    BY <2>6, <2>7
<1> QED
  BY <1>2, <1>3 DEF t

\* Eviction copies the inode back before it drops the entry.
LEMMA EvictInodeKeeps ==
  ASSUME NEW s, StorageOK(s), NEW bad
  PROVE  LET t == EvictInode(s, bad)
         IN  /\ StorageOK(t)
             /\ \A j \in SoundInode : InodeVal(t, j) = InodeVal(s, j)
             /\ \A j \in SoundInode : s.ic.hash[j] = NULL => InodeInBlock(t, j) = InodeInBlock(s, j)
             /\ \A J \in SUBSET SoundInode : CleanInodes(s, J) => CleanInodes(t, J)
             /\ ToSet(t.ic.queue) \subseteq ToSet(s.ic.queue)
             /\ \A j \in Inode : t.ic.hash[j] = NULL \/ t.ic.hash[j] = s.ic.hash[j]
<1> DEFINE t == EvictInode(s, bad)
           n == Head(s.ic.queue)
           e == s.ic.info[n]
<1>1. CASE Len(s.ic.queue) < INODE_CACHESIZE
  <2>1. t = s
    BY <1>1 DEF EvictInode
  <2> QED
    BY <2>1
<1>2. CASE ~ (Len(s.ic.queue) < INODE_CACHESIZE)
  <2> DEFINE u == StoreInode(s, e.num, e.val, bad)
             c == Drop(s.ic, n)
  <2>1. n \in ToSet(s.ic.queue)
    <3>1. s.ic.queue \in Seq(Nat) /\ Len(s.ic.queue) \in Nat
      BY WellFormedParts DEF StorageOK
    <3>2. Len(s.ic.queue) >= 1
      BY <1>2, <3>1, StorageAssumption
    <3>3. DOMAIN s.ic.queue = 1 .. Len(s.ic.queue) /\ n = s.ic.queue[1]
      BY <3>1, <3>2
    <3> QED
      BY <3>1, <3>2, <3>3 DEF ToSet
  <2>2. /\ e.num \in Inode /\ e.val \in Cell
        /\ s.ic.hash[e.num] = n /\ n # NULL
    BY <2>1, InodeEntry
  <2>3. /\ StorageOK(u)
        /\ u.ic = s.ic
        /\ \A j \in SoundInode : InodeInBlock(u, j) = IF j = e.num THEN e.val ELSE InodeInBlock(s, j)
    <3> DEFINE x == e.num
               v == e.val
    <3>1. x \in Inode /\ v \in Cell /\ u = StoreInode(s, x, v, bad)
      BY <2>2
    <3> HIDE DEF x, v, u
    <3>2. /\ StorageOK(u)
          /\ u.ic = s.ic
          /\ \A j \in SoundInode : InodeInBlock(u, j) = IF j = x THEN v ELSE InodeInBlock(s, j)
      BY <3>1, StoreInodeKeeps
    <3> QED
      BY <3>2 DEF x, v
  <2>4. /\ WellFormed(c, Inode, Cell, Inode)
        /\ c.hash = [s.ic.hash EXCEPT ![e.num] = NULL]
        /\ ToSet(c.queue) = ToSet(s.ic.queue) \ {n}
        /\ \A m \in ToSet(s.ic.queue) \ {n} : c.info[m] = s.ic.info[m]
    <3>1. WellFormed(s.ic, Inode, Cell, Inode)
      BY DEF StorageOK
    <3> QED
      BY <2>1, <3>1, DropWellFormed, Zenon
  <2>5. t = [disk |-> u.disk, bc |-> u.bc, ic |-> c]
    <3>1. u = [disk |-> u.disk, bc |-> u.bc, ic |-> u.ic]
      BY <2>3, Zenon DEF StorageOK
    <3>2. t = [u EXCEPT !.ic = c]
      BY <1>2, <2>3 DEF EvictInode
    <3> HIDE DEF t, u, c
    <3> QED
      BY <3>1, <3>2
  <2>6. \A j \in Inode : c.hash[j] = IF j = e.num THEN NULL ELSE s.ic.hash[j]
    <3>1. s.ic.hash \in [Inode -> Nat \union {NULL}]
      BY WellFormedParts DEF StorageOK
    <3> QED
      BY <3>1, <2>2, <2>4
  <2> HIDE DEF t, u, c
  <2>7. \A j \in SoundInode : j \in Inode /\ InodeInBlock(t, j) = InodeInBlock(u, j)
    BY <2>5 DEF SoundInode, InodeInBlock, BlockData
  <2>8. StorageOK(t)
    <3>1. u.disk \in DiskType /\ WellFormed(u.bc, Block, [Slot -> Cell], SoundBlock)
      BY <2>3 DEF StorageOK
    <3>2. CleanBlocks(t)
      BY <2>3, <2>5 DEF StorageOK, CleanBlocks
    <3> QED
      BY <3>1, <3>2, <2>4, <2>5 DEF StorageOK
  <2>9. ASSUME NEW j \in SoundInode, j # e.num
        PROVE  /\ t.ic.hash[j] = s.ic.hash[j]
               /\ InodeInBlock(t, j) = InodeInBlock(s, j)
               /\ t.ic.hash[j] # NULL => t.ic.info[t.ic.hash[j]] = s.ic.info[s.ic.hash[j]]
    <3>1. t.ic.hash[j] = s.ic.hash[j] /\ InodeInBlock(t, j) = InodeInBlock(s, j)
      BY <2>3, <2>5, <2>6, <2>7, <2>9
    <3>2. ASSUME t.ic.hash[j] # NULL
          PROVE  s.ic.hash[j] \in ToSet(s.ic.queue) \ {n}
      BY <3>1, <3>2, <2>7, <2>9, InodeHash
    <3> QED
      BY <3>1, <3>2, <2>4, <2>5
  <2>10. ASSUME NEW j \in SoundInode, j = e.num
         PROVE  /\ t.ic.hash[j] = NULL
                /\ InodeInBlock(t, j) = e.val
                /\ s.ic.hash[j] = n
    BY <2>2, <2>3, <2>5, <2>6, <2>7, <2>10, Zenon
  <2>11. \A j \in SoundInode : InodeVal(t, j) = InodeVal(s, j)
    BY <2>2, <2>9, <2>10, Zenon DEF InodeVal
  <2>12. \A j \in SoundInode : s.ic.hash[j] = NULL => InodeInBlock(t, j) = InodeInBlock(s, j)
    BY <2>2, <2>9, <2>10, Zenon
  <2>13. ASSUME NEW J \in SUBSET SoundInode, CleanInodes(s, J)
         PROVE  CleanInodes(t, J)
    BY <2>9, <2>10, <2>13 DEF CleanInodes
  <2>14. /\ ToSet(t.ic.queue) \subseteq ToSet(s.ic.queue)
         /\ \A j \in Inode : t.ic.hash[j] = NULL \/ t.ic.hash[j] = s.ic.hash[j]
    BY <2>4, <2>5, <2>6
  <2> QED
    BY <2>8, <2>11, <2>12, <2>13, <2>14 DEF t
<1> QED
  BY <1>1, <1>2

\* A new entry becomes the inode; every other inode stays as it is.
LEMMA SetInodeLruKeeps ==
  ASSUME NEW s, StorageOK(s), NEW i \in Inode, s.ic.hash[i] = NULL, NEW v \in Cell, NEW bad
  PROVE  LET t == SetInodeLru(s, i, v, bad)
         IN  /\ StorageOK(t)
             /\ t.ic.hash[i] # NULL
             /\ \A j \in SoundInode : InodeVal(t, j) = IF j = i THEN v ELSE InodeVal(s, j)
             /\ \A J \in SUBSET SoundInode :
                  CleanInodes(s, J) /\ (i \in J => v = InodeInBlock(s, i)) => CleanInodes(t, J)
             /\ \A j \in Inode : j # i /\ t.ic.hash[j] # NULL => s.ic.hash[j] # NULL
<1> DEFINE n == Malloc(s.ic)
           e == [num |-> i, dirty |-> FALSE, val |-> v]
           u == EvictInode(s, bad)
           c == Insert(u.ic, n, e)
           t == SetInodeLru(s, i, v, bad)
<1>1. /\ StorageOK(u)
      /\ \A j \in SoundInode : InodeVal(u, j) = InodeVal(s, j)
      /\ \A j \in SoundInode : s.ic.hash[j] = NULL => InodeInBlock(u, j) = InodeInBlock(s, j)
      /\ \A J \in SUBSET SoundInode : CleanInodes(s, J) => CleanInodes(u, J)
      /\ ToSet(u.ic.queue) \subseteq ToSet(s.ic.queue)
      /\ \A j \in Inode : u.ic.hash[j] = NULL \/ u.ic.hash[j] = s.ic.hash[j]
  BY EvictInodeKeeps
<1>2. n \in Nat /\ n \notin ToSet(s.ic.queue)
  <2>1. s.ic.queue \in Seq(Nat)
    BY WellFormedParts DEF StorageOK
  <2> QED
    BY <2>1, MallocFresh
<1> HIDE DEF n, u
<1>3. n \notin ToSet(u.ic.queue) /\ u.ic.hash[i] = NULL /\ n # NULL
  BY <1>1, <1>2 DEF NULL
<1>4. e \in Entry(Inode, Cell) /\ e.num = i /\ e.val = v
  BY DEF Entry
<1>5. t = [disk |-> u.disk, bc |-> u.bc, ic |-> c]
  <2>1. u = [disk |-> u.disk, bc |-> u.bc, ic |-> u.ic]
    BY <1>1 DEF StorageOK
  <2>2. t = [u EXCEPT !.ic = c]
    BY DEF SetInodeLru, n, u
  <2> HIDE DEF t, c
  <2> QED
    BY <2>1, <2>2
<1> HIDE DEF e
<1>6. /\ WellFormed(c, Inode, Cell, Inode)
      /\ c.hash = [u.ic.hash EXCEPT ![e.num] = n]
      /\ c.info[n] = e
      /\ \A m \in ToSet(u.ic.queue) : c.info[m] = u.ic.info[m]
  <2>1. WellFormed(u.ic, Inode, Cell, Inode) /\ u.ic.hash[e.num] = NULL
    BY <1>1, <1>3, <1>4 DEF StorageOK
  <2> QED
    BY <2>1, <1>2, <1>3, <1>4, InsertWellFormed
<1>7. \A j \in Inode : c.hash[j] = IF j = i THEN n ELSE u.ic.hash[j]
  <2>1. WellFormed(u.ic, Inode, Cell, Inode)
    BY <1>1 DEF StorageOK
  <2>2. u.ic.hash \in [Inode -> Nat \union {NULL}]
    BY <2>1, WellFormedParts
  <2> QED
    BY <2>2, <1>4, <1>6
<1> HIDE DEF c, t
<1>8. StorageOK(t)
  <2>1. u.disk \in DiskType /\ WellFormed(u.bc, Block, [Slot -> Cell], SoundBlock)
    BY <1>1 DEF StorageOK
  <2>2. CleanBlocks(t)
    BY <1>1, <1>5 DEF StorageOK, CleanBlocks
  <2> QED
    BY <2>1, <2>2, <1>5, <1>6 DEF StorageOK
<1>9. \A j \in SoundInode : j \in Inode /\ InodeInBlock(t, j) = InodeInBlock(u, j)
  BY <1>5 DEF SoundInode, InodeInBlock, BlockData
<1>10. ASSUME NEW j \in Inode, j # i
       PROVE  /\ t.ic.hash[j] = u.ic.hash[j]
              /\ t.ic.hash[j] # NULL => t.ic.info[t.ic.hash[j]] = u.ic.info[u.ic.hash[j]]
  <2>1. t.ic.hash[j] = u.ic.hash[j]
    BY <1>5, <1>7, <1>10
  <2>2. u.ic.hash[j] # NULL => u.ic.hash[j] \in ToSet(u.ic.queue)
    BY <1>1, InodeHash
  <2> QED
    BY <2>1, <2>2, <1>5, <1>6
<1>11. t.ic.hash[i] = n /\ t.ic.info[n] = e
  BY <1>5, <1>6, <1>7
<1>12. \A j \in SoundInode : InodeVal(t, j) = IF j = i THEN v ELSE InodeVal(s, j)
  <2> SUFFICES ASSUME NEW j \in SoundInode
               PROVE  InodeVal(t, j) = IF j = i THEN v ELSE InodeVal(s, j)
    OBVIOUS
  <2>1. CASE j = i
    BY <2>1, <1>3, <1>4, <1>11 DEF InodeVal
  <2>2. CASE j # i
    <3>1. InodeVal(t, j) = InodeVal(u, j)
      BY <2>2, <1>9, <1>10 DEF InodeVal
    <3> QED
      BY <3>1, <2>2, <1>1
  <2> QED
    BY <2>1, <2>2
<1>13. ASSUME NEW J \in SUBSET SoundInode, CleanInodes(s, J), i \in J => v = InodeInBlock(s, i)
       PROVE  CleanInodes(t, J)
  <2>1. CleanInodes(u, J)
    BY <1>1, <1>13
  <2> SUFFICES ASSUME NEW j \in J, t.ic.hash[j] # NULL, ~ t.ic.info[t.ic.hash[j]].dirty
               PROVE  t.ic.info[t.ic.hash[j]].val = InodeInBlock(t, j)
    BY DEF CleanInodes
  <2>2. CASE j = i
    BY <2>2, <1>1, <1>4, <1>9, <1>11, <1>13
  <2>3. CASE j # i
    BY <2>1, <2>3, <1>9, <1>10 DEF CleanInodes
  <2> QED
    BY <2>2, <2>3
<1>14. \A j \in Inode : j # i /\ t.ic.hash[j] # NULL => s.ic.hash[j] # NULL
  BY <1>1, <1>10
<1> QED
  BY <1>3, <1>8, <1>11, <1>12, <1>13, <1>14 DEF t

\* Reading an inode shows its value and changes no inode.
LEMMA GetUseInodeKeeps ==
  ASSUME NEW s, StorageOK(s), NEW i \in Inode, NEW bad
  PROVE  LET t == GetUseInode(s, i, bad)
         IN  /\ StorageOK(t)
             /\ \A j \in SoundInode : InodeVal(t, j) = InodeVal(s, j)
             /\ \A J \in SUBSET SoundInode : CleanInodes(s, J) => CleanInodes(t, J)
             /\ \A j \in Inode : j # i /\ t.ic.hash[j] # NULL => s.ic.hash[j] # NULL
             /\ i \in SoundInode /\ InodeVal(s, i) = FREE /\ s.ic.hash[i] = NULL
                  => t.ic.hash[i] = NULL
<1> DEFINE t == GetUseInode(s, i, bad)
<1>1. CASE s.ic.hash[i] # NULL
  <2> DEFINE c == Touch(s.ic, s.ic.hash[i])
  <2>1. t = [disk |-> s.disk, bc |-> s.bc, ic |-> c]
    <3>1. s = [disk |-> s.disk, bc |-> s.bc, ic |-> s.ic]
      BY DEF StorageOK
    <3>2. t = [s EXCEPT !.ic = c]
      BY <1>1 DEF GetUseInode
    <3> HIDE DEF t, c
    <3> QED
      BY <3>1, <3>2
  <2>2. WellFormed(c, Inode, Cell, Inode) /\ c.hash = s.ic.hash /\ c.info = s.ic.info
    <3>1. s.ic.hash[i] \in ToSet(s.ic.queue)
      BY <1>1, InodeHash
    <3> QED
      BY <3>1, TouchWellFormed DEF StorageOK
  <2> HIDE DEF t, c
  <2>3. StorageOK(t)
    BY <2>1, <2>2 DEF StorageOK, CleanBlocks
  <2>4. \A j \in Inode : InodeInBlock(t, j) = InodeInBlock(s, j)
    BY <2>1 DEF InodeInBlock, BlockData
  <2>5. \A j \in SoundInode : j \in Inode
    BY DEF SoundInode
  <2>6. \A j \in SoundInode : InodeVal(t, j) = InodeVal(s, j)
    BY <2>1, <2>2, <2>4, <2>5 DEF InodeVal
  <2>7. \A J \in SUBSET SoundInode : CleanInodes(s, J) => CleanInodes(t, J)
    BY <2>1, <2>2, <2>4, <2>5 DEF CleanInodes
  <2>8. t.ic.hash = s.ic.hash
    BY <2>1, <2>2
  <2> QED
    BY <2>3, <2>6, <2>7, <2>8 DEF t
<1>2. CASE s.ic.hash[i] = NULL
  <2> DEFINE u == GetBlock(s, INODE_TO_BLOCK(i), bad)
             v == InodeInBlock(u, i)
  <2>1. /\ StorageOK(u)
        /\ u.ic = s.ic
        /\ \A x \in SoundBlock : BlockData(u, x) = BlockData(s, x)
    BY InodeAddress, GetBlockKeeps
  <2>2. t = IF v = FREE THEN u ELSE SetInodeLru(u, i, v, bad)
    BY <1>2 DEF GetUseInode
  <2> HIDE DEF u, t
  <2>3. v \in Cell /\ u.ic.hash[i] = NULL
    BY <1>2, <2>1, InodeHash
  <2>4. \A j \in SoundInode : j \in Inode /\ InodeInBlock(u, j) = InodeInBlock(s, j)
    BY <2>1, InodeAddress DEF SoundInode, InodeInBlock
  <2>5. \A j \in SoundInode : InodeVal(u, j) = InodeVal(s, j)
    BY <2>1, <2>4 DEF InodeVal
  <2>6. \A J \in SUBSET SoundInode : CleanInodes(s, J) => CleanInodes(u, J)
    BY <2>1, <2>4 DEF CleanInodes
  <2>7. i \in SoundInode => v = InodeVal(u, i) /\ v = InodeVal(s, i)
    BY <1>2, <2>3, <2>5 DEF InodeVal
  <2>8. CASE v = FREE
    <3>1. t = u
      BY <2>2, <2>8
    <3> QED
      BY <1>2, <3>1, <2>1, <2>5, <2>6 DEF t
  <2>9. CASE v # FREE
    <3> HIDE DEF v
    <3>1. t = SetInodeLru(u, i, v, bad)
      BY <2>2, <2>9
    <3>2. /\ StorageOK(t)
          /\ \A j \in SoundInode : InodeVal(t, j) = IF j = i THEN v ELSE InodeVal(u, j)
          /\ \A J \in SUBSET SoundInode :
               CleanInodes(u, J) /\ (i \in J => v = InodeInBlock(u, i)) => CleanInodes(t, J)
          /\ \A j \in Inode : j # i /\ t.ic.hash[j] # NULL => u.ic.hash[j] # NULL
      BY <3>1, <2>1, <2>3, SetInodeLruKeeps
    <3>3. \A j \in SoundInode : InodeVal(t, j) = InodeVal(s, j)
      BY <3>2, <2>5, <2>7
    <3>4. \A J \in SUBSET SoundInode : CleanInodes(s, J) => CleanInodes(t, J)
      BY <3>2, <2>6 DEF v
    <3>5. \A j \in Inode : j # i /\ t.ic.hash[j] # NULL => s.ic.hash[j] # NULL
      BY <3>2, <2>1
    <3>6. ~ (i \in SoundInode /\ InodeVal(s, i) = FREE)
      BY <2>7, <2>9
    <3> QED
      BY <3>2, <3>3, <3>4, <3>5, <3>6 DEF t
  <2> QED
    BY <2>8, <2>9
<1> QED
  BY <1>1, <1>2

\* A store through the pointer to a cached inode changes that inode.
LEMMA SetCachedInodeKeeps ==
  ASSUME NEW s, StorageOK(s), NEW i \in Inode, s.ic.hash[i] # NULL,
         NEW e \in Entry(Inode, Cell), e.num = i
  PROVE  LET t == SetCachedInode(s, i, e)
         IN  /\ StorageOK(t)
             /\ t.disk = s.disk /\ t.bc = s.bc
             /\ t.ic.hash = s.ic.hash /\ t.ic.queue = s.ic.queue
             /\ t.ic.info[s.ic.hash[i]] = e
             /\ \A m \in ToSet(s.ic.queue) \ {s.ic.hash[i]} : t.ic.info[m] = s.ic.info[m]
             /\ \A j \in SoundInode : InodeVal(t, j) = IF j = i THEN e.val ELSE InodeVal(s, j)
             /\ \A J \in SUBSET SoundInode :
                  CleanInodes(s, J \ {i}) /\ (i \in J => e.dirty \/ e.val = InodeInBlock(s, i))
                    => CleanInodes(t, J)
<1> DEFINE n == s.ic.hash[i]
           f == [s.ic.info EXCEPT ![n] = e]
           c == [s.ic EXCEPT !.info[n] = e]
           t == SetCachedInode(s, i, e)
<1>1. n \in ToSet(s.ic.queue) /\ s.ic.info[n].num = i
  BY InodeHash
<1>2. t = [s EXCEPT !.ic.info[n] = e]
  BY DEF SetCachedInode
<1>3. e.dirty \in BOOLEAN
  BY DEF Entry
<1>4. s.ic \in [hash : {s.ic.hash}, queue : {s.ic.queue}, info : {s.ic.info}]
  BY DEF StorageOK, WellFormed, CacheType
<1>5. c = [hash |-> s.ic.hash, queue |-> s.ic.queue, info |-> f]
  BY <1>4
<1>6. WellFormed(c, Inode, Cell, Inode)
  BY <1>1, UpdateWellFormed DEF StorageOK
<1>7. f[n] = e /\ \A m \in ToSet(s.ic.queue) \ {n} : f[m] = s.ic.info[m]
  <2>1. s.ic.info \in [ToSet(s.ic.queue) -> Entry(Inode, Cell)]
    BY WellFormedParts DEF StorageOK
  <2> QED
    BY <2>1, <1>1
<1>8. t = [disk |-> s.disk, bc |-> s.bc, ic |-> c]
  <2>1. s = [disk |-> s.disk, bc |-> s.bc, ic |-> s.ic]
    BY DEF StorageOK
  <2>2. t = [s EXCEPT !.ic = c]
    BY <1>2
  <2> HIDE DEF t, c
  <2> QED
    BY <2>1, <2>2
<1> HIDE DEF t, c, f, n
<1>9. StorageOK(t)
  BY <1>6, <1>8 DEF StorageOK, CleanBlocks
<1>10. \A j \in SoundInode : j \in Inode /\ InodeInBlock(t, j) = InodeInBlock(s, j)
  BY <1>8 DEF SoundInode, InodeInBlock, BlockData
<1>11. /\ t.ic.hash = s.ic.hash /\ t.ic.queue = s.ic.queue /\ t.ic.info = f
       /\ s.ic.hash[i] = n /\ n # NULL
  BY <1>5, <1>8 DEF n
<1>12. ASSUME NEW j \in SoundInode, j # i, s.ic.hash[j] # NULL
       PROVE  t.ic.info[s.ic.hash[j]] = s.ic.info[s.ic.hash[j]]
  <2>1. s.ic.hash[j] \in ToSet(s.ic.queue) /\ s.ic.info[s.ic.hash[j]].num = j
    BY <1>10, <1>12, InodeHash
  <2> QED
    BY <2>1, <1>1, <1>7, <1>11, <1>12
<1>13. \A j \in SoundInode : InodeVal(t, j) = IF j = i THEN e.val ELSE InodeVal(s, j)
  BY <1>3, <1>7, <1>10, <1>11, <1>12 DEF InodeVal
<1>14. ASSUME NEW J \in SUBSET SoundInode, CleanInodes(s, J \ {i}), i \in J => e.dirty \/ e.val = InodeInBlock(s, i)
       PROVE  CleanInodes(t, J)
  <2> SUFFICES ASSUME NEW j \in J, t.ic.hash[j] # NULL, ~ t.ic.info[t.ic.hash[j]].dirty
               PROVE  t.ic.info[t.ic.hash[j]].val = InodeInBlock(t, j)
    BY DEF CleanInodes
  <2>1. CASE j = i
    BY <2>1, <1>3, <1>7, <1>10, <1>11, <1>14
  <2>2. CASE j # i
    BY <2>2, <1>10, <1>11, <1>12, <1>14 DEF CleanInodes
  <2> QED
    BY <2>1, <2>2
<1> QED
  <2>1. /\ t.ic.info[s.ic.hash[i]] = e
        /\ \A m \in ToSet(s.ic.queue) \ {s.ic.hash[i]} : t.ic.info[m] = s.ic.info[m]
    BY <1>7, <1>11
  <2>2. t.disk = s.disk /\ t.bc = s.bc
    BY <1>8
  <2> QED
    BY <2>1, <2>2, <1>9, <1>11, <1>13, <1>14 DEF t
-----------------------------------------------------------------------------
(* What a power failure would bring back.                                  *)

\* The inode as its sector holds it.
OnSector(s, i) == s.disk[INODE_TO_BLOCK(i)][INODE_IN_BLOCK_ADDR(i)]

\* A level holds what it held, or what a level above it held.
Lower(s, t) ==
  /\ \A i \in SoundInode :
       /\ InodeInBlock(t, i) \in {InodeInBlock(s, i), InodeVal(s, i)}
       /\ OnSector(t, i) \in {OnSector(s, i), InodeInBlock(s, i), InodeVal(s, i)}
  /\ \A b \in DataBlock : t.disk[b] \in {s.disk[b], BlockData(s, b)}

\* That is about the disk and the block cache of t alone.
LEMMA LowerBelow ==
  ASSUME NEW s, NEW t, Lower(s, t), NEW u, u.disk = t.disk, u.bc = t.bc
  PROVE  Lower(s, u)
<1>1. \A i : InodeInBlock(u, i) = InodeInBlock(t, i) /\ OnSector(u, i) = OnSector(t, i)
  BY DEF InodeInBlock, BlockData, OnSector
<1> QED
  BY <1>1, Zenon DEF Lower

\* Readers see no difference.
SameView(s, t) ==
  /\ \A i \in SoundInode : InodeVal(t, i) = InodeVal(s, i)
  /\ \A b \in DataBlock : BlockData(t, b) = BlockData(s, b)

\* Values sink step by step.
LEMMA LowerAfter ==
  ASSUME NEW s, NEW t, NEW u, SameView(s, t), Lower(s, t), Lower(t, u)
  PROVE  Lower(s, u)
<1>1. ASSUME NEW i \in SoundInode
      PROVE  /\ InodeInBlock(u, i) \in {InodeInBlock(s, i), InodeVal(s, i)}
             /\ OnSector(u, i) \in {OnSector(s, i), InodeInBlock(s, i), InodeVal(s, i)}
  <2>1. /\ InodeInBlock(t, i) \in {InodeInBlock(s, i), InodeVal(s, i)}
        /\ OnSector(t, i) \in {OnSector(s, i), InodeInBlock(s, i), InodeVal(s, i)}
        /\ InodeInBlock(u, i) \in {InodeInBlock(t, i), InodeVal(t, i)}
        /\ OnSector(u, i) \in {OnSector(t, i), InodeInBlock(t, i), InodeVal(t, i)}
        /\ InodeVal(t, i) = InodeVal(s, i)
    BY DEF SameView, Lower
  <2> QED
    BY <2>1
<1>2. \A b \in DataBlock : u.disk[b] \in {s.disk[b], BlockData(s, b)}
  BY DEF SameView, Lower
<1> QED
  BY <1>1, <1>2 DEF Lower

\* Nothing has moved.
LEMMA LowerSame ==
  ASSUME NEW s, NEW t, t.disk = s.disk, t.bc = s.bc
  PROVE  Lower(s, t) /\ \A b \in DataBlock : BlockData(t, b) = BlockData(s, b)
BY DEF Lower, InodeInBlock, BlockData, OnSector

\* Data blocks are apart from the block of the fs_header.
LEMMA DataBlockSound == DataBlock \subseteq SoundBlock /\ DataBlock \subseteq Block
<1>1. 0 \in Inode
  BY StorageAssumption DEF Inode
<1>2. HeaderBlock \notin DataBlock
  BY <1>1, InodeAddress DEF HeaderBlock
<1>3. NUM_BLOCKS_FOR_INODES \in Nat
  <2>1. INODES_PER_BLOCK \in Nat /\ INODES_PER_BLOCK > 0
        /\ NUM_INODES + INODES_PER_BLOCK - 1 \in Nat
    BY StorageAssumption
  <2> QED
    BY <2>1 DEF NUM_BLOCKS_FOR_INODES
<1>4. DataBlock \subseteq Block
  BY <1>3, StorageAssumption DEF DataBlock, Block
<1> QED
  BY <1>2, <1>4 DEF SoundBlock

\* A sector that takes what its block has takes it for every inode in it.
LEMMA FollowsSector ==
  ASSUME NEW s, NEW t, SectorsFollow(s, t)
  PROVE  /\ \A i \in SoundInode : OnSector(t, i) \in {OnSector(s, i), InodeInBlock(s, i)}
         /\ \A b \in DataBlock : t.disk[b] \in {s.disk[b], BlockData(s, b)}
<1>1. \A i \in SoundInode : INODE_TO_BLOCK(i) \in SoundBlock
  BY InodeAddress DEF SoundInode
<1> QED
  BY <1>1, DataBlockSound DEF SectorsFollow, OnSector, InodeInBlock

\* get_block sinks values.
LEMMA GetBlockSinks ==
  ASSUME NEW s, StorageOK(s), NEW b \in Block, NEW bad
  PROVE  SameView(s, GetBlock(s, b, bad)) /\ Lower(s, GetBlock(s, b, bad))
<1> DEFINE t == GetBlock(s, b, bad)
<1>1. /\ t.ic = s.ic
      /\ \A x \in SoundBlock : BlockData(t, x) = BlockData(s, x)
      /\ SectorsFollow(s, t)
  BY GetBlockKeeps
<1> HIDE DEF t
<1>2. \A i \in SoundInode : InodeInBlock(t, i) = InodeInBlock(s, i)
  BY <1>1, InodeAddress DEF SoundInode, InodeInBlock
<1>3. SameView(s, t)
  BY <1>1, <1>2, DataBlockSound DEF SameView, InodeVal
<1>4. Lower(s, t)
  BY <1>1, <1>2, FollowsSector DEF Lower
<1> QED
  BY <1>3, <1>4 DEF t

\* A store into a data block sinks other values and changes one.
LEMMA PutDataSinks ==
  ASSUME NEW s, StorageOK(s), NEW b \in DataBlock, NEW o \in Slot, NEW v \in Cell, NEW bad
  PROVE  LET t == PutCell(s, b, o, v, bad)
         IN  /\ Lower(s, t)
             /\ \A i \in SoundInode : InodeVal(t, i) = InodeVal(s, i)
             /\ \A x \in DataBlock : BlockData(t, x) =
                  IF x = b THEN [BlockData(s, x) EXCEPT ![o] = v] ELSE BlockData(s, x)
<1> DEFINE t == PutCell(s, b, o, v, bad)
<1>1. /\ t.ic = s.ic
      /\ \A x \in SoundBlock : BlockData(t, x) =
           IF x = b THEN [BlockData(s, x) EXCEPT ![o] = v] ELSE BlockData(s, x)
      /\ SectorsFollow(s, t)
  BY DataBlockSound, PutCellKeeps
<1> HIDE DEF t
<1>2. \A i \in SoundInode : InodeInBlock(t, i) = InodeInBlock(s, i)
  <2>1. \A i \in SoundInode : INODE_TO_BLOCK(i) \in SoundBlock /\ INODE_TO_BLOCK(i) # b
    BY InodeAddress DEF SoundInode
  <2> QED
    BY <1>1, <2>1 DEF InodeInBlock
<1>3. \A i \in SoundInode : InodeVal(t, i) = InodeVal(s, i)
  BY <1>1, <1>2 DEF InodeVal
<1>4. Lower(s, t)
  BY <1>1, <1>2, FollowsSector DEF Lower
<1> QED
  BY <1>1, <1>3, <1>4, DataBlockSound DEF t

\* So does copying an inode into its block.
LEMMA StoreInodeSinks ==
  ASSUME NEW s, StorageOK(s), NEW i \in Inode, NEW v \in Cell, NEW bad,
         i \in SoundInode => v = InodeVal(s, i)
  PROVE  SameView(s, StoreInode(s, i, v, bad)) /\ Lower(s, StoreInode(s, i, v, bad))
<1> DEFINE t == StoreInode(s, i, v, bad)
<1>1. /\ t.ic = s.ic
      /\ \A j \in SoundInode : InodeInBlock(t, j) = IF j = i THEN v ELSE InodeInBlock(s, j)
  BY StoreInodeKeeps
<1>2. /\ SectorsFollow(s, t)
      /\ \A x \in DataBlock : BlockData(t, x) = BlockData(s, x)
  <2> DEFINE b == INODE_TO_BLOCK(i)
             o == INODE_IN_BLOCK_ADDR(i)
  <2>1. b \in Block /\ o \in Slot /\ b \notin DataBlock
    BY InodeAddress
  <2>2. t = PutCell(s, b, o, v, bad)
    BY DEF StoreInode
  <2> HIDE DEF t, b, o
  <2>3. /\ SectorsFollow(s, t)
        /\ \A x \in SoundBlock : BlockData(t, x) =
             IF x = b THEN [BlockData(s, x) EXCEPT ![o] = v] ELSE BlockData(s, x)
    BY <2>1, <2>2, PutCellKeeps
  <2> QED
    BY <2>1, <2>3, DataBlockSound
<1> HIDE DEF t
<1>3. \A j \in SoundInode : InodeVal(t, j) = InodeVal(s, j)
  BY <1>1 DEF InodeVal
<1>4. SameView(s, t)
  BY <1>2, <1>3 DEF SameView
<1>5. Lower(s, t)
  BY <1>1, <1>2, FollowsSector DEF Lower
<1> QED
  BY <1>4, <1>5 DEF t

\* The victim of a full cache is in its list.
LEMMA HeadOfFull ==
  ASSUME NEW s, StorageOK(s), ~ (Len(s.ic.queue) < INODE_CACHESIZE)
  PROVE  Head(s.ic.queue) \in ToSet(s.ic.queue)
<1>1. s.ic.queue \in Seq(Nat) /\ Len(s.ic.queue) \in Nat
  BY WellFormedParts DEF StorageOK
<1>2. Len(s.ic.queue) >= 1
  BY <1>1, StorageAssumption
<1>3. DOMAIN s.ic.queue = 1 .. Len(s.ic.queue) /\ Head(s.ic.queue) = s.ic.queue[1]
  BY <1>1, <1>2
<1> QED
  BY <1>1, <1>2, <1>3 DEF ToSet

\* So does the eviction of an inode.
LEMMA EvictInodeSinks ==
  ASSUME NEW s, StorageOK(s), NEW bad
  PROVE  SameView(s, EvictInode(s, bad)) /\ Lower(s, EvictInode(s, bad))
<1> DEFINE t == EvictInode(s, bad)
           n == Head(s.ic.queue)
           e == s.ic.info[n]
<1>1. \A j \in SoundInode : InodeVal(t, j) = InodeVal(s, j)
  BY EvictInodeKeeps
<1>2. CASE Len(s.ic.queue) < INODE_CACHESIZE
  <2>1. t = s
    BY <1>2 DEF EvictInode
  <2> QED
    BY <2>1, LowerSame DEF SameView
<1>3. CASE ~ (Len(s.ic.queue) < INODE_CACHESIZE)
  <2> DEFINE x == e.num
             v == e.val
             u == StoreInode(s, x, v, bad)
  <2>1. n \in ToSet(s.ic.queue)
    BY <1>3, HeadOfFull
  <2>2. x \in Inode /\ v \in Cell /\ s.ic.hash[x] = n /\ n # NULL
    BY <2>1, InodeEntry
  <2>3. x \in SoundInode => v = InodeVal(s, x)
    BY <2>2 DEF InodeVal
  <2>4. t.disk = u.disk /\ t.bc = u.bc
    <3>1. t = [u EXCEPT !.ic = Drop(@, n)]
      BY <1>3 DEF EvictInode
    <3>2. StorageOK(u)
      <4> HIDE DEF x, v
      <4> QED
        BY <2>2, StoreInodeKeeps
    <3>3. u = [disk |-> u.disk, bc |-> u.bc, ic |-> u.ic]
      BY <3>2, Zenon DEF StorageOK
    <3> HIDE DEF t, u
    <3> QED
      BY <3>1, <3>3
  <2>5. SameView(s, u) /\ Lower(s, u)
    <3> HIDE DEF x, v
    <3> QED
      BY <2>2, <2>3, StoreInodeSinks
  <2> HIDE DEF t, u
  <2>6. Lower(s, t)
    BY <2>4, <2>5, LowerBelow
  <2>7. SameView(s, t)
    BY <1>1, <2>4, <2>5 DEF SameView, BlockData
  <2> QED
    BY <2>6, <2>7 DEF t
<1> QED
  BY <1>2, <1>3

\* So does set_inode_lru, whatever the new entry holds.
LEMMA SetInodeLruSinks ==
  ASSUME NEW s, StorageOK(s), NEW i \in Inode, NEW v, NEW bad
  PROVE  LET t == SetInodeLru(s, i, v, bad)
         IN  /\ Lower(s, t)
             /\ \A b \in DataBlock : BlockData(t, b) = BlockData(s, b)
<1> DEFINE u == EvictInode(s, bad)
           t == SetInodeLru(s, i, v, bad)
<1>1. StorageOK(u) /\ SameView(s, u) /\ Lower(s, u)
  BY EvictInodeKeeps, EvictInodeSinks
<1>2. t.disk = u.disk /\ t.bc = u.bc
  <2>1. u = [disk |-> u.disk, bc |-> u.bc, ic |-> u.ic]
    BY <1>1 DEF StorageOK
  <2> DEFINE c == Insert(u.ic, Malloc(s.ic), [num |-> i, dirty |-> FALSE, val |-> v])
  <2>2. t = [u EXCEPT !.ic = c]
    BY DEF SetInodeLru
  <2> HIDE DEF t, u, c
  <2> QED
    BY <2>1, <2>2
<1> HIDE DEF t, u
<1>3. Lower(s, t)
  BY <1>1, <1>2, LowerSame, LowerAfter
<1>4. \A b \in DataBlock : BlockData(t, b) = BlockData(s, b)
  BY <1>1, <1>2 DEF SameView, BlockData
<1> QED
  BY <1>3, <1>4 DEF t

\* So does get_use_inode.
LEMMA GetUseInodeSinks ==
  ASSUME NEW s, StorageOK(s), NEW i \in Inode, NEW bad
  PROVE  SameView(s, GetUseInode(s, i, bad)) /\ Lower(s, GetUseInode(s, i, bad))
<1> DEFINE t == GetUseInode(s, i, bad)
<1>1. \A j \in SoundInode : InodeVal(t, j) = InodeVal(s, j)
  BY GetUseInodeKeeps
<1>2. CASE s.ic.hash[i] # NULL
  <2> DEFINE c == Touch(s.ic, s.ic.hash[i])
  <2>1. t.disk = s.disk /\ t.bc = s.bc
    <3>1. s = [disk |-> s.disk, bc |-> s.bc, ic |-> s.ic]
      BY DEF StorageOK
    <3>2. t = [s EXCEPT !.ic = c]
      BY <1>2 DEF GetUseInode
    <3> HIDE DEF t, c
    <3> QED
      BY <3>1, <3>2
  <2> QED
    BY <1>1, <2>1, LowerSame DEF SameView
<1>3. CASE s.ic.hash[i] = NULL
  <2> DEFINE u == GetBlock(s, INODE_TO_BLOCK(i), bad)
             v == InodeInBlock(u, i)
  <2>1. StorageOK(u) /\ SameView(s, u) /\ Lower(s, u)
    BY InodeAddress, GetBlockKeeps, GetBlockSinks
  <2>2. t = IF v = FREE THEN u ELSE SetInodeLru(u, i, v, bad)
    BY <1>3 DEF GetUseInode
  <2> HIDE DEF t, u, v
  <2>3. Lower(u, t) /\ \A b \in DataBlock : BlockData(t, b) = BlockData(u, b)
    BY <2>1, <2>2, LowerSame, SetInodeLruSinks
  <2>4. Lower(s, t)
    BY <2>1, <2>3, LowerAfter
  <2>5. SameView(s, t)
    BY <1>1, <2>1, <2>3 DEF SameView, t
  <2> QED
    BY <2>4, <2>5 DEF t
<1> QED
  BY <1>2, <1>3
-----------------------------------------------------------------------------
(* The sizes of the lists, and the entry at the tail.                      *)

BlocksBounded(s) == Len(s.bc.queue) <= BLOCK_CACHESIZE
InodesBounded(s) == Len(s.ic.queue) <= INODE_CACHESIZE

\* The lists have lengths.
LEMMA Lengths ==
  ASSUME NEW s, StorageOK(s)
  PROVE  /\ Len(s.bc.queue) \in Nat /\ Len(s.ic.queue) \in Nat
         /\ BLOCK_CACHESIZE \in Nat /\ BLOCK_CACHESIZE > 0
         /\ INODE_CACHESIZE \in Nat /\ INODE_CACHESIZE > 0
<1>1. s.bc.queue \in Seq(Nat) /\ s.ic.queue \in Seq(Nat)
  BY WellFormedParts DEF StorageOK
<1> QED
  BY <1>1, StorageAssumption

\* A block can be evicted unless its sector cannot be written.
LEMMA EvictBlockBounded ==
  ASSUME NEW s, StorageOK(s), BlocksBounded(s)
  PROVE  Len(EvictBlock(s, {}).bc.queue) + 1 <= BLOCK_CACHESIZE
<1> DEFINE t == EvictBlock(s, {})
           n == Head(s.bc.queue)
           e == s.bc.info[n]
<1>1. CASE Len(s.bc.queue) < BLOCK_CACHESIZE
  <2>1. t = s
    BY <1>1 DEF EvictBlock
  <2> QED
    BY <1>1, <2>1, Lengths
<1>2. CASE ~ (Len(s.bc.queue) < BLOCK_CACHESIZE)
  <2> DEFINE d == IF e.dirty THEN [s.disk EXCEPT ![e.num] = e.val] ELSE s.disk
             c == Drop(s.bc, n)
  <2>1. t.bc = c
    <3>1. s = [disk |-> s.disk, bc |-> s.bc, ic |-> s.ic]
      BY DEF StorageOK
    <3>2. t = [s EXCEPT !.disk = d, !.bc = c]
      BY <1>2 DEF EvictBlock
    <3> HIDE DEF t, d, c
    <3> QED
      BY <3>1, <3>2
  <2>2. n \in ToSet(s.bc.queue)
    <3>1. s.bc.queue \in Seq(Nat) /\ Len(s.bc.queue) \in Nat
      BY WellFormedParts DEF StorageOK
    <3>2. Len(s.bc.queue) >= 1
      BY <1>2, <3>1, StorageAssumption
    <3>3. DOMAIN s.bc.queue = 1 .. Len(s.bc.queue) /\ n = s.bc.queue[1]
      BY <3>1, <3>2
    <3> QED
      BY <3>1, <3>2, <3>3 DEF ToSet
  <2>3. Len(c.queue) = Len(s.bc.queue) - 1
    BY <2>2, DropWellFormed DEF StorageOK
  <2> HIDE DEF t, c
  <2> QED
    BY <1>2, <2>1, <2>3, Lengths DEF BlocksBounded, t
<1> QED
  BY <1>1, <1>2

\* get_block keeps the block list within its size.
LEMMA GetBlockBounded ==
  ASSUME NEW s, StorageOK(s), BlocksBounded(s), NEW b \in Block
  PROVE  BlocksBounded(GetBlock(s, b, {}))
<1> DEFINE t == GetBlock(s, b, {})
<1>1. s = [disk |-> s.disk, bc |-> s.bc, ic |-> s.ic]
  BY DEF StorageOK
<1>2. CASE s.bc.hash[b] # NULL
  <2> DEFINE c == Touch(s.bc, s.bc.hash[b])
  <2>1. t = [s EXCEPT !.bc = c]
    BY <1>2 DEF GetBlock
  <2>2. Len(c.queue) = Len(s.bc.queue)
    BY <1>2, BlockHash, TouchWellFormed DEF StorageOK
  <2> HIDE DEF t, c
  <2>3. t.bc = c
    BY <1>1, <2>1
  <2> QED
    BY <2>2, <2>3 DEF BlocksBounded, t
<1>3. CASE s.bc.hash[b] = NULL
  <2> DEFINE u == EvictBlock(s, {})
             n == Malloc(s.bc)
             e == [num |-> b, dirty |-> FALSE, val |-> s.disk[b]]
             c == Insert(u.bc, n, e)
  <2>1. StorageOK(u) /\ Len(u.bc.queue) + 1 <= BLOCK_CACHESIZE
    BY EvictBlockKeeps, EvictBlockBounded
  <2>2. t = [u EXCEPT !.bc = c]
    BY <1>3 DEF GetBlock, SetBlockLru
  <2>3. c.queue = Append(u.bc.queue, n)
    BY DEF Insert
  <2> HIDE DEF t, c, u, n
  <2>4. u = [disk |-> u.disk, bc |-> u.bc, ic |-> u.ic]
    BY <2>1 DEF StorageOK
  <2>5. t.bc = c
    BY <2>2, <2>4
  <2>6. u.bc.queue \in Seq(Nat)
    BY <2>1, WellFormedParts DEF StorageOK
  <2>7. Len(Append(u.bc.queue, n)) = Len(u.bc.queue) + 1
    BY <2>6
  <2> QED
    BY <2>1, <2>3, <2>5, <2>7 DEF BlocksBounded, t
<1> QED
  BY <1>2, <1>3

\* So does a store into a block.
LEMMA PutCellBounded ==
  ASSUME NEW s, StorageOK(s), BlocksBounded(s), NEW b \in Block, NEW o, NEW v
  PROVE  BlocksBounded(PutCell(s, b, o, v, {}))
<1> DEFINE u == GetBlock(s, b, {})
           n == u.bc.hash[b]
           e == [u.bc.info[n] EXCEPT !.val[o] = v, !.dirty = TRUE]
           t == PutCell(s, b, o, v, {})
<1>1. StorageOK(u) /\ BlocksBounded(u)
  BY GetBlockKeeps, GetBlockBounded
<1>2. t = [u EXCEPT !.bc.info[n] = e]
  BY DEF PutCell
<1> HIDE DEF t, u, n, e
<1>3. u = [disk |-> u.disk, bc |-> u.bc, ic |-> u.ic]
      /\ u.bc = [hash |-> u.bc.hash, queue |-> u.bc.queue, info |-> u.bc.info]
  BY <1>1, WellFormedParts DEF StorageOK
<1>4. t.bc.queue = u.bc.queue
  BY <1>2, <1>3
<1> QED
  BY <1>1, <1>4 DEF BlocksBounded, t

\* Nothing else makes the block list longer; evict_inode makes room.
LEMMA EvictInodeBounded ==
  ASSUME NEW s, StorageOK(s), NEW bad
  PROVE  LET t == EvictInode(s, bad)
         IN  /\ bad = {} /\ BlocksBounded(s) => BlocksBounded(t)
             /\ InodesBounded(s) => Len(t.ic.queue) + 1 <= INODE_CACHESIZE
             /\ INODE_CACHESIZE >= 2 /\ s.ic.queue # << >> => Last(s.ic.queue) \in ToSet(t.ic.queue)
<1> DEFINE t == EvictInode(s, bad)
           n == Head(s.ic.queue)
           e == s.ic.info[n]
           q == s.ic.queue
<1>1. q \in Seq(Nat) /\ IsInjective(q) /\ Len(q) \in Nat
  BY WellFormedParts DEF StorageOK
<1>2. q # << >> => Last(q) \in ToSet(q) /\ Last(q) = q[Len(q)] /\ Len(q) \in 1 .. Len(q)
  BY <1>1 DEF Last, ToSet
<1>3. CASE Len(q) < INODE_CACHESIZE
  <2>1. t = s
    BY <1>3 DEF EvictInode
  <2> QED
    BY <1>2, <1>3, <2>1, Lengths
<1>4. CASE ~ (Len(q) < INODE_CACHESIZE)
  <2> DEFINE x == e.num
             v == e.val
             u == StoreInode(s, x, v, bad)
             c == Drop(s.ic, n)
  <2>1. n \in ToSet(q)
    BY <1>4, HeadOfFull
  <2>2. x \in Inode /\ v \in Cell
    BY <2>1, InodeEntry
  <2> HIDE DEF x, v
  <2>3. StorageOK(u) /\ u.ic = s.ic
    BY <2>2, StoreInodeKeeps
  <2>4. bad = {} /\ BlocksBounded(s) => BlocksBounded(u)
    BY <2>2, InodeAddress, PutCellBounded DEF StoreInode
  <2>5. t = [u EXCEPT !.ic = c]
    BY <1>4, <2>3 DEF EvictInode, x, v
  <2>6. Len(c.queue) = Len(q) - 1 /\ ToSet(c.queue) = ToSet(q) \ {n}
    BY <2>1, DropWellFormed DEF StorageOK
  <2>7. INODE_CACHESIZE >= 2 => Last(q) # n /\ q # << >>
    <3>1. SUFFICES ASSUME INODE_CACHESIZE >= 2 PROVE Last(q) # n /\ q # << >>
      OBVIOUS
    <3>2. Len(q) >= 2 /\ DOMAIN q = 1 .. Len(q)
      BY <1>1, <1>4, <3>1, Lengths
    <3>3. q # << >> /\ n = q[1]
      BY <1>1, <3>2
    <3> QED
      BY <1>1, <1>2, <3>2, <3>3 DEF IsInjective
  <2> HIDE DEF t, u, c, n, q
  <2>8. u = [disk |-> u.disk, bc |-> u.bc, ic |-> u.ic]
    BY <2>3 DEF StorageOK
  <2>9. t.bc = u.bc /\ t.ic = c
    BY <2>5, <2>8
  <2>10. Len(q) <= INODE_CACHESIZE => Len(c.queue) + 1 <= INODE_CACHESIZE
    BY <1>1, <2>6, Lengths
  <2> QED
    BY <1>2, <2>4, <2>6, <2>7, <2>9, <2>10 DEF BlocksBounded, InodesBounded, t, q
<1> QED
  BY <1>3, <1>4

\* set_inode_lru keeps both lists within their sizes, and the entry that was at
\* the tail.
LEMMA SetInodeLruBounded ==
  ASSUME NEW s, StorageOK(s), NEW i, NEW v, NEW bad
  PROVE  LET t == SetInodeLru(s, i, v, bad)
         IN  /\ bad = {} /\ BlocksBounded(s) => BlocksBounded(t)
             /\ InodesBounded(s) => InodesBounded(t)
             /\ INODE_CACHESIZE >= 2 /\ s.ic.queue # << >> => Last(s.ic.queue) \in ToSet(t.ic.queue)
<1> DEFINE u == EvictInode(s, bad)
           n == Malloc(s.ic)
           c == Insert(u.ic, n, [num |-> i, dirty |-> FALSE, val |-> v])
           t == SetInodeLru(s, i, v, bad)
<1>1. /\ StorageOK(u)
      /\ bad = {} /\ BlocksBounded(s) => BlocksBounded(u)
      /\ InodesBounded(s) => Len(u.ic.queue) + 1 <= INODE_CACHESIZE
      /\ INODE_CACHESIZE >= 2 /\ s.ic.queue # << >> => Last(s.ic.queue) \in ToSet(u.ic.queue)
      /\ ToSet(u.ic.queue) \subseteq ToSet(s.ic.queue)
  BY EvictInodeKeeps, EvictInodeBounded
<1>2. t = [u EXCEPT !.ic = c] /\ c.queue = Append(u.ic.queue, n)
  BY DEF SetInodeLru, Insert
<1>3. n \in Nat /\ n \notin ToSet(s.ic.queue)
  <2>1. s.ic.queue \in Seq(Nat)
    BY WellFormedParts DEF StorageOK
  <2> QED
    BY <2>1, MallocFresh
<1> HIDE DEF t, u, c, n
<1>4. u = [disk |-> u.disk, bc |-> u.bc, ic |-> u.ic]
  BY <1>1 DEF StorageOK
<1>5. t.bc = u.bc /\ t.ic = c
  BY <1>2, <1>4
<1>6. Len(Append(u.ic.queue, n)) = Len(u.ic.queue) + 1
      /\ ToSet(Append(u.ic.queue, n)) = ToSet(u.ic.queue) \union {n}
  <2>1. u.ic.queue \in Seq(Nat) /\ IsInjective(u.ic.queue)
    BY <1>1, WellFormedParts DEF StorageOK
  <2> QED
    BY <1>1, <1>3, <2>1, AppendElements
<1> QED
  BY <1>1, <1>2, <1>5, <1>6 DEF BlocksBounded, InodesBounded, t

\* So does get_use_inode.
LEMMA GetUseInodeBounded ==
  ASSUME NEW s, StorageOK(s), NEW i \in Inode, NEW bad
  PROVE  LET t == GetUseInode(s, i, bad)
         IN  /\ bad = {} /\ BlocksBounded(s) => BlocksBounded(t)
             /\ InodesBounded(s) => InodesBounded(t)
             /\ INODE_CACHESIZE >= 2 /\ s.ic.queue # << >> => Last(s.ic.queue) \in ToSet(t.ic.queue)
<1> DEFINE t == GetUseInode(s, i, bad)
<1>1. CASE s.ic.hash[i] # NULL
  <2> DEFINE c == Touch(s.ic, s.ic.hash[i])
  <2>1. t.bc = s.bc /\ t.ic = c
    <3>1. s = [disk |-> s.disk, bc |-> s.bc, ic |-> s.ic]
      BY DEF StorageOK
    <3>2. t = [s EXCEPT !.ic = c]
      BY <1>1 DEF GetUseInode
    <3> HIDE DEF t, c
    <3> QED
      BY <3>1, <3>2
  <2>2. Len(c.queue) = Len(s.ic.queue) /\ ToSet(c.queue) = ToSet(s.ic.queue)
    BY <1>1, InodeHash, TouchWellFormed DEF StorageOK
  <2>3. s.ic.queue # << >> => Last(s.ic.queue) \in ToSet(s.ic.queue)
    <3>1. s.ic.queue \in Seq(Nat)
      BY WellFormedParts DEF StorageOK
    <3> QED
      BY <3>1 DEF Last, ToSet
  <2> HIDE DEF t, c
  <2> QED
    BY <2>1, <2>2, <2>3 DEF BlocksBounded, InodesBounded, t
<1>2. CASE s.ic.hash[i] = NULL
  <2> DEFINE b == INODE_TO_BLOCK(i)
             u == GetBlock(s, b, bad)
             v == InodeInBlock(u, i)
  <2>1. /\ StorageOK(u) /\ u.ic = s.ic
        /\ bad = {} /\ BlocksBounded(s) => BlocksBounded(u)
    BY InodeAddress, GetBlockKeeps, GetBlockBounded
  <2>2. t = IF v = FREE THEN u ELSE SetInodeLru(u, i, v, bad)
    BY <1>2 DEF GetUseInode
  <2> HIDE DEF t, u, v
  <2>3. s.ic.queue # << >> => Last(s.ic.queue) \in ToSet(s.ic.queue)
    <3>1. s.ic.queue \in Seq(Nat)
      BY WellFormedParts DEF StorageOK
    <3> QED
      BY <3>1 DEF Last, ToSet
  <2>4. CASE v = FREE
    BY <2>1, <2>2, <2>3, <2>4 DEF InodesBounded, t
  <2>5. CASE v # FREE
    BY <2>1, <2>2, <2>5, SetInodeLruBounded DEF InodesBounded, t
  <2> QED
    BY <2>4, <2>5
<1> QED
  BY <1>1, <1>2
=============================================================================
