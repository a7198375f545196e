--------------------------- MODULE YfsIolibProofs ---------------------------
(***************************************************************************)
(* The descriptors of a client: their count is right and an answer to Open *)
(* or Create finds a descriptor, for every number of clients and of        *)
(* descriptors and whatever the server answers.                            *)
(***************************************************************************)
EXTENDS YfsIolib, FiniteSetTheorems, TLAPS

-----------------------------------------------------------------------------
(* The inductive invariant.                                                *)

FdCalls   == {"Open", "Create", "Read", "Write", "Seek"}
OpenCalls == {"Open", "Create"}

Shaped(files) ==
  files = [fd \in Fd |-> [inum |-> files[fd].inum, position |-> files[fd].position]]
OpenIn(files) == {fd \in Fd : files[fd].inum # -1}

\* The vector of a process and its count; nothing is open before it is set up.
LibraryOf(p) ==
  /\ Shaped(open_files[p])
  /\ open_files_flag[p] = -1 => open_files_count[p] = 0
  /\ open_files_flag[p] # -1 => open_files_count[p] = Cardinality(OpenIn(open_files[p]))

Library ==
  /\ open_files = [p \in Process |-> open_files[p]]
  /\ open_files_count \in [Process -> Nat]
  /\ open_files_flag \in [Process -> {-1, 0}]
  /\ \A p \in Process : LibraryOf(p)

\* A call that uses descriptors has set the vector up, and Open and Create have
\* found a descriptor free; nobody takes it before they return.
CallOf(p) ==
  pc[p] \in {"sent", "replied"} =>
    /\ msg[p].call \in FdCalls => open_files_flag[p] # -1
    /\ msg[p].call \in OpenCalls => open_files_count[p] # MAX_OPEN_FILES

Called ==
  /\ pc = [p \in Process |-> pc[p]]
  /\ msg = [p \in Process |-> msg[p]]
  /\ \A p \in Process : CallOf(p)

\* What waits in the queue are calls in Send, each of them once.
Queued ==
  /\ queue \in Seq(Process)
  /\ server # "up" => queue = << >>
  /\ \A k, l \in DOMAIN queue : pc[queue[k]] = "sent" /\ (queue[k] = queue[l] => k = l)

IInv == Library /\ Called /\ Queued

-----------------------------------------------------------------------------
(* The vector.                                                             *)

LEMMA FdFinite ==
  /\ IsFiniteSet(Fd) /\ Cardinality(Fd) = MAX_OPEN_FILES
  /\ \A files : IsFiniteSet(OpenIn(files)) /\ Cardinality(OpenIn(files)) \in Nat
<1>1. MAX_OPEN_FILES \in Nat \ {0}
  BY IolibAssumption
<1>2. IsFiniteSet(Fd) /\ Cardinality(Fd) = MAX_OPEN_FILES
  BY <1>1, FS_Interval DEF Fd
<1>3. ASSUME NEW files PROVE IsFiniteSet(OpenIn(files)) /\ Cardinality(OpenIn(files)) \in Nat
  <2>1. OpenIn(files) \subseteq Fd
    BY DEF OpenIn
  <2> QED
    BY <1>2, <2>1, FS_Subset, FS_CardinalityType
<1> QED
  BY <1>2, <1>3

\* The vector as it is when a call looks at it.
LEMMA FilesShaped ==
  ASSUME Library, NEW p \in Process
  PROVE  /\ Shaped(Files(p))
         /\ open_files_count[p] \in Nat
         /\ open_files_count[p] = Cardinality(OpenIn(Files(p)))
         /\ open_files_flag[p] # -1 => Files(p) = open_files[p]
<1>1. LibraryOf(p) /\ open_files_count[p] \in Nat /\ open_files_flag[p] \in {-1, 0}
  BY DEF Library
<1>2. CASE open_files_flag[p] # -1
  BY <1>1, <1>2 DEF LibraryOf, Files
<1>3. CASE open_files_flag[p] = -1
  <2>1. Files(p) = [fd \in Fd |-> NoFile]
    BY <1>3 DEF Files
  <2>2. Shaped(Files(p)) /\ OpenIn(Files(p)) = {}
    BY <2>1 DEF Shaped, OpenIn, NoFile
  <2> QED
    BY <1>1, <1>3, <2>2, FS_EmptySet DEF LibraryOf
<1> QED
  BY <1>2, <1>3

\* Storing a vector with its count.
LEMMA VectorKeeps ==
  ASSUME Library, NEW p \in Process, NEW files, NEW count \in Nat,
         Shaped(files), count = Cardinality(OpenIn(files)), Vector(p, files, count)
  PROVE  /\ Library'
         /\ open_files_flag'[p] = 0 /\ open_files_count'[p] = count
         /\ \A q \in Process \ {p} :
              open_files_flag'[q] = open_files_flag[q] /\ open_files_count'[q] = open_files_count[q]
<1>1. /\ open_files' = [open_files EXCEPT ![p] = files]
      /\ open_files_count' = [open_files_count EXCEPT ![p] = count]
      /\ open_files_flag' = [open_files_flag EXCEPT ![p] = 0]
  BY DEF Vector
<1>2. /\ open_files = [q \in Process |-> open_files[q]]
      /\ open_files_count \in [Process -> Nat] /\ open_files_flag \in [Process -> {-1, 0}]
      /\ \A q \in Process : LibraryOf(q)
  BY DEF Library
<1>3. /\ open_files' = [q \in Process |-> open_files'[q]]
      /\ open_files_count' \in [Process -> Nat] /\ open_files_flag' \in [Process -> {-1, 0}]
  BY <1>1, <1>2
<1>4. open_files'[p] = files /\ open_files_flag'[p] = 0 /\ open_files_count'[p] = count
  BY <1>1, <1>2
<1>5. \A q \in Process \ {p} :
        /\ open_files'[q] = open_files[q]
        /\ open_files_flag'[q] = open_files_flag[q] /\ open_files_count'[q] = open_files_count[q]
  BY <1>1, <1>2
<1>6. ASSUME NEW q \in Process PROVE LibraryOf(q)'
  <2>1. CASE q = p
    BY <1>4, <2>1 DEF LibraryOf
  <2>2. CASE q # p
    BY <1>2, <1>5, <2>2 DEF LibraryOf
  <2> QED
    BY <2>1, <2>2
<1> QED
  BY <1>3, <1>4, <1>5, <1>6 DEF Library

\* An open file with one field changed.
LEMMA FileExcept ==
  ASSUME NEW i, NEW n, NEW v
  PROVE  LET f == [inum |-> i, position |-> n]
         IN  /\ [f EXCEPT !.position = v] = [inum |-> i, position |-> v]
             /\ [f EXCEPT !.inum = v] = [inum |-> v, position |-> n]
OBVIOUS

\* A position that moves opens and closes nothing.
LEMMA PositionKeeps ==
  ASSUME NEW files, Shaped(files), NEW fd, NEW pos
  PROVE  LET moved == [files EXCEPT ![fd].position = pos]
         IN  Shaped(moved) /\ OpenIn(moved) = OpenIn(files)
<1> DEFINE moved == [files EXCEPT ![fd].position = pos]
<1>1. moved = [g \in Fd |-> IF g = fd THEN [files[g] EXCEPT !.position = pos] ELSE files[g]]
  BY DEF Shaped
<1>2. \A g \in Fd : files[g] = [inum |-> files[g].inum, position |-> files[g].position]
  BY DEF Shaped
<1>3. ASSUME NEW g \in Fd PROVE \E n : moved[g] = [inum |-> files[g].inum, position |-> n]
  <2>1. CASE g = fd
    <3>1. PICK x, n : files[g] = [inum |-> x, position |-> n]
      BY <1>2
    <3>2. [files[g] EXCEPT !.position = pos] = [inum |-> x, position |-> pos]
      BY <3>1, FileExcept
    <3>3. files[g].inum = x
      BY <3>1
    <3>4. moved[g] = [files[g] EXCEPT !.position = pos]
      BY <1>1, <2>1
    <3> HIDE DEF moved
    <3> QED
      BY <2>1, <3>2, <3>3, <3>4
  <2>2. CASE g # fd
    BY <1>1, <1>2, <2>2
  <2> QED
    BY <2>1, <2>2
<1>4. ASSUME NEW g \in Fd
      PROVE  moved[g] = [inum |-> moved[g].inum, position |-> moved[g].position]
             /\ moved[g].inum = files[g].inum
  <2> HIDE DEF moved
  <2>1. PICK n : moved[g] = [inum |-> files[g].inum, position |-> n]
    BY <1>3
  <2>2. moved[g].inum = files[g].inum /\ moved[g].position = n
    BY <2>1
  <2> QED
    BY <2>1, <2>2
<1>5. moved = [g \in Fd |-> moved[g]]
  BY <1>1
<1> HIDE DEF moved
<1>6. Shaped(moved) /\ OpenIn(moved) = OpenIn(files)
  BY <1>4, <1>5 DEF Shaped, OpenIn
<1> QED
  BY <1>6 DEF moved

LEMMA MovedKeeps ==
  ASSUME NEW files, Shaped(files), NEW fd, NEW pos
  PROVE  Shaped(Moved(files, fd, pos)) /\ OpenIn(Moved(files, fd, pos)) = OpenIn(files)
BY PositionKeeps DEF Moved

\* Close.
LEMMA ClosedKeeps ==
  ASSUME NEW files, Shaped(files), NEW fd \in Fd, files[fd].inum # -1
  PROVE  LET closed == [files EXCEPT ![fd] = NoFile]
         IN  Shaped(closed) /\ Cardinality(OpenIn(closed)) = Cardinality(OpenIn(files)) - 1
<1> DEFINE closed == [files EXCEPT ![fd] = NoFile]
<1>1. closed = [g \in Fd |-> IF g = fd THEN NoFile ELSE files[g]]
  BY DEF Shaped
<1>2. Shaped(closed)
  BY <1>1 DEF Shaped, NoFile
<1>3. OpenIn(closed) = OpenIn(files) \ {fd}
  BY <1>1 DEF OpenIn, NoFile
<1>4. fd \in OpenIn(files)
  BY DEF OpenIn
<1> QED
  BY <1>2, <1>3, <1>4, FdFinite, FS_RemoveElement

\* Open and Create.
LEMMA OpenedKeeps ==
  ASSUME NEW files, Shaped(files), NEW fd \in Fd, files[fd].inum = -1, NEW i, i # -1
  PROVE  LET opened == [files EXCEPT ![fd].inum = i]
         IN  Shaped(opened) /\ Cardinality(OpenIn(opened)) = Cardinality(OpenIn(files)) + 1
<1> DEFINE opened == [files EXCEPT ![fd].inum = i]
<1>1. opened = [g \in Fd |-> IF g = fd THEN [files[g] EXCEPT !.inum = i] ELSE files[g]]
  BY DEF Shaped
<1>2. \A g \in Fd : files[g] = [inum |-> files[g].inum, position |-> files[g].position]
  BY DEF Shaped
<1>3. ASSUME NEW g \in Fd
      PROVE  \E n : opened[g] = [inum |-> IF g = fd THEN i ELSE files[g].inum, position |-> n]
  <2>1. CASE g = fd
    <3>1. PICK x, n : files[g] = [inum |-> x, position |-> n]
      BY <1>2
    <3>2. [files[g] EXCEPT !.inum = i] = [inum |-> i, position |-> n]
      BY <3>1, FileExcept
    <3>3. files[g].inum = x
      BY <3>1
    <3>4. opened[g] = [files[g] EXCEPT !.inum = i]
      BY <1>1, <2>1
    <3> HIDE DEF opened
    <3> QED
      BY <2>1, <3>2, <3>3, <3>4
  <2>2. CASE g # fd
    BY <1>1, <1>2, <2>2
  <2> QED
    BY <2>1, <2>2
<1>4. opened = [g \in Fd |-> opened[g]]
  BY <1>1
<1> HIDE DEF opened
<1>5. Shaped(opened)
  BY <1>3, <1>4 DEF Shaped
<1>6. \A g \in Fd : opened[g].inum = (IF g = fd THEN i ELSE files[g].inum)
  <2> SUFFICES ASSUME NEW g \in Fd
               PROVE  opened[g].inum = (IF g = fd THEN i ELSE files[g].inum)
    OBVIOUS
  <2>1. PICK n : opened[g] = [inum |-> IF g = fd THEN i ELSE files[g].inum, position |-> n]
    BY <1>3
  <2> QED
    BY <2>1
<1>7. OpenIn(opened) = OpenIn(files) \union {fd}
  BY <1>6 DEF OpenIn
<1>8. fd \notin OpenIn(files)
  BY DEF OpenIn
<1>9. Cardinality(OpenIn(opened)) = Cardinality(OpenIn(files)) + 1
  BY <1>7, <1>8, FdFinite, FS_AddElement
<1> QED
  BY <1>5, <1>9 DEF opened

-----------------------------------------------------------------------------
(* Calls and returns.                                                      *)

\* What p does with its descriptors is nothing to another process.
OthersStay(p) ==
  \A q \in Process \ {p} :
    open_files_flag'[q] = open_files_flag[q] /\ open_files_count'[q] = open_files_count[q]

LEMMA SendKeeps ==
  ASSUME Called, NEW p \in Process, NEW m, Send(p, m), OthersStay(p),
         m.call \in FdCalls => open_files_flag'[p] # -1,
         m.call \in OpenCalls => open_files_count'[p] # MAX_OPEN_FILES
  PROVE  Called'
<1>1. pc' = [pc EXCEPT ![p] = "sent"] /\ msg' = [msg EXCEPT ![p] = m]
  BY DEF Send
<1>2. /\ pc = [q \in Process |-> pc[q]] /\ msg = [q \in Process |-> msg[q]]
      /\ \A q \in Process : CallOf(q)
  BY DEF Called
<1>3. pc' = [q \in Process |-> pc'[q]] /\ msg' = [q \in Process |-> msg'[q]]
  BY <1>1, <1>2
<1>4. msg'[p] = m /\ \A q \in Process \ {p} : pc'[q] = pc[q] /\ msg'[q] = msg[q]
  BY <1>1, <1>2
<1>5. ASSUME NEW q \in Process PROVE CallOf(q)'
  <2>1. CASE q = p
    BY <1>4, <2>1 DEF CallOf
  <2>2. CASE q # p
    BY <1>2, <1>4, <2>2 DEF CallOf, OthersStay
  <2> QED
    BY <2>1, <2>2
<1> QED
  BY <1>3, <1>5 DEF Called

\* p is not in a call any more.
LEMMA ReadyKeeps ==
  ASSUME Called, NEW p \in Process, NEW s, s \notin {"sent", "replied"},
         pc' = [pc EXCEPT ![p] = s], OthersStay(p),
         msg' = [q \in Process |-> msg'[q]], \A q \in Process \ {p} : msg'[q] = msg[q]
  PROVE  Called'
<1>1. pc = [q \in Process |-> pc[q]] /\ \A q \in Process : CallOf(q)
  BY DEF Called
<1>2. pc' = [q \in Process |-> pc'[q]] /\ pc'[p] = s /\ \A q \in Process \ {p} : pc'[q] = pc[q]
  BY <1>1
<1>3. ASSUME NEW q \in Process PROVE CallOf(q)'
  <2>1. CASE q = p
    BY <1>2, <2>1 DEF CallOf
  <2>2. CASE q # p
    BY <1>1, <1>2, <2>2 DEF CallOf, OthersStay
  <2> QED
    BY <2>1, <2>2
<1> QED
  BY <1>2, <1>3 DEF Called

LEMMA ReturnKeeps ==
  ASSUME Called, NEW p \in Process, Return(p), OthersStay(p)
  PROVE  Called'
<1>1. pc' = [pc EXCEPT ![p] = "ready"] /\ msg' = [msg EXCEPT ![p] = NoMessage]
  BY DEF Return
<1>2. msg = [q \in Process |-> msg[q]]
  BY DEF Called
<1>3. msg' = [q \in Process |-> msg'[q]] /\ \A q \in Process \ {p} : msg'[q] = msg[q]
  BY <1>1, <1>2
<1> QED
  BY <1>1, <1>3, ReadyKeeps

\* A call that does not reach the server.
LEMMA LocalKeeps ==
  ASSUME Called, NEW p \in Process, pc[p] = "ready", Local, OthersStay(p)
  PROVE  Called'
<1>1. UNCHANGED <<pc, msg>>
  BY DEF Local
<1>2. ASSUME NEW q \in Process PROVE CallOf(q)'
  <2>1. CASE q = p
    BY <1>1, <2>1 DEF CallOf
  <2>2. CASE q # p
    BY <1>1, <2>2 DEF CallOf, OthersStay, Called
  <2> QED
    BY <2>1, <2>2
<1> QED
  BY <1>1, <1>2 DEF Called

LEMMA LibraryStays ==
  ASSUME Library, UNCHANGED library
  PROVE  Library' /\ \A p \in Process : OthersStay(p)
BY DEF Library, LibraryOf, library, OthersStay

-----------------------------------------------------------------------------
(* The steps.                                                              *)

\* What a call fills in besides leaves its code alone.
LEMMA CallStays ==
  ASSUME NEW c, NEW p, NEW u, NEW v, NEW w, NEW x
  PROVE  /\ [Message(c, p) EXCEPT !.path = u].call = c
         /\ [Message(c, p) EXCEPT !.path = u, !.to = v].call = c
         /\ [Message(c, p) EXCEPT !.inum = u, !.pos = v, !.len = w, !.fd = x].call = c
         /\ [Message(c, p) EXCEPT !.inum = u, !.fd = v, !.off = w].call = c
         /\ Message(c, p).call = c
BY DEF Message

LEMMA OpenOrCreateKeeps ==
  ASSUME IInv, NEW p \in Process, NEW c, NEW path, OpenOrCreate(p, c, path)
  PROVE  Library' /\ Called'
<1>1. Library' /\ OthersStay(p) /\ open_files_flag'[p] = 0 /\ open_files_count'[p] = open_files_count[p]
  BY FilesShaped, VectorKeeps DEF IInv, OpenOrCreate, Vectored, OthersStay
<1>2. CASE open_files_count[p] = MAX_OPEN_FILES
  BY <1>1, <1>2, LocalKeeps DEF IInv, OpenOrCreate, Calling
<1>3. CASE open_files_count[p] # MAX_OPEN_FILES
  BY <1>1, <1>3, SendKeeps DEF IInv, OpenOrCreate
<1> QED
  BY <1>1, <1>2, <1>3

LEMMA CloseKeeps ==
  ASSUME IInv, NEW p \in Process, NEW fd \in Fd, Close(p, fd)
  PROVE  Library' /\ Called'
<1>1. Library' /\ OthersStay(p)
  <2>1. CASE open_files_flag[p] = -1 \/ Files(p)[fd].inum = -1
    BY <2>1, FilesShaped, VectorKeeps DEF IInv, Close, Vectored, OthersStay
  <2>2. CASE ~(open_files_flag[p] = -1 \/ Files(p)[fd].inum = -1)
    <3> DEFINE closed == [open_files[p] EXCEPT ![fd] = NoFile]
    <3>1. Vector(p, closed, open_files_count[p] - 1)
      BY <2>2 DEF Close
    <3>2. /\ Shaped(open_files[p]) /\ open_files[p][fd].inum # -1
          /\ open_files_count[p] \in Nat /\ open_files_count[p] = Cardinality(OpenIn(open_files[p]))
      BY <2>2, FilesShaped DEF IInv
    <3>3. Shaped(closed) /\ Cardinality(OpenIn(closed)) = open_files_count[p] - 1
      BY <3>2, ClosedKeeps
    <3> HIDE DEF closed
    <3>4. open_files_count[p] - 1 \in Nat
      BY <3>3, FdFinite
    <3> QED
      BY <3>1, <3>3, <3>4, VectorKeeps DEF IInv, OthersStay
  <2> QED
    BY <2>1, <2>2
<1>2. Called'
  BY <1>1, LocalKeeps DEF IInv, Close, Calling
<1> QED
  BY <1>1, <1>2

LEMMA ReadOrWriteKeeps ==
  ASSUME IInv, NEW p \in Process, NEW c \in {"Read", "Write"}, NEW fd, NEW n,
         ReadOrWrite(p, c, fd, n)
  PROVE  Library' /\ Called'
<1>1. Library' /\ OthersStay(p) /\ open_files_flag'[p] = 0
  BY FilesShaped, VectorKeeps DEF IInv, ReadOrWrite, Vectored, OthersStay
<1>2. CASE Files(p)[fd].inum = -1
  BY <1>1, <1>2, LocalKeeps DEF IInv, ReadOrWrite, Calling
<1>3. CASE Files(p)[fd].inum # -1
  <2> DEFINE f == Files(p)[fd]
             m == [Message(c, p) EXCEPT !.inum = f.inum, !.pos = f.position, !.len = n, !.fd = fd]
  <2>1. m.call = c
    BY CallStays
  <2>2. Send(p, m)
    BY <1>3 DEF ReadOrWrite
  <2> HIDE DEF m
  <2> QED
    BY <1>1, <2>1, <2>2, SendKeeps DEF IInv, OpenCalls
<1> QED
  BY <1>1, <1>2, <1>3

LEMMA SeekKeeps ==
  ASSUME IInv, NEW p \in Process, NEW fd, NEW off, NEW whence, Seek(p, fd, off, whence)
  PROVE  Library' /\ Called'
<1>1. Library' /\ OthersStay(p) /\ open_files_flag'[p] = 0
  <2>1. PICK pos : \/ Vectored(p)
                   \/ Vector(p, Moved(Files(p), fd, pos), open_files_count[p])
    BY DEF Seek
  <2>2. CASE Vectored(p)
    BY <2>2, FilesShaped, VectorKeeps DEF IInv, Vectored, OthersStay
  <2>3. CASE Vector(p, Moved(Files(p), fd, pos), open_files_count[p])
    <3>1. /\ Shaped(Moved(Files(p), fd, pos)) /\ open_files_count[p] \in Nat
          /\ open_files_count[p] = Cardinality(OpenIn(Moved(Files(p), fd, pos)))
      BY FilesShaped, MovedKeeps DEF IInv
    <3> QED
      BY <2>3, <3>1, VectorKeeps DEF IInv, OthersStay
  <2> QED
    BY <2>1, <2>2, <2>3
<1>2. CASE Files(p)[fd].inum = -1 \/ whence # "SEEK_END"
  BY <1>1, <1>2, LocalKeeps DEF IInv, Seek, Calling
<1>3. CASE ~(Files(p)[fd].inum = -1 \/ whence # "SEEK_END")
  <2> DEFINE m == [Message("Seek", p) EXCEPT !.inum = Files(p)[fd].inum, !.fd = fd, !.off = off]
  <2>1. m.call = "Seek"
    BY CallStays
  <2>2. Send(p, m)
    BY <1>3 DEF Seek
  <2> HIDE DEF m
  <2> QED
    BY <1>1, <2>1, <2>2, SendKeeps DEF IInv, OpenCalls
<1> QED
  BY <1>1, <1>2, <1>3

\* The calls without descriptors.
LEMMA NamedKeeps ==
  ASSUME IInv, NEW p \in Process, NEW m, m.call \notin FdCalls, Send(p, m), UNCHANGED library
  PROVE  Library' /\ Called'
BY LibraryStays, SendKeeps DEF IInv, FdCalls, OpenCalls

LEMMA CallKeepsLibrary ==
  ASSUME IInv, NEW p \in Process, Call(p)
  PROVE  Library' /\ Called'
<1>1. ASSUME NEW path, Open(p, path) \/ Create(p, path) PROVE Library' /\ Called'
  BY <1>1, OpenOrCreateKeeps DEF Open, Create
<1>2. ASSUME NEW c, c \notin FdCalls, NEW path, NEW to, Named(p, c, path, to) PROVE Library' /\ Called'
  <2> DEFINE m == [Message(c, p) EXCEPT !.path = path, !.to = to]
  <2>1. m.call = c
    BY CallStays
  <2>2. Send(p, m) /\ UNCHANGED library
    BY <1>2 DEF Named
  <2> HIDE DEF m
  <2> QED
    BY <1>2, <2>1, <2>2, NamedKeeps
<1>3. ASSUME NEW path, NEW to,
             \/ Unlink(p, path) \/ ReadLink(p, path) \/ MkDir(p, path) \/ RmDir(p, path)
             \/ ChDir(p, path) \/ Stat(p, path) \/ Link(p, path, to) \/ SymLink(p, path, to)
      PROVE  Library' /\ Called'
  <2>1. PICK c \in {"Unlink", "ReadLink", "MkDir", "RmDir", "ChDir", "Stat", "Link", "SymLink"} :
          \E u, v : Named(p, c, u, v)
    BY <1>3 DEF Unlink, ReadLink, MkDir, RmDir, ChDir, Stat, Link, SymLink
  <2>2. c \notin FdCalls
    BY DEF FdCalls
  <2> QED
    BY <1>2, <2>1, <2>2
<1>4. ASSUME NEW c \in {"Sync", "Shutdown"}, SyncOrShutdown(p, c) PROVE Library' /\ Called'
  <2>1. c \notin FdCalls
    BY DEF FdCalls
  <2> QED
    BY <1>4, <2>1, CallStays, NamedKeeps DEF SyncOrShutdown
<1>5. CASE Exit(p)
  <2>1. Library' /\ OthersStay(p)
    BY <1>5, LibraryStays DEF IInv, Exit, library
  <2>2. Called'
    BY <1>5, <2>1, ReadyKeeps DEF IInv, Exit, Called
  <2> QED
    BY <2>1, <2>2
<1>6. ASSUME NEW fd \in Fd, Close(p, fd) PROVE Library' /\ Called'
  BY <1>6, CloseKeeps
<1>7. ASSUME NEW fd, NEW n, Read(p, fd, n) \/ Write(p, fd, n) PROVE Library' /\ Called'
  BY <1>7, ReadOrWriteKeeps DEF Read, Write
<1>8. ASSUME NEW fd, NEW off, NEW w, Seek(p, fd, off, w) PROVE Library' /\ Called'
  BY <1>8, SeekKeeps
<1>9. Sync(p) \/ Shutdown(p) => (Library' /\ Called')
  BY <1>4 DEF Sync, Shutdown
<1> QED
  BY <1>1, <1>3, <1>5, <1>6, <1>7, <1>8, <1>9 DEF Call

-----------------------------------------------------------------------------
(* The queue.                                                              *)

\* Nothing happens to the queue and to what waits in it.
LEMMA WaitingStay ==
  ASSUME Queued, queue' = queue, server' = server,
         NEW p \in Process, pc[p] # "sent", \A q \in Process \ {p} : pc'[q] = pc[q]
  PROVE  Queued'
<1>1. \A k \in DOMAIN queue : queue[k] \in Process
  BY DEF Queued
<1>2. \A k \in DOMAIN queue : pc'[queue[k]] = "sent"
  BY <1>1 DEF Queued
<1> QED
  BY <1>2 DEF Queued

LEMMA SendQueues ==
  ASSUME Queued, pc = [q \in Process |-> pc[q]], NEW p \in Process, pc[p] = "ready", NEW m, Send(p, m)
  PROVE  Queued'
<1>1. /\ server' = server /\ pc'[p] = "sent" /\ \A q \in Process \ {p} : pc'[q] = pc[q]
      /\ queue' = IF server = "up" THEN Append(queue, p) ELSE queue
  BY DEF Send
<1>2. CASE server # "up"
  BY <1>1, <1>2, WaitingStay
<1>3. CASE server = "up"
  <2>1. queue \in Seq(Process) /\ queue' = Append(queue, p)
    BY <1>1, <1>3 DEF Queued
  <2>2. queue' \in Seq(Process)
    BY <2>1
  <2>3. \A k \in DOMAIN queue' :
          \/ k \in DOMAIN queue /\ queue'[k] = queue[k] /\ queue[k] \in Process
          \/ k = Len(queue) + 1 /\ queue'[k] = p
    BY <2>1
  <2>4. \A k \in DOMAIN queue : queue[k] # p
    BY DEF Queued
  <2>5. \A k, l \in DOMAIN queue' :
          pc'[queue'[k]] = "sent" /\ (queue'[k] = queue'[l] => k = l)
    BY <1>1, <2>3, <2>4 DEF Queued
  <2> QED
    BY <1>1, <1>3, <2>2, <2>5 DEF Queued
<1> QED
  BY <1>2, <1>3

\* A process that returns does not wait in the queue.
LEMMA ReturnQueues ==
  ASSUME Queued, pc = [q \in Process |-> pc[q]], NEW p \in Process, Return(p),
         pc[p] = "sent" => server # "up"
  PROVE  Queued'
<1>1. queue' = queue /\ server' = server /\ \A q \in Process \ {p} : pc'[q] = pc[q]
  BY DEF Return
<1>2. CASE pc[p] # "sent"
  BY <1>1, <1>2, WaitingStay
<1>3. CASE server # "up"
  BY <1>1, <1>3 DEF Queued
<1> QED
  BY <1>2, <1>3

LEMMA CallQueues ==
  ASSUME IInv, NEW p \in Process, Call(p)
  PROVE  Queued'
<1>1. /\ pc[p] = "ready"
      /\ (\E m : Send(p, m)) \/ Local \/ Exit(p)
  BY Zenon DEF Call, Open, Create, OpenOrCreate, Close, Read, Write, ReadOrWrite, Seek, Unlink, ReadLink,
         RmDir, ChDir, Stat, Link, SymLink, MkDir, Named, Sync, Shutdown, SyncOrShutdown, Exit, Calling
<1>2. pc = [q \in Process |-> pc[q]]
  BY DEF IInv, Called
<1>3. CASE \E m : Send(p, m)
  BY <1>1, <1>2, <1>3, SendQueues DEF IInv
<1>4. CASE Local
  BY <1>1, <1>4, WaitingStay DEF IInv, Local
<1>5. CASE Exit(p)
  <2>1. queue' = queue /\ server' = server /\ \A q \in Process \ {p} : pc'[q] = pc[q]
    BY <1>2, <1>5 DEF Exit
  <2> QED
    BY <1>1, <2>1, WaitingStay DEF IInv
<1> QED
  BY <1>1, <1>3, <1>4, <1>5

LEMMA CallKeeps ==
  ASSUME IInv, NEW p \in Process, Call(p)
  PROVE  IInv'
BY CallKeepsLibrary, CallQueues DEF IInv

-----------------------------------------------------------------------------
(* The server, and what is behind Send.                                    *)

\* The first message leaves the queue: its process is not there any more.
LEMMA ReceiveQueues ==
  ASSUME Queued, queue # << >>, NEW p, p = Head(queue),
         queue' = Tail(queue) \/ queue' = << >>, server' # "up" => queue' = << >>,
         \A q \in Process \ {p} : pc'[q] = pc[q]
  PROVE  Queued' /\ p \in Process /\ pc[p] = "sent"
<1>1. queue \in Seq(Process) /\ Len(queue) \in Nat \ {0} /\ p = queue[1]
  BY DEF Queued
<1>2. p \in Process /\ pc[p] = "sent"
  BY <1>1 DEF Queued
<1>3. CASE queue' = << >>
  BY <1>2, <1>3 DEF Queued
<1>4. CASE queue' = Tail(queue)
  <2>1. queue' \in Seq(Process)
    BY <1>1, <1>4
  <2>2. \A k \in DOMAIN queue' :
          k \in Nat /\ k + 1 \in DOMAIN queue /\ queue'[k] = queue[k + 1] /\ k + 1 # 1
    BY <1>1, <1>4
  <2>3. \A k \in DOMAIN queue' : queue'[k] \in Process \ {p} /\ pc[queue'[k]] = "sent"
    BY <1>1, <2>2 DEF Queued
  <2>4. \A k, l \in DOMAIN queue' : queue'[k] = queue'[l] => k = l
    BY <2>2 DEF Queued
  <2> QED
    BY <1>2, <2>1, <2>3, <2>4 DEF Queued
<1> QED
  BY <1>2, <1>3, <1>4

\* The server touches no descriptors; a call that it answers is still the same.
LEMMA ServeKeeps ==
  ASSUME IInv, Serve
  PROVE  IInv'
<1> DEFINE p == Head(queue)
<1>1. UNCHANGED library /\ msg' = msg
  BY DEF Serve, library
<1>2. Library' /\ \A q \in Process : OthersStay(q)
  BY <1>1, LibraryStays DEF IInv
<1>3. PICK s : pc' = [pc EXCEPT ![p] = s] /\ s \in {pc[p], "replied"}
  BY DEF Serve
<1>4. /\ queue # << >> /\ queue' = (IF server' = "up" THEN Tail(queue) ELSE << >>)
  BY DEF Serve, Receive
<1>5. pc = [q \in Process |-> pc[q]] /\ msg = [q \in Process |-> msg[q]] /\ \A q \in Process : CallOf(q)
  BY DEF IInv, Called
<1>6. pc' = [q \in Process |-> pc'[q]] /\ \A q \in Process \ {p} : pc'[q] = pc[q]
  BY <1>3, <1>5
<1> HIDE DEF p
<1>7. Queued' /\ p \in Process /\ pc[p] = "sent"
  BY <1>4, <1>6, ReceiveQueues DEF IInv, p
<1>8. \A q \in Process :
        open_files_flag'[q] = open_files_flag[q] /\ open_files_count'[q] = open_files_count[q]
  BY <1>1 DEF library
<1>9. \A q \in Process : pc'[q] \in {"sent", "replied"} => pc[q] \in {"sent", "replied"}
  BY <1>6, <1>7
<1>10. \A q \in Process : CallOf(q)'
  BY <1>1, <1>5, <1>8, <1>9 DEF CallOf
<1> QED
  BY <1>1, <1>2, <1>5, <1>6, <1>7, <1>10 DEF IInv, Called

LEMMA NobodyLeftKeeps ==
  ASSUME IInv, NobodyLeft
  PROVE  IInv'
<1>1. UNCHANGED library /\ UNCHANGED <<pc, msg, queue>> /\ \A p \in Process : pc[p] = "gone"
  BY DEF NobodyLeft
<1>2. Library' /\ \A q \in Process : OthersStay(q)
  BY <1>1, LibraryStays DEF IInv
<1>3. Called'
  BY <1>1 DEF IInv, Called, CallOf
<1>4. queue = << >>
  <2>1. \A k \in DOMAIN queue : queue[k] \in Process /\ pc[queue[k]] = "sent"
    BY DEF IInv, Queued
  <2>2. DOMAIN queue = {}
    BY <1>1, <2>1
  <2> QED
    BY <2>2 DEF IInv, Queued
<1> QED
  BY <1>1, <1>2, <1>3, <1>4 DEF IInv, Queued

\* A process that returns, once its descriptors are in order.
LEMMA ReturnKeepsAll ==
  ASSUME IInv, NEW p \in Process, Return(p), Library', OthersStay(p),
         pc[p] = "sent" => server # "up"
  PROVE  IInv'
BY ReturnKeeps, ReturnQueues DEF IInv, Called

LEMMA ReturnsKeep ==
  ASSUME IInv, NEW p \in Process, Returns(p)
  PROVE  IInv'
<1>1. Return(p) /\ (pc[p] = "sent" => server # "up")
  BY DEF Returns, SendFails, OpenReturns, ReadReturns, SeekReturns, ChDirReturns, OtherReturns
<1>2. CallOf(p) /\ open_files_count[p] \in Nat
  BY DEF IInv, Library, Called
<1>3. CASE SendFails(p) \/ OtherReturns(p)
  BY <1>1, <1>3, LibraryStays, ReturnKeepsAll DEF IInv, SendFails, OtherReturns
<1>4. CASE OpenReturns(p)
  <2>1. CASE UNCHANGED library
    BY <1>1, <2>1, LibraryStays, ReturnKeepsAll DEF IInv
  <2>2. CASE ~UNCHANGED library
    <3> DEFINE opened(fd) == [open_files[p] EXCEPT ![fd].inum = reply[p]]
    <3>1. PICK fd \in FreeFds(p) :
            reply[p] # ERROR /\ Vector(p, opened(fd), open_files_count[p] + 1)
      BY <1>4, <2>2 DEF OpenReturns
    <3>2. fd \in Fd /\ open_files[p][fd].inum = -1 /\ reply[p] # -1
      BY <3>1 DEF FreeFds, ERROR
    <3>3. /\ Shaped(open_files[p])
          /\ open_files_count[p] = Cardinality(OpenIn(open_files[p]))
      BY <1>2, <1>4, FilesShaped DEF IInv, CallOf, OpenReturns, FdCalls
    <3>4. Shaped(opened(fd)) /\ Cardinality(OpenIn(opened(fd))) = open_files_count[p] + 1
      BY <3>2, <3>3, OpenedKeeps, Z3
    <3> HIDE DEF opened
    <3>5. open_files_count[p] + 1 \in Nat
      BY <1>2
    <3>6. Library' /\ OthersStay(p)
      BY <3>1, <3>4, <3>5, VectorKeeps DEF IInv, OthersStay
    <3> QED
      BY <1>1, <3>6, ReturnKeepsAll
  <2> QED
    BY <2>1, <2>2
<1>5. CASE ReadReturns(p)
  <2> DEFINE pos   == open_files[p][msg[p].fd].position + reply[p]
             moved == [open_files[p] EXCEPT ![msg[p].fd].position = pos]
  <2>1. Vector(p, moved, open_files_count[p])
    BY <1>5 DEF ReadReturns
  <2>2. Shaped(open_files[p]) /\ open_files_count[p] = Cardinality(OpenIn(open_files[p]))
    BY <1>2, <1>5, FilesShaped DEF IInv, CallOf, ReadReturns, FdCalls
  <2>3. Shaped(moved) /\ OpenIn(moved) = OpenIn(open_files[p])
    <3> HIDE DEF pos
    <3> QED
      BY <2>2, PositionKeeps
  <2> HIDE DEF moved
  <2>4. Library' /\ OthersStay(p)
    BY <1>2, <2>1, <2>2, <2>3, VectorKeeps DEF IInv, OthersStay
  <2> QED
    BY <1>1, <2>4, ReturnKeepsAll
<1>6. CASE SeekReturns(p)
  <2> DEFINE moved == Moved(open_files[p], msg[p].fd, reply[p] + msg[p].off)
  <2>1. Vector(p, moved, open_files_count[p])
    BY <1>6 DEF SeekReturns
  <2>2. Shaped(open_files[p]) /\ open_files_count[p] = Cardinality(OpenIn(open_files[p]))
    BY <1>2, <1>6, FilesShaped DEF IInv, CallOf, SeekReturns, FdCalls
  <2>3. Shaped(moved) /\ OpenIn(moved) = OpenIn(open_files[p])
    BY <2>2, MovedKeeps
  <2> HIDE DEF moved
  <2>4. Library' /\ OthersStay(p)
    BY <1>2, <2>1, <2>2, <2>3, VectorKeeps DEF IInv, OthersStay
  <2> QED
    BY <1>1, <2>4, ReturnKeepsAll
<1>7. CASE ChDirReturns(p)
  <2>1. UNCHANGED <<open_files, open_files_count, open_files_flag>>
    BY <1>7 DEF ChDirReturns
  <2>2. Library' /\ OthersStay(p)
    BY <2>1 DEF IInv, Library, LibraryOf, OthersStay
  <2> QED
    BY <1>1, <2>2, ReturnKeepsAll
<1> QED
  BY <1>3, <1>4, <1>5, <1>6, <1>7 DEF Returns

-----------------------------------------------------------------------------
(* The theorems.                                                           *)

LEMMA StartsRight ==
  ASSUME Init
  PROVE  IInv
<1>1. Library
  BY DEF Init, Library, LibraryOf, Shaped
<1>2. Called
  BY DEF Init, Called, CallOf
<1>3. Queued
  BY DEF Init, Queued
<1> QED
  BY <1>1, <1>2, <1>3 DEF IInv

LEMMA StutterKeeps ==
  ASSUME IInv, UNCHANGED vars
  PROVE  IInv'
<1>1. UNCHANGED library /\ UNCHANGED <<pc, msg, queue, server>>
  BY DEF vars
<1>2. Library'
  BY <1>1, LibraryStays DEF IInv
<1>3. Called'
  BY <1>1 DEF IInv, Called, CallOf, library
<1>4. Queued'
  BY <1>1 DEF IInv, Queued
<1> QED
  BY <1>2, <1>3, <1>4 DEF IInv

\* The vector and its count agree, a call on its way to the server or back has
\* found the vector as it needs it, and the queue holds what waits in Send, once
\* each: at any time, for any number of clients and of descriptors.
THEOREM Invariance == Spec => []IInv
<1>1. Init => IInv
  BY StartsRight
<1>2. IInv /\ [Next]_vars => IInv'
  BY CallKeeps, ServeKeeps, NobodyLeftKeeps, ReturnsKeep, StutterKeeps DEF Next
<1> QED
  BY <1>1, <1>2, PTL DEF Spec

\* open_files_count is the number of open descriptors, through failed calls and a
\* server that dies (iolib.c:49-94, 96-119).
THEOREM CountStaysRight == Spec => []CountRight
<1>1. IInv => CountRight
  BY DEF IInv, Library, LibraryOf, CountRight, Opened, OpenIn
<1> QED
  BY <1>1, Invariance, PTL

\* When the server has opened or created a file there is a descriptor for it: the
\* count that Open and Create look at before Send is right behind it (iolib.c:49,
\* 79-94).
THEOREM SlotIsThere == Spec => []SlotForReply
<1>1. IInv => SlotForReply
  <2> SUFFICES ASSUME IInv, NEW p \in Process, pc[p] = "replied", msg[p].call \in OpenCalls
               PROVE  FreeFds(p) # {}
    BY DEF SlotForReply, OpenCalls
  <2>1. /\ open_files_flag[p] # -1 /\ open_files_count[p] # MAX_OPEN_FILES
        /\ open_files_count[p] = Cardinality(OpenIn(open_files[p]))
    BY DEF IInv, Library, LibraryOf, Called, CallOf, OpenCalls, FdCalls
  <2>2. OpenIn(open_files[p]) # Fd
    BY <2>1, FdFinite
  <2> QED
    BY <2>2 DEF OpenIn, FreeFds
<1> QED
  BY <1>1, Invariance, PTL
=============================================================================
