---------------------------- MODULE YfsIolibTree ----------------------------
(***************************************************************************)
(* Clients and the name space: what a client remembers of the tree stays   *)
(* true while others change it.  As in YfsDirProofs the disks are sound    *)
(* and the paths end in a name that the stack does not happen to hold.     *)
(***************************************************************************)
EXTENDS YfsIolibProofs, YfsTreeProofs

\* The disks and the paths.
SoundImages == \A t \in Images : Sound(t)
NamedPaths  == \A p \in Paths, junk \in Residue : HasName(p, junk)

-----------------------------------------------------------------------------
(* Messages and handlers.                                                  *)

\* The calls that reach the server.
Sent == Calls \ {"Close", "Exit"}

\* What the handlers rely on in a message.  The inode numbers may be of inodes
\* that are gone.
MessageOf(m) ==
  /\ m.call \in Calls /\ m.path \in Path /\ m.to \in Path /\ m.cwd \in Inode /\ m.inum \in Inode
  /\ m.pos \in Int /\ m.len \in Nat /\ m.off \in Int
  /\ m.call = "Unlink" => \A junk \in Residue : HasName(m.path, junk)

\* A handler may make directories and never takes one away.
Follows(t, u) ==
  Sound(u) /\ \A i \in Inode : t.type[i] = INODE_DIRECTORY => u.type[i] = INODE_DIRECTORY

LEMMA FollowsItself ==
  ASSUME NEW t, Sound(t)
  PROVE  Follows(t, t)
BY DEF Follows

LEMMA AddsFollows ==
  ASSUME NEW t, Sound(t), NEW r, Adds(t, r)
  PROVE  Follows(t, r.tree) /\ r.res \in Int
<1>1. Sound(r.tree) /\ Kept(t, r.tree) /\ r.res \in Result
  BY DEF Adds
<1>2. \A i \in Inode : t.type[i] = INODE_DIRECTORY => r.tree.type[i] = INODE_DIRECTORY
  BY <1>1 DEF Kept, INODE_DIRECTORY, INODE_FREE
<1>3. r.res \in Int
  BY <1>1, InodesAre DEF Result, ERROR, LOST
<1> QED
  BY <1>1, <1>2, <1>3 DEF Follows

LEMMA HandlersAre ==
  ASSUME NEW t, NEW m, NEW junk, NEW room, NEW zero
  PROVE  LET r == MessageHandler(t, m, junk, room, zero) IN
         /\ m.call = "Open"     => r = OpenHandler(t, m.path, m.cwd)
         /\ m.call = "Create"   => r = CreateHandler(t, m.path, m.cwd, junk)
         /\ m.call = "Read"     => r = ReadHandler(t, m.inum, m.pos, m.len)
         /\ m.call = "Write"    => r = WriteHandler(t, m.inum, m.pos, m.len, room, zero)
         /\ m.call = "Seek"     => r = SeekHandler(t, m.inum)
         /\ m.call = "Link"     => r = LinkHandler(t, m.path, m.to, m.cwd, junk)
         /\ m.call = "Unlink"   => r = UnlinkHandler(t, m.path, m.cwd, junk)
         /\ m.call = "SymLink"  => r = SymLinkHandler(t, m.to, m.cwd, junk)
         /\ m.call = "ReadLink" => r = ReadLinkHandler(t, m.path, m.cwd, junk)
         /\ m.call = "MkDir"    => r = MkDirHandler(t, m.path, m.cwd, junk)
         /\ m.call = "RmDir"    => r = RmDirHandler(t, m.path, m.cwd)
         /\ m.call = "ChDir"    => r = ChDirHandler(t, m.path, m.cwd)
         /\ m.call = "Stat"     => r = StatHandler(t, m.path, m.cwd)
         /\ m.call \in {"Sync", "Shutdown"} => r = Reply(t, 0)
BY DEF MessageHandler

\* The replies of Read and Write.
LEMMA ReadMoves ==
  ASSUME NEW t, Sound(t), NEW i \in Inode, NEW p \in Int, NEW n \in Nat
  PROVE  ReadHandler(t, i, p, n).tree = t /\ ReadHandler(t, i, p, n).res \in Int
<1>1. Len(t.ents[i]) \in Nat
  BY EntriesAre DEF Sound
<1> QED
  BY <1>1 DEF ReadHandler, Reply, ERROR

LEMMA LargerOf ==
  ASSUME NEW a \in Int, NEW b \in Int
  PROVE  Max({a, b}) \in Int
<1>1. \E m \in {a, b} : \A k \in {a, b} : m >= k
  OBVIOUS
<1>2. Max({a, b}) \in {a, b}
  BY <1>1 DEF Max
<1> QED
  BY <1>2

LEMMA WriteMoves ==
  ASSUME NEW t, Sound(t), NEW i \in Inode, NEW p \in Int, NEW n \in Nat, NEW room, NEW zero
  PROVE  WriteHandler(t, i, p, n, room, zero).res \in Int
<1> DEFINE m    == Len(t.ents[i])
           size == IF room /\ p + n > BLOCK_ENTRIES * ((m \div BLOCK_ENTRIES) + 1) THEN p + n ELSE m
           full == (size + BLOCK_ENTRIES - 1) \div BLOCK_ENTRIES
           last == BLOCK_ENTRIES * Max({1, full})
           end  == IF p >= size THEN p ELSE IF p + n < last THEN p + n ELSE last
<1>1. m \in Nat
  BY EntriesAre DEF Sound
<1>2. size \in Int
  BY <1>1
<1>3. full \in Int
  <2> HIDE DEF size
  <2> QED
    BY <1>2, Bounds
<1>4. Max({1, full}) \in Int
  <2> HIDE DEF full
  <2> QED
    BY <1>3, LargerOf
<1>5. last \in Int
  <2> DEFINE big == Max({1, full})
  <2> HIDE DEF big
  <2>1. BLOCK_ENTRIES * big \in Int
    BY <1>4, Bounds DEF big
  <2> QED
    BY <2>1 DEF big
<1>6. end - p \in Int
  <2> HIDE DEF last, size
  <2> QED
    BY <1>2, <1>5
<1>7. WriteHandler(t, i, p, n, room, zero).res \in {ERROR, LOST, end - p}
  BY DEF WriteHandler, Reply
<1> HIDE DEF end
<1> QED
  BY <1>6, <1>7 DEF ERROR, LOST

\* What the server makes of a message, and the replies that a client remembers.
LEMMA HandlerFollows ==
  ASSUME NEW t, Sound(t), NEW m, MessageOf(m), m.call \in Sent,
         NEW junk \in Residue, NEW room, NEW zero,
         NEW r, r = MessageHandler(t, m, junk, room, zero)
  PROVE  /\ Follows(t, r.tree) /\ r.res \in Int
         /\ m.call \in OpenCalls => r.res \in Result
         /\ m.call = "ChDir" => r.res \in Dirs(r.tree) \union {ERROR, LOST}
<1> DEFINE Right == Follows(t, r.tree) /\ r.res \in Int
<1>1. /\ m.path \in Path /\ m.to \in Path /\ m.cwd \in Inode /\ m.inum \in Inode
      /\ m.pos \in Int /\ m.len \in Nat
  BY DEF MessageOf
<1>2. Result \subseteq Int
  BY InodesAre DEF Result, ERROR, LOST
<1>3. r.tree = t => Follows(t, r.tree)
  BY FollowsItself
<1>4. t \in TreeType
  BY DEF Sound
<1>5. CASE m.call = "Open"
  <2>1. r.tree = t /\ r.res = resolvePath(t, m.path, m.cwd)
    <3>1. r = OpenHandler(t, m.path, m.cwd)
      BY <1>5, HandlersAre
    <3> QED
      BY <3>1 DEF OpenHandler, Reply
  <2>2. resolvePath(t, m.path, m.cwd) \in Result
    BY <1>1, <1>4, ResolveInRange
  <2>3. Right /\ r.res \in Result
    BY <1>2, <1>3, <2>1, <2>2
  <2> QED
    BY <1>5, <2>3
<1>6. CASE m.call = "Create"
  <2>1. Adds(t, r)
    BY <1>1, <1>6, HandlersAre, CreateAdds
  <2>2. Right /\ r.res \in Result
    BY <2>1, AddsFollows DEF Adds
  <2> QED
    BY <1>6, <2>2
<1>7. CASE m.call = "Read"
  <2>1. Right
    BY <1>1, <1>3, <1>7, HandlersAre, ReadMoves
  <2> QED
    BY <1>7, <2>1 DEF OpenCalls
<1>8. CASE m.call = "Write"
  <2>1. r = WriteHandler(t, m.inum, m.pos, m.len, room, zero)
    BY <1>8, HandlersAre
  <2>2. Sound(r.tree) /\ r.tree.type = t.type
    BY <1>1, <2>1, WriteSound
  <2>3. r.res \in Int
    BY <1>1, <2>1, WriteMoves
  <2>4. Right
    BY <2>2, <2>3 DEF Follows
  <2> QED
    BY <1>8, <2>4 DEF OpenCalls
<1>9. CASE m.call = "Seek"
  <2>1. r.tree = t /\ (r.res = LOST \/ r.res = Len(t.ents[m.inum]))
    BY <1>9, HandlersAre DEF SeekHandler, Reply
  <2>2. r.res \in Int
    BY <1>1, <1>4, <2>1, EntriesAre DEF LOST
  <2> QED
    BY <1>3, <1>9, <2>1, <2>2 DEF OpenCalls
<1>10. CASE m.call \in {"Link", "SymLink", "MkDir"}
  <2>1. Adds(t, r)
    BY <1>1, <1>10, HandlersAre, LinkAdds, SymLinkAdds, MkDirAdds
  <2>2. Right
    BY <2>1, AddsFollows
  <2> QED
    BY <1>10, <2>2 DEF OpenCalls
<1>11. CASE m.call = "Unlink"
  <2>1. r = UnlinkHandler(t, m.path, m.cwd, junk) /\ HasName(m.path, junk)
    BY <1>11, HandlersAre DEF MessageOf
  <2>2. /\ Sound(r.tree) /\ r.res \in Result
        /\ \A j \in Inode : t.type[j] = INODE_DIRECTORY => r.tree.type[j] = INODE_DIRECTORY
    BY <1>1, <2>1, UnlinkSound
  <2>3. Right
    BY <1>2, <2>2 DEF Follows
  <2> QED
    BY <1>11, <2>3 DEF OpenCalls
<1>12. CASE m.call = "ReadLink"
  <2> DEFINE d == getParentInum(t, m.path, m.cwd)
             i == findInumInDir(t, d, getFilename(m.path))
  <2>1. \/ r.tree = t /\ r.res \in {ERROR, LOST}
        \/ ~ (d < 0) /\ ~ (i < 0) /\ r.tree = t /\ r.res = Len(t.ents[i])
    BY <1>12, HandlersAre DEF ReadLinkHandler, Reply
  <2>2. d \in Result
    BY <1>1, <1>4, ParentInRange
  <2> HIDE DEF d
  <2>3. ~ (d < 0) => d \in Inode
    BY <2>2 DEF Result, ERROR, LOST
  <2>4. d \in Inode => i \in Inode \union {ERROR}
    BY <1>4, FindIs
  <2> HIDE DEF i
  <2>5. r.res \in Int
    BY <1>4, <2>1, <2>3, <2>4, EntriesAre DEF ERROR, LOST
  <2> QED
    BY <1>3, <1>12, <2>1, <2>5 DEF OpenCalls
<1>13. CASE m.call = "RmDir"
  <2>1. r.tree = t /\ r.res = ERROR
    BY <1>13, HandlersAre DEF RmDirHandler, Reply
  <2> QED
    BY <1>3, <1>13, <2>1 DEF OpenCalls, ERROR
<1>14. CASE m.call = "ChDir"
  <2>1. r.tree = t /\ r.res \in Dirs(t) \union {ERROR, LOST}
    BY <1>1, <1>14, HandlersAre, ChDirIs
  <2>2. r.res \in Int
    BY <2>1, InodesAre DEF Dirs, ERROR, LOST
  <2> QED
    BY <1>3, <1>14, <2>1, <2>2 DEF OpenCalls
<1>15. CASE m.call = "Stat"
  <2>1. r.tree = t /\ r.res \in {ERROR, LOST, 0}
    BY <1>15, HandlersAre DEF StatHandler, Reply
  <2>2. r.res \in Int
    BY <2>1 DEF ERROR, LOST
  <2> QED
    BY <1>3, <1>15, <2>1, <2>2 DEF OpenCalls
<1>16. CASE m.call \in {"Sync", "Shutdown"}
  <2>1. r.tree = t /\ r.res = 0
    BY <1>16, HandlersAre DEF Reply
  <2> QED
    BY <1>3, <1>16, <2>1 DEF OpenCalls
<1> QED
  BY <1>5, <1>6, <1>7, <1>8, <1>9, <1>10, <1>11, <1>12, <1>13, <1>14, <1>15, <1>16 DEF Sent, Calls

-----------------------------------------------------------------------------
(* The invariant.                                                          *)

Vectors == [Fd -> [inum : Inode \union {-1}, position : Int]]

\* What processes remember of the tree: descriptors may name any inode, current
\* directories name directories.
Remembered ==
  /\ open_files \in [Process -> Vectors]
  /\ proc_cur_dir \in [Process -> Inode] /\ CwdIsDirectory

\* What is on its way: an answer to Open or Create is an inode, and one to ChDir a
\* directory, then and when the process gets to see it.
AnswerOf(p) ==
  /\ pc[p] \in {"sent", "replied"} => msg[p].call \in Sent
  /\ pc[p] = "replied" =>
       /\ msg[p].call \in OpenCalls => reply[p] \in Inode \union {ERROR}
       /\ msg[p].call = "ChDir" => reply[p] \in Dirs(tree) \union {ERROR}

Answers ==
  /\ server \in {"up", "exited", "dead"}
  /\ pc \in [Process -> {"ready", "sent", "replied", "gone"}]
  /\ reply \in [Process -> Int]
  /\ \A p \in Process : MessageOf(msg[p]) /\ AnswerOf(p)

World == Sound(tree) /\ Remembered /\ Answers

-----------------------------------------------------------------------------
(* Descriptors.                                                            *)

LEMMA FilesTyped ==
  ASSUME Remembered, NEW p \in Process
  PROVE  Files(p) \in Vectors
BY DEF Remembered, Files, Vectors, NoFile

LEMMA PositionTyped ==
  ASSUME NEW files \in Vectors, NEW fd, NEW pos \in Int
  PROVE  [files EXCEPT ![fd].position = pos] \in Vectors
<1> DEFINE moved == [files EXCEPT ![fd].position = pos]
<1>1. moved = [g \in Fd |-> IF g = fd THEN [files[g] EXCEPT !.position = pos] ELSE files[g]]
  BY DEF Vectors
<1>2. ASSUME NEW g \in Fd PROVE [files[g] EXCEPT !.position = pos] \in [inum : Inode \union {-1}, position : Int]
  <2>1. files[g] \in [inum : Inode \union {-1}, position : Int]
    BY DEF Vectors
  <2>2. PICK f : f = files[g]
    OBVIOUS
  <2>3. [f EXCEPT !.position = pos] = [inum |-> f.inum, position |-> pos]
    BY <2>1, <2>2
  <2> QED
    BY <2>1, <2>2, <2>3
<1>3. \A g \in Fd : files[g] \in [inum : Inode \union {-1}, position : Int]
  BY DEF Vectors
<1> QED
  BY <1>1, <1>2, <1>3 DEF Vectors

LEMMA MovedTyped ==
  ASSUME NEW files \in Vectors, NEW fd, NEW pos \in Int
  PROVE  Moved(files, fd, pos) \in Vectors
BY PositionTyped DEF Moved

LEMMA OpenedTyped ==
  ASSUME NEW files \in Vectors, NEW fd, NEW i \in Inode
  PROVE  [files EXCEPT ![fd].inum = i] \in Vectors
<1> DEFINE opened == [files EXCEPT ![fd].inum = i]
<1>1. opened = [g \in Fd |-> IF g = fd THEN [files[g] EXCEPT !.inum = i] ELSE files[g]]
  BY DEF Vectors
<1>2. ASSUME NEW g \in Fd PROVE [files[g] EXCEPT !.inum = i] \in [inum : Inode \union {-1}, position : Int]
  <2>1. files[g] \in [inum : Inode \union {-1}, position : Int]
    BY DEF Vectors
  <2>2. PICK f : f = files[g]
    OBVIOUS
  <2>3. [f EXCEPT !.inum = i] = [inum |-> i, position |-> f.position]
    BY <2>1, <2>2
  <2> QED
    BY <2>1, <2>2, <2>3
<1>3. \A g \in Fd : files[g] \in [inum : Inode \union {-1}, position : Int]
  BY DEF Vectors
<1> QED
  BY <1>1, <1>2, <1>3 DEF Vectors

LEMMA VectorTyped ==
  ASSUME Remembered, NEW p \in Process, NEW files \in Vectors, NEW count, Vector(p, files, count)
  PROVE  open_files' \in [Process -> Vectors] /\ proc_cur_dir' = proc_cur_dir
BY DEF Remembered, Vector

LEMMA VectoredTyped ==
  ASSUME Remembered, NEW p \in Process, Vectored(p)
  PROVE  open_files' \in [Process -> Vectors] /\ proc_cur_dir' = proc_cur_dir
BY FilesTyped, VectorTyped DEF Vectored

-----------------------------------------------------------------------------
(* Calls.                                                                  *)

\* A message as a call fills it.
Filled(m, p, c) ==
  /\ m.call = c /\ m.cwd = proc_cur_dir[p]
  /\ m.path \in Path /\ m.to \in Path /\ m.inum \in Inode
  /\ m.pos \in Int /\ m.len \in Nat /\ m.off \in Int

LEMMA FilledIs ==
  ASSUME Remembered, NEW p \in Process, NEW c \in Sent, NEW m, Filled(m, p, c),
         c = "Unlink" => \A junk \in Residue : HasName(m.path, junk)
  PROVE  MessageOf(m) /\ m.call \in Sent
BY DEF Remembered, Filled, MessageOf, Sent

\* What a call changes besides the vector.
Requests(p) ==
  \/ UNCHANGED <<msg, pc>>
  \/ UNCHANGED msg /\ pc' = [pc EXCEPT ![p] = "gone"]
  \/ \E m : /\ MessageOf(m) /\ m.call \in Sent
            /\ msg' = [msg EXCEPT ![p] = m] /\ pc' = [pc EXCEPT ![p] = "sent"]

Started(p) ==
  /\ open_files' \in [Process -> Vectors] /\ proc_cur_dir' = proc_cur_dir
  /\ UNCHANGED <<tree, server, reply>> /\ Requests(p)

LEMMA LocalCalls ==
  ASSUME NEW p, Local, open_files' \in [Process -> Vectors], proc_cur_dir' = proc_cur_dir
  PROVE  Started(p)
BY DEF Started, Local, Requests

LEMMA SendCalls ==
  ASSUME NEW p, NEW m, Send(p, m), MessageOf(m), m.call \in Sent,
         open_files' \in [Process -> Vectors], proc_cur_dir' = proc_cur_dir
  PROVE  Started(p)
BY DEF Started, Send, Requests

LEMMA OpenOrCreateCalls ==
  ASSUME Remembered, NEW p \in Process, NEW c \in OpenCalls, NEW path \in Path, OpenOrCreate(p, c, path)
  PROVE  Started(p)
<1>1. open_files' \in [Process -> Vectors] /\ proc_cur_dir' = proc_cur_dir
  BY VectoredTyped DEF OpenOrCreate
<1>2. CASE Local
  BY <1>1, <1>2, LocalCalls
<1>3. CASE ~ Local
  <2> DEFINE m == [Message(c, p) EXCEPT !.path = path]
  <2>1. Send(p, m)
    BY <1>3 DEF OpenOrCreate
  <2>2. NoPath \in Path /\ c \in Sent /\ c # "Unlink"
    BY DEF NoPath, Path, Calls, Sent, OpenCalls
  <2>3. Filled(m, p, c)
    BY <2>2, InodesAre DEF Message, Filled
  <2> HIDE DEF m
  <2>4. MessageOf(m) /\ m.call \in Sent
    BY <2>2, <2>3, FilledIs
  <2> QED
    BY <1>1, <2>1, <2>4, SendCalls
<1> QED
  BY <1>2, <1>3

LEMMA CloseCalls ==
  ASSUME Remembered, NEW p \in Process, NEW fd \in Fd, Close(p, fd)
  PROVE  Started(p)
<1>1. open_files[p] \in Vectors
  BY DEF Remembered
<1>2. [open_files[p] EXCEPT ![fd] = NoFile] \in Vectors
  BY <1>1 DEF Vectors, NoFile
<1>3. open_files' \in [Process -> Vectors] /\ proc_cur_dir' = proc_cur_dir
  BY <1>2, VectoredTyped, VectorTyped DEF Close
<1> QED
  BY <1>3, LocalCalls DEF Close

LEMMA ReadOrWriteCalls ==
  ASSUME Remembered, NEW p \in Process, NEW c \in {"Read", "Write"}, NEW fd \in Fd, NEW n \in Lengths,
         ReadOrWrite(p, c, fd, n)
  PROVE  Started(p)
<1>1. open_files' \in [Process -> Vectors] /\ proc_cur_dir' = proc_cur_dir
  BY VectoredTyped DEF ReadOrWrite
<1> DEFINE f == Files(p)[fd]
           m == [Message(c, p) EXCEPT !.inum = f.inum, !.pos = f.position, !.len = n, !.fd = fd]
<1>2. f.inum \in Inode \union {-1} /\ f.position \in Int
  BY FilesTyped DEF Vectors
<1>3. CASE Local
  BY <1>1, <1>3, LocalCalls
<1>4. CASE ~ Local
  <2>1. Send(p, m) /\ f.inum # -1
    BY <1>4 DEF ReadOrWrite
  <2>2. NoPath \in Path /\ n \in Nat /\ c \in Sent /\ c # "Unlink"
    BY IolibAssumption DEF NoPath, Path, Calls, Sent
  <2> HIDE DEF f
  <2>3. Filled(m, p, c)
    BY <1>2, <2>1, <2>2 DEF Message, Filled
  <2> HIDE DEF m
  <2>4. MessageOf(m) /\ m.call \in Sent
    BY <2>2, <2>3, FilledIs
  <2> QED
    BY <1>1, <2>1, <2>4, SendCalls
<1> QED
  BY <1>3, <1>4

LEMMA SeekCalls ==
  ASSUME Remembered, NEW p \in Process, NEW fd \in Fd, NEW off \in Offsets, NEW whence, Seek(p, fd, off, whence)
  PROVE  Started(p)
<1> DEFINE f == Files(p)[fd]
           m == [Message("Seek", p) EXCEPT !.inum = f.inum, !.fd = fd, !.off = off]
<1>1. f.inum \in Inode \union {-1} /\ f.position \in Int /\ off \in Int
  BY FilesTyped, IolibAssumption DEF Vectors
<1>2. open_files' \in [Process -> Vectors] /\ proc_cur_dir' = proc_cur_dir
  <2>1. \/ Vectored(p)
        \/ \E pos \in {f.position + off, off} : Vector(p, Moved(Files(p), fd, pos), open_files_count[p])
    BY DEF Seek
  <2>2. ASSUME NEW pos \in {f.position + off, off} PROVE Moved(Files(p), fd, pos) \in Vectors
    <3> HIDE DEF f
    <3>1. pos \in Int
      BY <1>1
    <3> QED
      BY <3>1, FilesTyped, MovedTyped
  <2> HIDE DEF f
  <2> QED
    BY <2>1, <2>2, VectoredTyped, VectorTyped
<1>3. CASE Local
  BY <1>2, <1>3, LocalCalls
<1>4. CASE ~ Local
  <2>1. Send(p, m) /\ f.inum # -1
    BY <1>4 DEF Seek
  <2>2. NoPath \in Path /\ "Seek" \in Sent /\ "Seek" # "Unlink"
    BY DEF NoPath, Path, Calls, Sent
  <2> HIDE DEF f
  <2>3. Filled(m, p, "Seek")
    BY <1>1, <2>1, <2>2 DEF Message, Filled
  <2> HIDE DEF m
  <2>4. MessageOf(m) /\ m.call \in Sent
    BY <2>2, <2>3, FilledIs
  <2> QED
    BY <1>2, <2>1, <2>4, SendCalls
<1> QED
  BY <1>3, <1>4

LEMMA NamedCalls ==
  ASSUME Remembered, NEW p \in Process, NEW c \in Sent, NEW path \in Path, NEW to \in Path,
         c = "Unlink" => \A junk \in Residue : HasName(path, junk), Named(p, c, path, to)
  PROVE  Started(p)
<1> DEFINE m == [Message(c, p) EXCEPT !.path = path, !.to = to]
<1>1. Filled(m, p, c) /\ m.path = path
  BY InodesAre DEF Message, Filled
<1> HIDE DEF m
<1>2. MessageOf(m) /\ m.call \in Sent
  BY <1>1, FilledIs
<1>3. Send(p, m) /\ open_files' = open_files /\ proc_cur_dir' = proc_cur_dir
  BY DEF Named, library, m
<1> QED
  BY <1>2, <1>3, SendCalls DEF Remembered

LEMMA CallCalls ==
  ASSUME NamedPaths, Remembered, NEW p \in Process, Call(p)
  PROVE  Started(p)
<1>1. Paths \subseteq Path /\ NoPath \in Path
  BY IolibAssumption DEF NoPath, Path
<1>2. ASSUME NEW path \in Paths, Open(p, path) \/ Create(p, path) PROVE Started(p)
  BY <1>1, <1>2, OpenOrCreateCalls DEF Open, Create, OpenCalls
<1>3. ASSUME NEW path \in Paths, Unlink(p, path) PROVE Started(p)
  <2>1. "Unlink" \in Sent /\ \A junk \in Residue : HasName(path, junk)
    BY DEF Sent, Calls, NamedPaths
  <2> QED
    BY <1>1, <1>3, <2>1, NamedCalls DEF Unlink
<1>4. ASSUME NEW path \in Paths, NEW to \in Paths,
             \/ ReadLink(p, path) \/ MkDir(p, path) \/ RmDir(p, path)
             \/ ChDir(p, path) \/ Stat(p, path) \/ Link(p, path, to) \/ SymLink(p, path, to)
      PROVE  Started(p)
  <2>1. PICK c \in {"ReadLink", "MkDir", "RmDir", "ChDir", "Stat", "Link", "SymLink"},
             from \in {path, ParentPath(path)}, dest \in {to, NoPath} :
          Named(p, c, from, dest)
    BY <1>4 DEF ReadLink, MkDir, RmDir, ChDir, Stat, Link, SymLink
  <2>2. c \in Sent /\ c # "Unlink"
    BY DEF Sent, Calls
  <2>3. from \in Path /\ dest \in Path
    BY <1>1, ParentIsPath
  <2> QED
    BY <2>1, <2>2, <2>3, NamedCalls
<1>5. ASSUME NEW c \in {"Sync", "Shutdown"}, SyncOrShutdown(p, c) PROVE Started(p)
  <2>1. Send(p, Message(c, p)) /\ open_files' = open_files /\ proc_cur_dir' = proc_cur_dir
    BY <1>5 DEF SyncOrShutdown, library
  <2>2. PICK m : m = Message(c, p)
    OBVIOUS
  <2>3. Filled(m, p, c)
    BY <1>1, <2>2, InodesAre DEF Message, Filled
  <2>4. c \in Sent /\ c # "Unlink"
    BY DEF Calls, Sent
  <2>5. MessageOf(m) /\ m.call \in Sent
    BY <2>3, <2>4, FilledIs
  <2> QED
    BY <2>1, <2>2, <2>5, SendCalls DEF Remembered
<1>6. CASE Exit(p)
  BY <1>6 DEF Exit, library, Started, Requests, Remembered
<1>7. ASSUME NEW fd \in Fd, Close(p, fd) PROVE Started(p)
  BY <1>7, CloseCalls
<1>8. ASSUME NEW fd \in Fd, NEW n \in Lengths, Read(p, fd, n) \/ Write(p, fd, n) PROVE Started(p)
  BY <1>8, ReadOrWriteCalls DEF Read, Write
<1>9. ASSUME NEW fd \in Fd, NEW off \in Offsets, NEW w, Seek(p, fd, off, w) PROVE Started(p)
  BY <1>9, SeekCalls
<1>10. Sync(p) \/ Shutdown(p) => Started(p)
  BY <1>5 DEF Sync, Shutdown
<1> QED
  BY <1>2, <1>3, <1>4, <1>6, <1>7, <1>8, <1>9, <1>10 DEF Call

LEMMA CallWorld ==
  ASSUME NamedPaths, Called, World, NEW p \in Process, Call(p)
  PROVE  World'
<1>1. Started(p)
  BY CallCalls DEF World
<1>2. Sound(tree)' /\ Remembered'
  BY <1>1 DEF Started, World, Remembered, CwdIsDirectory
<1>3. /\ server' = server /\ tree' = tree /\ reply' = reply /\ Requests(p)
      /\ Answers
  BY <1>1 DEF Started, World
<1>4. pc' \in [Process -> {"ready", "sent", "replied", "gone"}]
  BY <1>3 DEF Requests, Answers
<1>5. msg = [q \in Process |-> msg[q]]
  BY DEF Called
<1>6. ASSUME NEW q \in Process PROVE MessageOf(msg'[q]) /\ AnswerOf(q)'
  <2>1. MessageOf(msg[q]) /\ AnswerOf(q) /\ pc \in [Process -> {"ready", "sent", "replied", "gone"}]
    BY <1>3 DEF Answers
  <2>2. CASE UNCHANGED msg /\ (pc' = pc \/ pc' = [pc EXCEPT ![p] = "gone"])
    <3>1. msg'[q] = msg[q] /\ (pc'[q] = pc[q] \/ pc'[q] = "gone")
      BY <2>1, <2>2
    <3> QED
      BY <1>3, <2>1, <3>1 DEF AnswerOf
  <2>3. CASE \E m : /\ MessageOf(m) /\ m.call \in Sent
                    /\ msg' = [msg EXCEPT ![p] = m] /\ pc' = [pc EXCEPT ![p] = "sent"]
    <3>1. PICK m : /\ MessageOf(m) /\ m.call \in Sent
                   /\ msg' = [msg EXCEPT ![p] = m] /\ pc' = [pc EXCEPT ![p] = "sent"]
      BY <2>3
    <3>2. \/ q = p /\ pc'[q] = "sent" /\ msg'[q] = m
          \/ q # p /\ pc'[q] = pc[q] /\ msg'[q] = msg[q]
      BY <1>5, <2>1, <3>1
    <3> QED
      BY <1>3, <2>1, <3>1, <3>2 DEF AnswerOf
  <2> QED
    BY <1>3, <2>2, <2>3 DEF Requests
<1>7. Answers'
  BY <1>3, <1>4, <1>6 DEF Answers
<1> QED
  BY <1>2, <1>7 DEF World

-----------------------------------------------------------------------------
(* The server, and what is behind Send.                                    *)

LEMMA ServeWorld ==
  ASSUME IInv, World, Serve
  PROVE  World'
<1> DEFINE p == Head(queue)
<1>1. UNCHANGED <<open_files, proc_cur_dir, msg>>
  BY DEF Serve, library
<1>2. PICK junk \in Residue, room \in BOOLEAN, zero \in BOOLEAN :
      \E r \in {MessageHandler(tree, msg[p], junk, room, zero)} :
        /\ tree' = (IF r.res = LOST THEN tree ELSE r.tree)
        /\ server' = (IF r.res = LOST THEN "dead"
                      ELSE IF msg[p].call = "Shutdown" THEN "exited" ELSE server)
        /\ pc' = [pc EXCEPT ![p] = IF r.res = LOST THEN @ ELSE "replied"]
        /\ reply' = [reply EXCEPT ![p] = IF r.res = LOST THEN @ ELSE r.res]
  BY Zenon DEF Serve
<1>3. PICK r :
        /\ r = MessageHandler(tree, msg[p], junk, room, zero)
        /\ tree' = (IF r.res = LOST THEN tree ELSE r.tree)
        /\ server' \in {"up", "exited", "dead", server}
        /\ pc' = [pc EXCEPT ![p] = IF r.res = LOST THEN @ ELSE "replied"]
        /\ reply' = [reply EXCEPT ![p] = IF r.res = LOST THEN @ ELSE r.res]
  BY <1>2
<1>4. p \in Process /\ pc[p] = "sent"
  <2>1. queue # << >> /\ queue \in Seq(Process)
        /\ \A k \in DOMAIN queue : pc[queue[k]] = "sent"
    BY DEF Serve, Receive, IInv, Queued
  <2> QED
    BY <2>1
<1> HIDE DEF p
<1>5. /\ Sound(tree) /\ MessageOf(msg[p]) /\ msg[p].call \in Sent
      /\ pc \in [Process -> {"ready", "sent", "replied", "gone"}]
      /\ reply \in [Process -> Int]
  BY <1>4 DEF World, Answers, AnswerOf
<1>6. /\ Follows(tree, r.tree) /\ r.res \in Int
      /\ msg[p].call \in OpenCalls => r.res \in Result
      /\ msg[p].call = "ChDir" => r.res \in Dirs(r.tree) \union {ERROR, LOST}
  BY <1>3, <1>5, HandlerFollows
<1>7. Follows(tree, tree')
  BY <1>3, <1>5, <1>6, FollowsItself
<1>8. Remembered'
  <2>1. Remembered
    BY DEF World
  <2>2. \A q \in Process : tree'.type[proc_cur_dir'[q]] = INODE_DIRECTORY
    BY <1>1, <1>7, <2>1 DEF Remembered, CwdIsDirectory, Follows
  <2> QED
    BY <1>1, <2>1, <2>2 DEF Remembered, CwdIsDirectory
<1>9. Dirs(tree) \subseteq Dirs(tree')
  BY <1>7 DEF Follows, Dirs
<1>10. ASSUME NEW q \in Process PROVE AnswerOf(q)'
  <2>1. AnswerOf(q)
    BY DEF World, Answers
  <2>2. CASE q # p \/ r.res = LOST
    <3>1. pc'[q] = pc[q] /\ reply'[q] = reply[q]
      BY <1>3, <1>5, <2>2
    <3> QED
      BY <1>1, <1>9, <2>1, <3>1 DEF AnswerOf
  <2>3. CASE ~ (q # p \/ r.res = LOST)
    <3>1. pc'[q] = "replied" /\ reply'[q] = r.res /\ tree' = r.tree
      BY <1>3, <1>5, <2>3
    <3> QED
      BY <1>1, <1>5, <1>6, <2>3, <3>1 DEF AnswerOf, Result
  <2> QED
    BY <2>2, <2>3
<1>11. /\ pc' \in [Process -> {"ready", "sent", "replied", "gone"}]
       /\ reply' \in [Process -> Int]
  BY <1>3, <1>5, <1>6
<1>12. Answers'
  BY <1>1, <1>3, <1>10, <1>11 DEF World, Answers
<1> QED
  BY <1>7, <1>8, <1>12 DEF World, Follows

LEMMA NobodyLeftWorld ==
  ASSUME World, NobodyLeft
  PROVE  World'
BY DEF NobodyLeft, library, World, Remembered, CwdIsDirectory, Answers, AnswerOf

\* A process that returns with what it has learned.
LEMMA ReturnWorld ==
  ASSUME Called, World, NEW p \in Process, Return(p), Remembered'
  PROVE  World'
<1>1. /\ pc' = [pc EXCEPT ![p] = "ready"] /\ msg' = [msg EXCEPT ![p] = NoMessage]
      /\ reply' = [reply EXCEPT ![p] = 0] /\ tree' = tree /\ server' = server
  BY DEF Return
<1>2. Answers /\ msg = [q \in Process |-> msg[q]]
  BY DEF World, Called
<1>3. /\ pc' \in [Process -> {"ready", "sent", "replied", "gone"}]
      /\ reply' \in [Process -> Int]
  BY <1>1, <1>2 DEF Answers
<1>4. MessageOf(NoMessage)
  <2>1. NoPath \in Path
    BY DEF NoPath, Path
  <2> QED
    BY <2>1, InodesAre DEF MessageOf, NoMessage, Calls
<1>5. ASSUME NEW q \in Process PROVE MessageOf(msg'[q]) /\ AnswerOf(q)'
  <2>1. MessageOf(msg[q]) /\ AnswerOf(q)
    BY <1>2 DEF Answers
  <2>2. CASE q = p
    <3>1. pc'[q] = "ready" /\ msg'[q] = NoMessage
      BY <1>1, <1>2, <2>2 DEF Answers
    <3> QED
      BY <1>4, <3>1 DEF AnswerOf
  <2>3. CASE q # p
    <3>1. pc'[q] = pc[q] /\ msg'[q] = msg[q] /\ reply'[q] = reply[q]
      BY <1>1, <1>2, <2>3 DEF Answers
    <3> QED
      BY <1>1, <2>1, <3>1 DEF AnswerOf
  <2> QED
    BY <2>2, <2>3
<1>6. Answers'
  BY <1>1, <1>2, <1>3, <1>5 DEF Answers
<1> QED
  BY <1>1, <1>6 DEF World

LEMMA ReturnsWorld ==
  ASSUME IInv, World, NEW p \in Process, Returns(p)
  PROVE  World'
<1>1. Return(p) /\ Called /\ tree' = tree
  BY DEF IInv, Returns, SendFails, OpenReturns, ReadReturns, SeekReturns, ChDirReturns, OtherReturns, Return
<1>2. /\ Remembered /\ open_files[p] \in Vectors /\ reply[p] \in Int
      /\ MessageOf(msg[p]) /\ AnswerOf(p)
  BY DEF World, Remembered, Answers
<1>3. SUFFICES Remembered'
  BY <1>1, ReturnWorld
<1>4. ASSUME NEW files \in Vectors, NEW count, Vector(p, files, count) PROVE Remembered'
  <2>1. open_files' \in [Process -> Vectors] /\ proc_cur_dir' = proc_cur_dir
    BY <1>2, <1>4, VectorTyped
  <2> QED
    BY <1>1, <1>2, <2>1 DEF Remembered, CwdIsDirectory
<1>5. CASE UNCHANGED library
  BY <1>1, <1>2, <1>5 DEF library, Remembered, CwdIsDirectory
<1>6. CASE OpenReturns(p) /\ ~ UNCHANGED library
  <2>1. PICK fd \in FreeFds(p) :
          /\ reply[p] # ERROR
          /\ Vector(p, [open_files[p] EXCEPT ![fd].inum = reply[p]], open_files_count[p] + 1)
    BY <1>6 DEF OpenReturns
  <2>2. reply[p] \in Inode
    BY <1>2, <1>6, <2>1 DEF OpenReturns, AnswerOf, OpenCalls
  <2>3. [open_files[p] EXCEPT ![fd].inum = reply[p]] \in Vectors
    BY <1>2, <2>2, OpenedTyped
  <2> QED
    BY <1>4, <2>1, <2>3
<1>7. CASE ReadReturns(p)
  <2> DEFINE fd  == msg[p].fd
             pos == open_files[p][fd].position + reply[p]
  <2>1. Vector(p, [open_files[p] EXCEPT ![fd].position = @ + reply[p]], open_files_count[p])
    BY <1>7 DEF ReadReturns
  <2>2. CASE fd \in Fd
    <3>1. pos \in Int
      BY <1>2, <2>2 DEF Vectors
    <3>2. [open_files[p] EXCEPT ![fd].position = @ + reply[p]] = [open_files[p] EXCEPT ![fd].position = pos]
      OBVIOUS
    <3> HIDE DEF pos, fd
    <3>3. [open_files[p] EXCEPT ![fd].position = pos] \in Vectors
      BY <1>2, <3>1, PositionTyped
    <3> QED
      BY <1>4, <2>1, <3>2, <3>3
  <2>3. CASE fd \notin Fd
    <3> HIDE DEF pos, fd
    <3>1. [open_files[p] EXCEPT ![fd].position = @ + reply[p]] = open_files[p]
      BY <1>2, <2>3 DEF Vectors
    <3> QED
      BY <1>2, <1>4, <2>1, <3>1
  <2> QED
    BY <2>2, <2>3
<1>8. CASE SeekReturns(p)
  <2> DEFINE pos == reply[p] + msg[p].off
  <2>1. Vector(p, Moved(open_files[p], msg[p].fd, pos), open_files_count[p])
    BY <1>8 DEF SeekReturns
  <2>2. pos \in Int
    BY <1>2 DEF MessageOf
  <2> HIDE DEF pos
  <2>3. Moved(open_files[p], msg[p].fd, pos) \in Vectors
    BY <1>2, <2>2, MovedTyped
  <2> QED
    BY <1>4, <2>1, <2>3
<1>9. CASE ChDirReturns(p)
  <2>1. /\ proc_cur_dir' = [proc_cur_dir EXCEPT ![p] = IF reply[p] = ERROR THEN @ ELSE reply[p]]
        /\ open_files' = open_files
    BY <1>9 DEF ChDirReturns
  <2>2. reply[p] # ERROR => reply[p] \in Inode /\ tree.type[reply[p]] = INODE_DIRECTORY
    BY <1>2, <1>9 DEF ChDirReturns, AnswerOf, Dirs
  <2>3. proc_cur_dir \in [Process -> Inode] /\ \A q \in Process : tree.type[proc_cur_dir[q]] = INODE_DIRECTORY
    BY <1>2 DEF Remembered, CwdIsDirectory
  <2>4. /\ proc_cur_dir' \in [Process -> Inode]
        /\ \A q \in Process : tree.type[proc_cur_dir'[q]] = INODE_DIRECTORY
    BY <2>1, <2>2, <2>3
  <2> QED
    BY <1>1, <1>2, <2>1, <2>4 DEF Remembered, CwdIsDirectory
<1> QED
  BY <1>5, <1>6, <1>7, <1>8, <1>9 DEF Returns, SendFails, OtherReturns

-----------------------------------------------------------------------------
(* The theorems.                                                           *)

\* The tree stays sound; what clients remember of it, and answers on their way to
\* them, stay true while others change it.
THEOREM WorldStays ==
  ASSUME SoundImages, NamedPaths
  PROVE  Spec => [](IInv /\ World)
<1>1. Init => World
  <2> SUFFICES ASSUME Init PROVE World
    OBVIOUS
  <2>1. Sound(tree)
    BY DEF Init, SoundImages
  <2>2. Remembered
    <3>1. tree.type[ROOTINODE] = INODE_DIRECTORY
      BY <2>1 DEF Sound
    <3> QED
      BY <3>1, InodesAre DEF Init, Remembered, CwdIsDirectory, Vectors
  <2>3. Answers
    <3>1. NoPath \in Path
      BY DEF NoPath, Path
    <3>2. MessageOf(NoMessage)
      BY <3>1, InodesAre DEF MessageOf, NoMessage, Calls
    <3> QED
      BY <3>2 DEF Init, Answers, AnswerOf
  <2> QED
    BY <2>1, <2>2, <2>3 DEF World
<1>2. IInv /\ World /\ [Next]_vars => World'
  <2> SUFFICES ASSUME IInv, World, [Next]_vars PROVE World'
    OBVIOUS
  <2>1. CASE Serve
    BY <2>1, ServeWorld
  <2>2. CASE NobodyLeft
    BY <2>2, NobodyLeftWorld
  <2>3. ASSUME NEW p \in Process, Call(p) PROVE World'
    BY <2>3, CallWorld DEF IInv
  <2>4. ASSUME NEW p \in Process, Returns(p) PROVE World'
    BY <2>4, ReturnsWorld
  <2>5. CASE UNCHANGED vars
    BY <2>5 DEF vars, library, World, Remembered, CwdIsDirectory, Answers, AnswerOf
  <2> QED
    BY <2>1, <2>2, <2>3, <2>4, <2>5 DEF Next
<1>3. Spec => []IInv
  BY Invariance
<1> QED
  BY <1>1, <1>2, <1>3, PTL DEF Spec

\* The variables stay in their types, and the queue is right.
THEOREM TypeCorrect ==
  ASSUME SoundImages, NamedPaths
  PROVE  Spec => []TypeOK
<1>1. IInv /\ World => TypeOK
  <2> SUFFICES ASSUME IInv, World PROVE TypeOK
    OBVIOUS
  <2>1. tree \in TreeType /\ server \in {"up", "exited", "dead"}
    BY DEF World, Sound, Answers
  <2>2. /\ open_files \in [Process -> [Fd -> [inum : Inode \union {-1}, position : Int]]]
        /\ proc_cur_dir \in [Process -> Inode]
    BY DEF World, Remembered, Vectors
  <2>3. /\ pc \in [Process -> {"ready", "sent", "replied", "gone"}] /\ reply \in [Process -> Int]
        /\ \A p \in Process : msg[p].call \in Calls
    BY DEF World, Answers, MessageOf
  <2>4. open_files_flag \in [Process -> {-1, 0}]
    BY DEF IInv, Library
  <2>5. open_files_count \in [Process -> 0 .. MAX_OPEN_FILES]
    <3>1. ASSUME NEW p \in Process PROVE open_files_count[p] \in 0 .. MAX_OPEN_FILES
      <4>1. open_files_count[p] \in Nat /\ open_files_count[p] = Cardinality(OpenIn(Files(p)))
        BY FilesShaped DEF IInv
      <4>2. OpenIn(Files(p)) \subseteq Fd
        BY DEF OpenIn
      <4>3. Cardinality(OpenIn(Files(p))) <= MAX_OPEN_FILES
        BY <4>2, FdFinite, FS_Subset
      <4> QED
        BY <4>1, <4>3, IolibAssumption
    <3> QED
      BY <3>1 DEF IInv, Library
  <2>6. /\ server # "up" => queue = << >>
        /\ \A k, l \in DOMAIN queue : pc[queue[k]] = "sent" /\ (queue[k] = queue[l] => k = l)
    BY DEF IInv, Queued
  <2> QED
    BY <2>1, <2>2, <2>3, <2>4, <2>5, <2>6 DEF TypeOK
<1> QED
  BY <1>1, WorldStays, PTL

\* The current directory of a client stays a directory, whatever other clients
\* remove between its ChDir and its use (iolib.c:478-490, yfs.c:962-985).
THEOREM CwdStaysDirectory ==
  ASSUME SoundImages, NamedPaths
  PROVE  Spec => []CwdIsDirectory
<1>1. World => CwdIsDirectory
  BY DEF World, Remembered
<1> QED
  BY <1>1, WorldStays, PTL

\* A Write with the number of an inode that another client has freed leaves
\* nothing in it (yfs.c:606-609).
THEOREM FreeStaysEmpty ==
  ASSUME SoundImages, NamedPaths
  PROVE  Spec => []FreeIsEmpty
<1>1. World => FreeIsEmpty
  BY DEF World, Sound, FreeIsEmpty
<1> QED
  BY <1>1, WorldStays, PTL
=============================================================================
