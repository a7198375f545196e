------------------------------ MODULE YfsIolib ------------------------------
(***************************************************************************)
(* Client processes, the library they are linked with (iolib.c) and the    *)
(* loop of the server (main and MessageHandler).  A call fills a message   *)
(* and waits in Send; the server receives one message, runs the handler of *)
(* YfsTree to its end and replies; the library turns the reply into the    *)
(* descriptors and the current directory of its process.                   *)
(***************************************************************************)
EXTENDS YfsTree

CONSTANTS
  Process,         \* the clients
  Uses,            \* the calls each of them makes
  MAX_OPEN_FILES,
  Images,          \* the trees the disk may hold at first
  Paths,           \* the path names the clients use
  Residue,         \* what memory that nobody has written may read as
  Lengths,         \* the sizes of reads and writes, in entries
  Offsets,         \* the offsets of Seek
  MAXPOS           \* bounds positions, and the size of files by that; -1 does below

Calls == {"Open", "Close", "Create", "Read", "Write", "Seek", "Link", "Unlink", "SymLink",
          "ReadLink", "MkDir", "RmDir", "ChDir", "Stat", "Sync", "Shutdown", "Exit"}

Fd == 0 .. MAX_OPEN_FILES - 1

ASSUME IolibAssumption ==
  /\ Uses \in [Process -> SUBSET Calls]
  /\ MAX_OPEN_FILES \in Nat \ {0}
  /\ Images \subseteq TreeType /\ Paths \subseteq Path /\ Residue \subseteq Entry
  /\ Lengths \subseteq Nat /\ Offsets \subseteq Int /\ MAXPOS \in Nat

VARIABLES
  tree,              \* what the server and its disk hold
  server,            \* "up", "exited", or "dead"
  queue,             \* the processes whose messages wait for Receive
  open_files,        \* of every process
  open_files_count,
  open_files_flag,
  proc_cur_dir,
  pc,                \* "ready" between calls, "sent" in Send, "replied" behind it, "gone"
  msg,               \* the message, with the fd and the offset of the call
  reply              \* what the server wrote over the message

library == <<open_files, open_files_count, open_files_flag, proc_cur_dir>>
vars    == <<tree, server, queue, library, pc, msg, reply>>

NoFile == [inum |-> -1, position |-> 0]

\* A message as a call fills it; fields a call does not use are left as here.
Message(c, p) ==
  [call |-> c, path |-> NoPath, to |-> NoPath, cwd |-> proc_cur_dir[p],
   inum |-> 0, pos |-> 0, len |-> 0, fd |-> 0, off |-> 0]
NoMessage ==
  [call |-> "Exit", path |-> NoPath, to |-> NoPath, cwd |-> 0,
   inum |-> 0, pos |-> 0, len |-> 0, fd |-> 0, off |-> 0]

\* Before the first call that uses descriptors the vector is all zero.
Init ==
  /\ tree \in Images /\ server = "up" /\ queue = << >>
  /\ open_files = [p \in Process |-> [fd \in Fd |-> [inum |-> 0, position |-> 0]]]
  /\ open_files_count = [p \in Process |-> 0]
  /\ open_files_flag = [p \in Process |-> -1]
  /\ proc_cur_dir = [p \in Process |-> ROOTINODE]
  /\ pc = [p \in Process |-> "ready"]
  /\ msg = [p \in Process |-> NoMessage]
  /\ reply = [p \in Process |-> 0]

-----------------------------------------------------------------------------
(* The library, up to Send.                                                *)

\* InitOpenfileVector, when it has not run yet.
Files(p) == IF open_files_flag[p] = -1 THEN [fd \in Fd |-> NoFile] ELSE open_files[p]
Vector(p, files, count) ==
  /\ open_files' = [open_files EXCEPT ![p] = files]
  /\ open_files_count' = [open_files_count EXCEPT ![p] = count]
  /\ open_files_flag' = [open_files_flag EXCEPT ![p] = 0]
  /\ UNCHANGED proc_cur_dir
Vectored(p) == Vector(p, Files(p), open_files_count[p])

Calling(p, c) == pc[p] = "ready" /\ c \in Uses[p]

\* Send waits in the queue of the server; when the server is gone it fails, which
\* is SendFails.
Send(p, m) ==
  /\ pc' = [pc EXCEPT ![p] = "sent"]
  /\ msg' = [msg EXCEPT ![p] = m]
  /\ queue' = IF server = "up" THEN Append(queue, p) ELSE queue
  /\ UNCHANGED <<tree, server, reply>>

\* The call returns without a message.
Local == UNCHANGED <<tree, server, queue, pc, msg, reply>>

\* A faulty variant of OpenOrCreate: the vector may be full.
OpenOrCreateFull(p, c, path) ==
  /\ Calling(p, c)
  /\ Vectored(p)
  /\ Send(p, [Message(c, p) EXCEPT !.path = path])

\* No message when the vector is full.
OpenOrCreate(p, c, path) ==
  /\ Calling(p, c)
  /\ Vectored(p)
  /\ IF open_files_count[p] = MAX_OPEN_FILES THEN Local
     ELSE Send(p, [Message(c, p) EXCEPT !.path = path])

\* The '.' that Open appends to a trailing '/' is not sent.
Open(p, path)   == OpenOrCreate(p, "Open", path)
Create(p, path) == OpenOrCreate(p, "Create", path)

\* A faulty variant of Close: a descriptor that is not open is given back too.
CloseUnopened(p, fd) ==
  /\ Calling(p, "Close")
  /\ Vector(p, [Files(p) EXCEPT ![fd] = NoFile], open_files_count[p] - 1)
  /\ Local

\* The descriptor is invalid, or it is given back.
Close(p, fd) ==
  /\ Calling(p, "Close")
  /\ IF open_files_flag[p] = -1 \/ Files(p)[fd].inum = -1
     THEN Vectored(p)
     ELSE Vector(p, [open_files[p] EXCEPT ![fd] = NoFile], open_files_count[p] - 1)
  /\ Local

\* No message when the descriptor is invalid.
ReadOrWrite(p, c, fd, n) ==
  LET f == Files(p)[fd] IN
  /\ Calling(p, c) /\ f.position \in -1 .. MAXPOS - n
  /\ Vectored(p)
  /\ IF f.inum = -1 THEN Local
     ELSE Send(p, [Message(c, p) EXCEPT !.inum = f.inum, !.pos = f.position, !.len = n, !.fd = fd])

Read(p, fd, n)  == ReadOrWrite(p, "Read", fd, n)
Write(p, fd, n) == ReadOrWrite(p, "Write", fd, n)

\* SEEK_SET and SEEK_CUR need no message.  Moved is the end of Seek.
Moved(files, fd, pos) == IF pos < 0 THEN files ELSE [files EXCEPT ![fd].position = pos]
Seek(p, fd, off, whence) ==
  LET f   == Files(p)[fd]
      pos == IF whence = "SEEK_CUR" THEN f.position + off ELSE off
  IN
  /\ Calling(p, "Seek") /\ pos <= MAXPOS
  /\ IF f.inum = -1 \/ whence = "SEEK_END" THEN Vectored(p)
     ELSE Vector(p, Moved(Files(p), fd, pos), open_files_count[p])
  /\ IF f.inum = -1 \/ whence # "SEEK_END" THEN Local
     ELSE Send(p, [Message("Seek", p) EXCEPT !.inum = f.inum, !.fd = fd, !.off = off])

\* The calls with path names; a '.' that they append to a trailing '/' is not sent.
Named(p, c, path, to) ==
  /\ Calling(p, c)
  /\ Send(p, [Message(c, p) EXCEPT !.path = path, !.to = to])
  /\ UNCHANGED library

Unlink(p, path)   == Named(p, "Unlink", path, NoPath)
ReadLink(p, path) == Named(p, "ReadLink", path, NoPath)
RmDir(p, path)    == Named(p, "RmDir", path, NoPath)
ChDir(p, path)    == Named(p, "ChDir", path, NoPath)
Stat(p, path)     == Named(p, "Stat", path, NoPath)
Link(p, path, to) == Named(p, "Link", path, to)

\* What the link leads to is stored by nobody, see SymLinkHandler.
SymLink(p, path, to) == Named(p, "SymLink", path, to)

\* A '/' at the end is cut off.
MkDir(p, path) ==
  Named(p, "MkDir",
        IF path.names # << >> /\ EndsInSlash(path) THEN ParentPath(path) ELSE path, NoPath)

SyncOrShutdown(p, c) ==
  /\ Calling(p, c)
  /\ Send(p, Message(c, p))
  /\ UNCHANGED library

Sync(p)     == SyncOrShutdown(p, "Sync")
Shutdown(p) == SyncOrShutdown(p, "Shutdown")

Exit(p) ==
  /\ Calling(p, "Exit")
  /\ pc' = [pc EXCEPT ![p] = "gone"]
  /\ UNCHANGED <<tree, server, queue, library, msg, reply>>

Call(p) ==
  \/ \E path \in Paths :
       \/ Open(p, path) \/ Create(p, path) \/ Unlink(p, path) \/ ReadLink(p, path)
       \/ MkDir(p, path) \/ RmDir(p, path) \/ ChDir(p, path) \/ Stat(p, path)
       \/ \E to \in Paths : Link(p, path, to) \/ SymLink(p, path, to)
  \/ \E fd \in Fd :
       \/ Close(p, fd)
       \/ \E n \in Lengths : Read(p, fd, n) \/ Write(p, fd, n)
       \/ \E off \in Offsets, w \in {"SEEK_SET", "SEEK_CUR", "SEEK_END"} : Seek(p, fd, off, w)
  \/ Sync(p) \/ Shutdown(p) \/ Exit(p)

-----------------------------------------------------------------------------
(* The server.                                                             *)

\* MessageHandler.  The disk does not fail here, so sync returns 0.
MessageHandler(t, m, junk, room, zero) ==
  CASE m.call = "Open"     -> OpenHandler(t, m.path, m.cwd)
    [] m.call = "Create"   -> CreateHandler(t, m.path, m.cwd, junk)
    [] m.call = "Read"     -> ReadHandler(t, m.inum, m.pos, m.len)
    [] m.call = "Write"    -> WriteHandler(t, m.inum, m.pos, m.len, room, zero)
    [] m.call = "Seek"     -> SeekHandler(t, m.inum)
    [] m.call = "Link"     -> LinkHandler(t, m.path, m.to, m.cwd, junk)
    [] m.call = "Unlink"   -> UnlinkHandler(t, m.path, m.cwd, junk)
    [] m.call = "SymLink"  -> SymLinkHandler(t, m.to, m.cwd, junk)
    [] m.call = "ReadLink" -> ReadLinkHandler(t, m.path, m.cwd, junk)
    [] m.call = "MkDir"    -> MkDirHandler(t, m.path, m.cwd, junk)
    [] m.call = "RmDir"    -> RmDirHandler(t, m.path, m.cwd)
    [] m.call = "ChDir"    -> ChDirHandler(t, m.path, m.cwd)
    [] m.call = "Stat"     -> StatHandler(t, m.path, m.cwd)
    [] m.call \in {"Sync", "Shutdown"} -> Reply(t, 0)

\* The first message is taken; with the server the others go.
Receive == server = "up" /\ queue # << >> /\ queue' \in {Tail(queue), << >>}

\* A faulty variant of Serve: a request that fails is not answered.
ServeUnanswered ==
  /\ Receive
  /\ LET p == Head(queue) IN
     \E junk \in Residue, room, zero \in BOOLEAN :
     \E r \in {MessageHandler(tree, msg[p], junk, room, zero)} :
       /\ tree' = (IF r.res = LOST THEN tree ELSE r.tree)
       /\ server' = (IF r.res = LOST THEN "dead"
                     ELSE IF msg[p].call = "Shutdown" THEN "exited" ELSE server)
       /\ queue' = (IF server' = "up" THEN Tail(queue) ELSE << >>)
       /\ pc' = [pc EXCEPT ![p] = IF r.res < 0 THEN @ ELSE "replied"]
       /\ reply' = [reply EXCEPT ![p] = IF r.res = LOST THEN @ ELSE r.res]
  /\ UNCHANGED <<library, msg>>

\* One round of the loop of main: Receive, MessageHandler, Reply.  After a
\* Shutdown the server replies and exits; a handler that kills it replies to
\* nobody.
Serve ==
  /\ Receive
  /\ LET p == Head(queue) IN
     \E junk \in Residue, room, zero \in BOOLEAN :
     \E r \in {MessageHandler(tree, msg[p], junk, room, zero)} :
       /\ tree' = (IF r.res = LOST THEN tree ELSE r.tree)
       /\ server' = (IF r.res = LOST THEN "dead"
                     ELSE IF msg[p].call = "Shutdown" THEN "exited" ELSE server)
       /\ queue' = (IF server' = "up" THEN Tail(queue) ELSE << >>)
       /\ pc' = [pc EXCEPT ![p] = IF r.res = LOST THEN @ ELSE "replied"]
       /\ reply' = [reply EXCEPT ![p] = IF r.res = LOST THEN @ ELSE r.res]
  /\ UNCHANGED <<library, msg>>

\* Receive returns 0 when nobody is left to send; the server exits, and does
\* not sync before.
NobodyLeft ==
  /\ server = "up" /\ \A p \in Process : pc[p] = "gone"
  /\ server' = "exited"
  /\ UNCHANGED <<tree, queue, library, pc, msg, reply>>

-----------------------------------------------------------------------------
(* The library, behind Send.                                               *)

\* The call is over.
Return(p) ==
  /\ pc' = [pc EXCEPT ![p] = "ready"]
  /\ msg' = [msg EXCEPT ![p] = NoMessage]
  /\ reply' = [reply EXCEPT ![p] = 0]
  /\ UNCHANGED <<tree, server, queue>>

\* Send returns -1: the server is gone.
SendFails(p) ==
  /\ pc[p] = "sent" /\ server # "up"
  /\ Return(p)
  /\ UNCHANGED library

FreeFds(p) == {fd \in Fd : open_files[p][fd].inum = -1}

\* Open and Create: the first free descriptor stands for the inode.
OpenReturns(p) ==
  /\ pc[p] = "replied" /\ msg[p].call \in {"Open", "Create"}
  /\ \/ (reply[p] = ERROR \/ FreeFds(p) = {}) /\ UNCHANGED library
     \/ /\ reply[p] # ERROR
        /\ \E fd \in FreeFds(p) :
             /\ \A g \in FreeFds(p) : fd <= g
             /\ Vector(p, [open_files[p] EXCEPT ![fd].inum = reply[p]], open_files_count[p] + 1)
  /\ Return(p)

\* Read and Write: the position moves by the reply, be it -1.
ReadReturns(p) ==
  /\ pc[p] = "replied" /\ msg[p].call \in {"Read", "Write"}
  /\ Vector(p, [open_files[p] EXCEPT ![msg[p].fd].position = @ + reply[p]], open_files_count[p])
  /\ Return(p)

SeekReturns(p) ==
  /\ pc[p] = "replied" /\ msg[p].call = "Seek"
  /\ Vector(p, Moved(open_files[p], msg[p].fd, reply[p] + msg[p].off), open_files_count[p])
  /\ Return(p)

ChDirReturns(p) ==
  /\ pc[p] = "replied" /\ msg[p].call = "ChDir"
  /\ proc_cur_dir' = [proc_cur_dir EXCEPT ![p] = IF reply[p] = ERROR THEN @ ELSE reply[p]]
  /\ UNCHANGED <<open_files, open_files_count, open_files_flag>>
  /\ Return(p)

OtherReturns(p) ==
  /\ pc[p] = "replied"
  /\ msg[p].call \notin {"Open", "Create", "Read", "Write", "Seek", "ChDir"}
  /\ Return(p)
  /\ UNCHANGED library

Returns(p) ==
  SendFails(p) \/ OpenReturns(p) \/ ReadReturns(p) \/ SeekReturns(p) \/ ChDirReturns(p)
    \/ OtherReturns(p)

Next == Serve \/ NobodyLeft \/ \E p \in Process : Call(p) \/ Returns(p)

\* A server that is up receives what waits, and only Serve does that; a process
\* behind Send goes on.  No process has to call anything.
Spec     == Init /\ [][Next]_vars
FairSpec == Spec /\ WF_queue(Receive) /\ \A p \in Process : WF_vars(Returns(p))

-----------------------------------------------------------------------------
(* Properties.                                                             *)

Opened(p) == {fd \in Fd : open_files[p][fd].inum # -1}

\* The variables stay in their types; a process waits in the queue once, while it
\* is in Send, or not at all.
TypeOK ==
  /\ tree \in TreeType /\ server \in {"up", "exited", "dead"}
  /\ open_files \in [Process -> [Fd -> [inum : Inode \union {-1}, position : Int]]]
  /\ open_files_count \in [Process -> 0 .. MAX_OPEN_FILES]
  /\ open_files_flag \in [Process -> {-1, 0}]
  /\ proc_cur_dir \in [Process -> Inode]
  /\ pc \in [Process -> {"ready", "sent", "replied", "gone"}]
  /\ \A p \in Process : msg[p].call \in Calls
  /\ reply \in [Process -> Int]
  /\ server # "up" => queue = << >>
  /\ \A k, l \in DOMAIN queue : pc[queue[k]] = "sent" /\ (queue[k] = queue[l] => k = l)

\* open_files_count counts the open descriptors: Open, Create, Close and the
\* late initialisation agree, also when calls fail.
CountRight ==
  \A p \in Process : open_files_flag[p] = 0 => open_files_count[p] = Cardinality(Opened(p))

\* There is a descriptor for what Open and Create get from the server: what the
\* count allows before Send, the vector has behind it, or a new file would be
\* left that the caller takes for an error.
SlotForReply ==
  \A p \in Process :
    pc[p] = "replied" /\ msg[p].call \in {"Open", "Create"} /\ reply[p] # ERROR => FreeFds(p) # {}

\* The inode a process remembers as its current directory is a directory: what
\* ChDirHandler answers is one, and no handler removes a directory afterwards.
CwdIsDirectory == \A p \in Process : tree.type[proc_cur_dir[p]] = INODE_DIRECTORY

\* A descriptor or a message may name an inode that another process has freed
\* meanwhile: nothing is written to it, and an inode that is free stays empty.
FreeIsEmpty ==
  \A i \in Inode : tree.type[i] = INODE_FREE => tree.ents[i] = << >> /\ tree.nlink[i] = 0

\* Every call returns, whatever becomes of the server and of other clients.
CallsReturn == \A p \in Process : pc[p] = "sent" ~> pc[p] = "ready"

-----------------------------------------------------------------------------
(* What comments say, beyond the properties above.                         *)

\* yfs.c:549-550: the position advances unless the request returns ERROR.
ErrorMovesNothing ==
  [][\A p \in Process : \A fd \in Fd :
       pc[p] = "replied" /\ reply[p] = ERROR => open_files'[p][fd] = open_files[p][fd]]_vars
=============================================================================
