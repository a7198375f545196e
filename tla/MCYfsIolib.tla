----------------------------- MODULE MCYfsIolib -----------------------------
(* Small instances of YfsIolib.                                            *)
EXTENDS YfsIolib

\* The root directory has grown to four entries after mkyfs.
GrownDisk == {[Mkyfs EXCEPT !.ents[ROOTINODE] = @ \o <<Unused, Unused>>]}

\* So it has, and "a" is a file of three entries' size in it.
FileDisk ==
  {[Mkyfs EXCEPT
      !.type[2] = INODE_REGULAR, !.nlink[2] = 1, !.reuse[2] = 1 % REUSES,
      !.ents[ROOTINODE] = @ \o <<[inum |-> 2, name |-> "a"], Unused>>,
      !.ents[2] = <<Unused, Unused, Unused>>,
      !.used = 0 .. 2]}

\* One name, looked up from the current directory.
OnePath == {[abs |-> FALSE, names |-> <<".", "a">>]}
CleanResidue == {Unused}

\* One client works with descriptors, the other with names.
TwoClients ==
  [p \in {"files", "names"} |->
     IF p = "files" THEN {"Open", "Close", "Create", "Read", "Write", "Seek", "ChDir", "Exit"}
     ELSE {"Link", "Unlink", "SymLink", "ReadLink", "MkDir", "RmDir", "Stat", "Sync", "Shutdown", "Exit"}]
=============================================================================
