------------------------------ MODULE MCYfsDir ------------------------------
(* Small instances of YfsDir.                                              *)
EXTENDS YfsDir

\* Words of a file, and entries of a directory, that are not used.
Zeros(n) == [k \in 1 .. n |-> Unused]

\* A disk some requests after mkyfs: the root has grown to five entries, "d" is
\* a directory that has grown to three, "l" a link to it whose target a client
\* wrote through a descriptor, with more than a block.
Linked ==
  [Mkyfs EXCEPT
     !.type[2] = INODE_DIRECTORY, !.type[3] = INODE_SYMLINK,
     !.nlink = [i \in Inode |-> CASE i = 1 -> 3 [] i = 2 -> 2 [] i = 3 -> 1 [] OTHER -> 0],
     !.reuse = [i \in Inode |-> IF i \in 1 .. 3 THEN 1 % REUSES ELSE 0],
     !.target[3] = [abs |-> TRUE, names |-> <<"d">>],
     !.ents = [i \in Inode |->
        CASE i = 1 -> @[1] \o <<[inum |-> 2, name |-> "d"], [inum |-> 3, name |-> "l"], Unused>>
          [] i \in {2, 3} -> Zeros(3)
          [] OTHER -> << >>],
     !.used = 0 .. 3]

Abs(ns) == [abs |-> TRUE, names |-> ns]
Rel(ns) == [abs |-> FALSE, names |-> ns]

BothDisks  == {Mkyfs, Linked}
FreshDisk  == {Mkyfs}

PlainPaths == {Rel(<<".", "a">>), Abs(<<"b">>), Abs(<<"d", "b">>), Abs(<<"l", "b">>)}
FewPaths   == {Abs(<<"a">>), Abs(<<"b">>)}

\* Memory that reads as a free entry, or as an entry of a name nobody uses.
CleanResidue == {Unused}
Residues     == {Unused, [inum |-> ROOTINODE, name |-> ".."]}
=============================================================================
