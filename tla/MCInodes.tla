------------------------------ MODULE MCInodes ------------------------------
(***************************************************************************)
(* Instances of Inodes: paths of one and two names, and the disks that the  *)
(* calls create(), mkdir() and an unlink() before a crash leave.            *)
(***************************************************************************)
EXTENDS Inodes
Abs(s) == [abs |-> TRUE, elems |-> s]
OneName == {Abs(<<"a">>)}
TwoLevels == {Abs(<<"a">>), Abs(<<"a", "b">>)}

File == [FreeInode EXCEPT !.type = "file", !.nlink = 1]
Dir == [FreeInode EXCEPT !.type = "dir", !.nlink = 1, !.up = ROOTINO]
Empty == {mkfs}
\* /a is a file
OneFile == [mkfs EXCEPT ![1].ents["a"] = 2, ![2] = File]
\* /a is an empty directory
OneDir == [mkfs EXCEPT ![1].ents["a"] = 2, ![1].nlink = 2, ![2] = Dir]
\* /a is a directory with the file b
FileInDir == [OneDir EXCEPT ![2].ents["b"] = 3, ![3] = File]
Trees == {mkfs, OneFile, OneDir, FileInDir}
Symm == Permutations(Thread)
=============================================================================
