------------------------------ MODULE MCFiles ------------------------------
(***************************************************************************)
(* Instances of Files: two processes that are short of files, descriptors   *)
(* and pipes; two that read and write through one offset; and two that      *)
(* write and truncate two inodes of a disk that fills up.                   *)
(***************************************************************************)
EXTENDS Files
One(f) == [d \in Fd |-> IF d = 1 THEN f ELSE None]
Table == [calls |-> {"open", "close", "dup", "fork", "exit", "pipe"}, max |-> 5, n |-> {},
          len |-> 0, open |-> <<>>, fds |-> [p \in Proc |-> [d \in Fd |-> None]]]
Shared == [calls |-> {"read", "write"}, max |-> 3, n |-> {1, 3, 8}, len |-> 3,
           open |-> <<1>>, fds |-> [p \in Proc |-> One(1)]]
Full == [calls |-> {"write", "trunc"}, max |-> 3, n |-> {1, 3, 8}, len |-> 2,
         open |-> <<1, 2>>, fds |-> [p \in Proc |-> One(p)]]
Loads == {Table, Shared, Full}
=============================================================================
