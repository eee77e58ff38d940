------------------------------ MODULE MCBcache ------------------------------
(***************************************************************************)
(* Instances of Bcache: three threads that are short of descriptors, two    *)
(* that are short of buffers, and one whose buffers the log pins.           *)
(***************************************************************************)
EXTENDS Bcache, TLC
CONSTANTS t1, t2, t3, b1, b2, b3, k1, k2, k3
Loads == {
  [threads |-> {t1, t2, t3}, bufs |-> {b1, b2, b3}, blocks |-> {k1, k2}, pins |-> 0],
  [threads |-> {t1, t2}, bufs |-> {b1, b2}, blocks |-> {k1, k2, k3}, pins |-> 0],
  [threads |-> {t1}, bufs |-> {b1, b2}, blocks |-> {k1, k2, k3}, pins |-> 1]}
Symm == Permutations(Thread) \cup Permutations(Block)
=============================================================================
