------------------------------ MODULE Content ------------------------------
(***************************************************************************)
(* kernel/fs.c, the contents of inodes: balloc() and bfree() over the       *)
(* bitmap, bmap() and itrunc() over the direct and indirect block numbers,  *)
(* readi() and writei(); and mkfs/mkfs.c, which lays out the first image.   *)
(*                                                                         *)
(* The operators below are the bodies of these functions: they map a record *)
(* of the file system to the record they leave behind, with the block       *)
(* number they return in addr and the blocks given to log_write() in log.   *)
(* Update(p, s) makes such a record the next state.  data is what readers   *)
(* find in the buffer cache and disk what the last log_write() of the block *)
(* saw: they differ after a copy from user memory that fails part-way.      *)
(***************************************************************************)
EXTENDS Integers, FiniteSets, FiniteSetsExt

CONSTANTS Proc, Inum,
          NBLOCKS,       \* data blocks of the disk, numbered from 1
          NDIRECT,       \* direct block numbers of an inode
          BSIZE,         \* bytes of a block, and block numbers of an indirect one
          MAXOPBLOCKS    \* blocks an operation may log

Block == 1..NBLOCKS
MAXFILE == NDIRECT + BSIZE
Position == 0..MAXFILE * BSIZE - 1
BitmapBlock == NBLOCKS + 1   \* FSSIZE is below BPB: there is only one
InodeBlock == NBLOCKS + 2
Zeroes == [k \in 0..BSIZE - 1 |-> 0]
NoAddrs == [k \in 0..NDIRECT |-> 0]

VARIABLES
  addrs, size,  \* of each inode: ip->addrs[], ip->size
  used,         \* the blocks marked in the bitmap
  data, disk,   \* contents of the blocks in the cache and as last logged
  logged,       \* the blocks each process has logged since its begin_op()
  bytes         \* history: the values a reader may find at each position

contentVars == <<addrs, size, used, data, disk, logged, bytes>>

Now == [addrs |-> addrs, size |-> size, used |-> used, data |-> data, addr |-> 0, log |-> {}]

Update(p, s) ==
  /\ addrs' = s.addrs /\ size' = s.size /\ used' = s.used /\ data' = s.data
  /\ disk' = [b \in Block |-> IF b \in s.log THEN s.data[b] ELSE disk[b]]
  /\ logged' = [logged EXCEPT ![p] = @ \cup s.log]

(***************************************************************************)
(* Blocks.                                                                  *)
(***************************************************************************)

\* The first free block, zeroed by bzero(); 0 when there is none.
balloc(s) ==
  IF Block \subseteq s.used
  THEN [s EXCEPT !.addr = 0]
  ELSE LET b == Min(Block \ s.used)
       IN [s EXCEPT !.addr = b, !.used = @ \cup {b}, !.data[b] = Zeroes,
                    !.log = @ \cup {BitmapBlock, b}]

\* ip->addrs[k], allocated when it is 0.
InodeSlot(s, i, k) ==
  LET a == balloc(s)
  IN IF s.addrs[i][k] # 0 THEN [s EXCEPT !.addr = s.addrs[i][k]]
     ELSE [a EXCEPT !.addrs[i][k] = a.addr]

\* a[k] of the indirect block ind.
IndirectSlot(s, ind, k) ==
  LET a == balloc(s)
  IN CASE ind = 0 -> s
       [] ind # 0 /\ s.data[ind][k] # 0 -> [s EXCEPT !.addr = s.data[ind][k]]
       [] ind # 0 /\ s.data[ind][k] = 0 /\ a.addr = 0 -> a
       [] OTHER -> [a EXCEPT !.data[ind][k] = a.addr, !.log = @ \cup {ind}]

bmap(s, i, bn) ==
  LET ind == InodeSlot(s, i, NDIRECT)
  IN IF bn < NDIRECT THEN InodeSlot(s, i, bn)
     ELSE IndirectSlot(ind, ind.addr, bn - NDIRECT)

Indirect(s, i) == s.addrs[i][NDIRECT]
Listed(s, i) == IF Indirect(s, i) = 0 THEN {} ELSE {s.data[Indirect(s, i)][k] : k \in 0..BSIZE - 1}
Blocks(s, i) == ({s.addrs[i][k] : k \in 0..NDIRECT} \cup Listed(s, i)) \ {0}

itrunc_DirectOnly(s, i) ==
  [s EXCEPT !.used = @ \ {s.addrs[i][k] : k \in 0..NDIRECT},
            !.addrs[i] = NoAddrs, !.size[i] = 0,
            !.log = @ \cup {BitmapBlock, InodeBlock}]
itrunc(s, i) ==
  [s EXCEPT !.used = @ \ Blocks(s, i),
            !.addrs[i] = NoAddrs, !.size[i] = 0,
            !.log = @ \cup {BitmapBlock, InodeBlock}]

(***************************************************************************)
(* Reading and writing, a block at a time.                                  *)
(***************************************************************************)

\* readi() at off: how many of n bytes there are.
Readable(i, off, n) == IF off > size[i] THEN 0 ELSE Min({n, size[i] - off})

\* The range check of writei().
Writable(i, off, n) == off <= size[i] /\ off + n <= MAXFILE * BSIZE

\* One round of the loop of writei(): m bytes go to one block.
Round(off, left) == Min({left, BSIZE - (off % BSIZE)})
Span(off, m) == (off % BSIZE)..((off % BSIZE) + m - 1)
Stored(s, b, off, m, v) ==
  [s EXCEPT !.data[b] = [k \in DOMAIN @ |-> IF k \in Span(off, m) THEN v ELSE @[k]]]

writei_copied_Unlogged(s, off, m, v) == Stored(s, s.addr, off, m, v)
writei_copied(s, off, m, v) ==
  [Stored(s, s.addr, off, m, v) EXCEPT !.log = @ \cup {s.addr}]

\* either_copyin() fails after k bytes, and the block is not logged.
writei_faulted(s, off, k, v) == Stored(s, s.addr, off, k, v)

\* The size grows to what has been written, and the inode is updated.
writei_done(s, i, off) ==
  [s EXCEPT !.size[i] = Max({@, off}), !.log = @ \cup {InodeBlock}]

\* A block that was changed and not logged leaves the cache: bget() takes the
\* buffer, and the next bread() finds the disk's version.
recycle(b) ==
  /\ data[b] # disk[b]
  /\ data' = [data EXCEPT ![b] = disk[b]]
  /\ UNCHANGED <<addrs, size, used, disk, logged, bytes>>

(***************************************************************************)
(* mkfs: iappend() takes blocks in order and balloc(freeblock) marks them.  *)
(***************************************************************************)

Empty == [addrs |-> [i \in Inum |-> NoAddrs], size |-> [i \in Inum |-> 0], used |-> {},
          data |-> [b \in Block |-> Zeroes], addr |-> 0, log |-> {}]

\* One byte more at the end of inode i; freeblock++ is the first free block of
\* a disk on which nothing has been freed.
iappend(s, i, v) ==
  LET m == bmap(s, i, s.size[i] \div BSIZE)
  IN [Stored(m, m.addr, s.size[i], 1, v) EXCEPT !.size[i] = @ + 1]

\* The image with n bytes v in inode i.
mkfs(i, v) ==
  LET image[n \in 0..MAXFILE * BSIZE] ==
        IF n = 0 THEN Empty ELSE iappend(image[n - 1], i, v)
  IN image

ContentInit(s, v) ==
  /\ addrs = s.addrs /\ size = s.size /\ used = s.used /\ data = s.data /\ disk = s.data
  /\ logged = [p \in Proc |-> {}]
  /\ bytes = [i \in Inum |-> [k \in Position |-> IF k < s.size[i] THEN {v} ELSE {}]]

(***************************************************************************)
(* Properties.                                                              *)
(***************************************************************************)

Slots(i) == {k \in 0..NDIRECT : addrs[i][k] # 0}
Entries(i) == {k \in 0..BSIZE - 1 : Indirect(Now, i) # 0 /\ data[Indirect(Now, i)][k] # 0}
References(i) == Cardinality(Slots(i)) + Cardinality(Entries(i))

\* Blocks are neither shared nor lost: each belongs to one inode, in one place
\* of its addrs[] or its indirect block, and the bitmap marks exactly these,
\* also when balloc() runs out in the middle of a write; so bfree() never
\* meets a free block (fs.c:101).
BlocksExact ==
  /\ used = UNION {Blocks(Now, i) : i \in Inum}
  /\ Cardinality(used) = MapThenSumSet(References, Inum)

\* The block of inode i that holds position k; 0 if there is none.
Holder(i, k) ==
  LET bn == k \div BSIZE
  IN IF bn < NDIRECT THEN addrs[i][bn]
     ELSE IF Indirect(Now, i) = 0 THEN 0 ELSE data[Indirect(Now, i)][bn - NDIRECT]

\* A file is the bytes written to it: every position below its size has a
\* block, so that bmap() never allocates for readi(), outside a transaction;
\* and it holds what the last write() there put, wherever the offset that
\* processes share stood, whatever failed part-way.  After a copy from user
\* memory that failed, the bytes it reached may be the old or the new ones.
BytesRight ==
  \A i \in Inum : \A k \in Position :
    k < size[i] => /\ Holder(i, k) # 0
                   /\ data[Holder(i, k)][k % BSIZE] \in bytes[i][k]

\* No operation logs more blocks than it reserved in begin_op() (param.h:9,
\* "max # of blocks any FS op writes"): filewrite() cuts a write() into
\* pieces small enough, with the inode, the bitmap and the indirect block.
LogBudget == \A p \in Proc : Cardinality(logged[p]) <= MAXOPBLOCKS
=============================================================================
