-------------------------------- MODULE Log --------------------------------
(***************************************************************************)
(* The write-ahead redo log of the file system (kernel/log.c) over the      *)
(* buffer cache (kernel/bio.c) and a disk that writes one block atomically. *)
(*                                                                          *)
(* Processes bracket their updates with begin_op / end_op.  An update        *)
(* modifies a locked buffer and hands it to log_write, which records the     *)
(* block in the in-memory header and pins the buffer.  The last operation    *)
(* to end commits: it copies the logged buffers to the log area, writes the  *)
(* header (the commit point), installs the blocks at their homes and erases  *)
(* the header.  A crash may happen between any two disk writes and loses     *)
(* everything but the disk; recovery replays the header it finds.            *)
(*                                                                          *)
(* Any thread may read a block into the cache, and an unused buffer may be    *)
(* recycled at any time: the cache's own replacement order does not matter   *)
(* to the log, only that a pinned or locked buffer stays.                    *)
(***************************************************************************)
EXTENDS Integers, Sequences, FiniteSets

CONSTANTS
  Proc,         \* threads that run file-system operations
  Block,        \* home blocks on the disk
  Val,          \* contents of a block
  InitVal,      \* the contents every block has on a fresh disk
  None,         \* "no buffer" / "no holder"
  MAXOPBLOCKS,  \* blocks one operation reserves            (param.h:9)
  LOGBLOCKS,    \* blocks the log area holds                (param.h:10)
  OpBlocks,     \* distinct blocks one operation really logs
  MaxCalls,     \* bound: calls of log_write by one operation
  MaxCrashes    \* bound: crashes in one behaviour

ASSUME LogConstants ==
  /\ IsFiniteSet(Proc)
  /\ InitVal \in Val
  /\ None \notin Proc /\ None \notin Val
  /\ MAXOPBLOCKS \in Nat \ {0}
  /\ LOGBLOCKS \in Nat /\ LOGBLOCKS >= MAXOPBLOCKS
  /\ OpBlocks \in 0..MAXOPBLOCKS
  /\ MaxCalls \in Nat
  /\ MaxCrashes \in Nat

VARIABLES
  disk,         \* home blocks on the disk
  logblk,       \* the log area on the disk, behind the header
  head,         \* the header block on the disk: the blocks of a committed
                \* transaction, empty when there is none
  cache,        \* buffered contents of a block, None when not cached
  pin,          \* references bpin added to a block's buffer
  holder,       \* who holds the sleep lock of a block's buffer
  lh,           \* in-memory header: the blocks logged so far
  outstanding,  \* operations between begin_op and end_op
  committing,   \* a thread is in commit()
  pc,           \* where each thread is
  wrote,        \* the blocks a thread's operation has logged
  calls,        \* its calls of log_write
  tail,         \* loop variable of the one thread in write_log/install_trans
  boot,         \* progress of recover_from_log; "up" afterwards
  crashes

diskVars == <<disk, logblk, head>>
bufVars  == <<cache, pin, holder>>
logVars  == <<lh, outstanding, committing>>
opVars   == <<pc, wrote, calls>>
ctlVars  == <<tail, boot, crashes>>
vars     == <<diskVars, bufVars, logVars, opVars, ctlVars>>

CommitPc == {"write_log", "commit", "install", "erase", "done"}
Pc       == {"idle", "sleep", "retry", "op"} \cup CommitPc
BootPc   == {"read_head", "install", "up"}

(***************************************************************************)
(* Buffer cache.                                                            *)
(***************************************************************************)

\* What bread() of an unlocked block returns: the buffer, or the disk's block.
Contents(b) == IF cache[b] = None THEN disk[b] ELSE cache[b]

\* A reader outside any transaction brings a block into the cache.
bread(b) ==
  /\ boot = "up"
  /\ cache[b] = None
  /\ cache' = [cache EXCEPT ![b] = disk[b]]
  /\ UNCHANGED <<diskVars, pin, holder, logVars, opVars, ctlVars>>

\* bget() may take a buffer for another block when its reference count is
\* zero, that is, when nobody has it locked or pinned.
Recyclable(b) == holder[b] = None /\ pin[b] = 0

Recycle(b) ==
  /\ boot = "up"
  /\ cache[b] # None
  /\ Recyclable(b)
  /\ cache' = [cache EXCEPT ![b] = None]
  /\ UNCHANGED <<diskVars, pin, holder, logVars, opVars, ctlVars>>

(***************************************************************************)
(* begin_op, log_write, end_op.                                             *)
(***************************************************************************)

\* wakeup(&log): every thread asleep in begin_op looks again.
wakeup(pcs) == [q \in Proc |-> IF pcs[q] = "sleep" THEN "retry" ELSE pcs[q]]

HasRoom_IgnoreLogged ==
  (outstanding + 1) * MAXOPBLOCKS <= LOGBLOCKS
HasRoom ==
  Len(lh) + (outstanding + 1) * MAXOPBLOCKS <= LOGBLOCKS

MayBegin == ~committing /\ HasRoom

begin_op(p) ==
  /\ boot = "up"
  /\ pc[p] \in {"idle", "retry"}
  /\ \/ /\ MayBegin
        /\ outstanding' = outstanding + 1
        /\ pc'    = [pc EXCEPT ![p] = "op"]
        /\ wrote' = [wrote EXCEPT ![p] = {}]
        /\ calls' = [calls EXCEPT ![p] = 0]
     \/ /\ ~MayBegin
        /\ pc' = [pc EXCEPT ![p] = "sleep"]
        /\ UNCHANGED <<outstanding, wrote, calls>>
  /\ UNCHANGED <<diskVars, bufVars, lh, committing, ctlVars>>

\* An operation reads and locks a block and changes its data.  It stays within
\* the reservation: at most OpBlocks distinct blocks.
Modify(p, b, v) ==
  /\ pc[p] = "op"
  /\ holder[b] = None
  /\ LET open == wrote[p] \cup {c \in Block : holder[c] = p} \cup {b}
     IN  Cardinality(open) <= OpBlocks
  /\ calls[p] < MaxCalls
  /\ holder' = [holder EXCEPT ![b] = p]
  /\ cache'  = [cache EXCEPT ![b] = v]
  /\ calls'  = [calls EXCEPT ![p] = @ + 1]
  /\ UNCHANGED <<diskVars, pin, logVars, pc, wrote, ctlVars>>

\* The in-memory header names block b already.
Logged(b) == \E i \in 1..Len(lh) : lh[i] = b

\* Record block b: absorbed when it is logged already, else appended and pinned.
Record(b) ==
  \/ /\ Logged(b)
     /\ UNCHANGED <<lh, pin>>
  \/ /\ ~Logged(b)
     /\ lh' = Append(lh, b)
     /\ pin' = [pin EXCEPT ![b] = @ + 1]

\* The panics of log_write().  The size is looked at before the search for an
\* entry that would absorb the block.
LogWritePanics == Len(lh) >= LOGBLOCKS \/ outstanding < 1

\* log_write() of a block the operation has locked and changed, then brelse().
log_write(p, b) ==
  /\ pc[p] = "op"
  /\ holder[b] = p
  /\ ~LogWritePanics
  /\ Record(b)
  /\ wrote'  = [wrote EXCEPT ![p] = @ \cup {b}]
  /\ holder' = [holder EXCEPT ![b] = None]
  /\ UNCHANGED <<diskVars, cache, outstanding, committing, pc, calls, ctlVars>>

\* The last operation out commits; the others wake the sleepers, because the
\* space reserved has shrunk.
LastOut == outstanding = 1

end_op(p) ==
  /\ pc[p] = "op"
  /\ \A b \in Block : holder[b] # p
  /\ ~committing                                \* else panic
  /\ outstanding' = outstanding - 1
  /\ \/ /\ LastOut
        /\ committing' = TRUE
        /\ tail' = 0
        /\ pc' = [pc EXCEPT ![p] = IF lh = <<>> THEN "done" ELSE "write_log"]
     \/ /\ ~LastOut
        /\ pc' = [wakeup(pc) EXCEPT ![p] = "idle"]
        /\ UNCHANGED <<committing, tail>>
  /\ UNCHANGED <<diskVars, bufVars, lh, wrote, calls, boot, crashes>>

(***************************************************************************)
(* commit().  Each action ends with one disk write.                         *)
(***************************************************************************)

\* Copy the next logged buffer to the log area.
write_log(p) ==
  /\ pc[p] = "write_log"
  /\ LET b == lh[tail + 1]
     IN  /\ holder[b] = None
         /\ cache'  = [cache EXCEPT ![b] = Contents(b)]
         /\ logblk' = [logblk EXCEPT ![tail + 1] = Contents(b)]
  /\ \/ /\ tail + 1 < Len(lh)
        /\ tail' = tail + 1
        /\ UNCHANGED pc
     \/ /\ tail + 1 = Len(lh)
        /\ tail' = 0
        /\ pc' = [pc EXCEPT ![p] = "commit"]
  /\ UNCHANGED <<disk, head, pin, holder, logVars, wrote, calls, boot, crashes>>

\* write_head() of the full header: the commit point.
write_head(p) ==
  /\ pc[p] = "commit"
  /\ head' = lh
  /\ pc' = [pc EXCEPT ![p] = "install"]
  /\ UNCHANGED <<disk, logblk, bufVars, logVars, wrote, calls, ctlVars>>

\* install_trans() copies one block from the log area to its home, through
\* the block's buffer.
InstallBlock ==
  LET b == lh[tail + 1]
  IN  /\ holder[b] = None
      /\ cache' = [cache EXCEPT ![b] = logblk[tail + 1]]
      /\ disk'  = [disk EXCEPT ![b] = logblk[tail + 1]]

install_trans(p) ==
  /\ pc[p] = "install"
  /\ InstallBlock
  /\ pin' = [pin EXCEPT ![lh[tail + 1]] = @ - 1]
  /\ \/ /\ tail + 1 < Len(lh)
        /\ tail' = tail + 1
        /\ UNCHANGED pc
     \/ /\ tail + 1 = Len(lh)
        /\ tail' = 0
        /\ pc' = [pc EXCEPT ![p] = "erase"]
  /\ UNCHANGED <<logblk, head, holder, logVars, wrote, calls, boot, crashes>>

\* log.lh.n = 0 and write_head(): erase the transaction.
Erase_MemoryOnly ==
  /\ lh' = <<>>
  /\ UNCHANGED head
Erase ==
  /\ lh'   = <<>>
  /\ head' = <<>>

erase(p) ==
  /\ pc[p] = "erase"
  /\ Erase
  /\ pc' = [pc EXCEPT ![p] = "done"]
  /\ UNCHANGED <<disk, logblk, bufVars, outstanding, committing, wrote, calls, ctlVars>>

\* Back in end_op(): clear committing and wake the sleepers.
CommitDone_NoWakeup(p) ==
  /\ pc[p] = "done"
  /\ committing' = FALSE
  /\ pc' = [pc EXCEPT ![p] = "idle"]
  /\ UNCHANGED <<diskVars, bufVars, lh, outstanding, wrote, calls, ctlVars>>
CommitDone_StillCommitting(p) ==
  /\ pc[p] = "done"
  /\ pc' = [wakeup(pc) EXCEPT ![p] = "idle"]
  /\ UNCHANGED <<diskVars, bufVars, logVars, wrote, calls, ctlVars>>
CommitDone(p) ==
  /\ pc[p] = "done"
  /\ committing' = FALSE
  /\ pc' = [wakeup(pc) EXCEPT ![p] = "idle"]
  /\ UNCHANGED <<diskVars, bufVars, lh, outstanding, wrote, calls, ctlVars>>

(***************************************************************************)
(* Crash, and recover_from_log() in the first process after the reboot.     *)
(***************************************************************************)

Crash ==
  /\ crashes < MaxCrashes
  /\ crashes' = crashes + 1
  /\ cache'  = [b \in Block |-> None]
  /\ pin'    = [b \in Block |-> 0]
  /\ holder' = [b \in Block |-> None]
  /\ lh' = <<>> /\ outstanding' = 0 /\ committing' = FALSE
  /\ pc'    = [p \in Proc |-> "idle"]
  /\ wrote' = [p \in Proc |-> {}]
  /\ calls' = [p \in Proc |-> 0]
  /\ tail' = 0 /\ boot' = "read_head"
  /\ UNCHANGED diskVars

read_head ==
  /\ boot = "read_head"
  /\ lh' = head
  /\ boot' = "install"
  /\ UNCHANGED <<diskVars, bufVars, outstanding, committing, opVars, tail, crashes>>

RecoverInstall ==
  /\ boot = "install"
  /\ tail < Len(lh)
  /\ InstallBlock
  /\ tail' = tail + 1
  /\ UNCHANGED <<logblk, head, pin, holder, logVars, opVars, boot, crashes>>

Recovered_NoReplay == boot = "install"
Recovered == boot = "install" /\ tail = Len(lh)

RecoverErase ==
  /\ Recovered
  /\ Erase
  /\ tail' = 0
  /\ boot' = "up"
  /\ UNCHANGED <<disk, logblk, bufVars, outstanding, committing, opVars, crashes>>

(***************************************************************************)

Init ==
  /\ disk   = [b \in Block |-> InitVal]
  /\ logblk = [i \in 1..LOGBLOCKS |-> InitVal]
  /\ head   = <<>>
  /\ cache  = [b \in Block |-> None]
  /\ pin    = [b \in Block |-> 0]
  /\ holder = [b \in Block |-> None]
  /\ lh = <<>> /\ outstanding = 0 /\ committing = FALSE
  /\ pc     = [p \in Proc |-> "idle"]
  /\ wrote  = [p \in Proc |-> {}]
  /\ calls  = [p \in Proc |-> 0]
  /\ tail = 0 /\ boot = "read_head" /\ crashes = 0

\* A step of thread p inside commit().
CommitStep(p) ==
  write_log(p) \/ write_head(p) \/ install_trans(p) \/ erase(p) \/ CommitDone(p)

RecoverStep == read_head \/ RecoverInstall \/ RecoverErase

Next ==
  \/ \E b \in Block : bread(b) \/ Recycle(b)
  \/ \E p \in Proc : begin_op(p) \/ end_op(p) \/ CommitStep(p)
  \/ \E p \in Proc, b \in Block : log_write(p, b)
  \/ \E p \in Proc, b \in Block, v \in Val : Modify(p, b, v)
  \/ RecoverStep
  \/ Crash

Spec == Init /\ [][Next]_vars

\* The scheduler runs every thread and recovery in turn; nothing obliges a
\* thread to start an operation, but one that was woken runs begin_op again
\* and one that has started an operation finishes it.
Fairness ==
  /\ WF_vars(RecoverStep)
  /\ \A p \in Proc :
       /\ WF_vars(pc[p] = "retry" /\ begin_op(p))
       /\ WF_vars(\E b \in Block : log_write(p, b))
       /\ WF_vars(end_op(p))
       /\ WF_vars(CommitStep(p))

FairSpec == Spec /\ Fairness

(***************************************************************************)
(* Properties.                                                              *)
(***************************************************************************)

DiskType ==
  /\ disk   \in [Block -> Val]
  /\ logblk \in [1..LOGBLOCKS -> Val]
  /\ head   \in Seq(Block) /\ Len(head) <= LOGBLOCKS
BufType ==
  /\ cache  \in [Block -> Val \cup {None}]
  /\ pin    \in [Block -> Nat]
  /\ holder \in [Block -> Proc \cup {None}]
LogType ==
  /\ lh     \in Seq(Block) /\ Len(lh) <= LOGBLOCKS
  /\ outstanding \in Nat
  /\ committing \in BOOLEAN
OpType ==
  /\ pc     \in [Proc -> Pc]
  /\ wrote  \in [Proc -> SUBSET Block]
  /\ calls  \in [Proc -> 0..MaxCalls]
CtlType ==
  /\ tail   \in 0..LOGBLOCKS
  /\ boot   \in BootPc
  /\ crashes \in 0..MaxCrashes

\* The shape of the log: neither header outgrows the log area, no pin count
\* goes below zero and no operation exceeds its calls.
TypeOK == DiskType /\ BufType /\ LogType /\ OpType /\ CtlType

\* What recovery leaves at block b of a disk d whose header is h and whose log
\* area is a: the copy in the log area when the header names b.
Replay(h, a, d, b) ==
  IF \E i \in 1..Len(h) : h[i] = b
  THEN a[CHOOSE i \in 1..Len(h) : h[i] = b]
  ELSE d[b]

\* What a reader finds after a crash at this moment, and what it finds now.
AfterRecovery(b) == Replay(head, logblk, disk, b)
Current(b) == IF boot = "up" THEN Contents(b) ELSE AfterRecovery(b)

Ops == {p \in Proc : pc[p] = "op"}

\* Every crash leaves whole transactions and readers never see an older
\* block: the log, the pins and recovery implement a disk whose groups of
\* operations commit atomically (log.c:10-16, "there is never any reasoning
\* required about whether a commit might write an uncommitted system call's
\* updates to disk").
Atomic == INSTANCE AtomicDisk WITH
  current <- [b \in Block |-> Current(b)],
  durable <- [b \in Block |-> AfterRecovery(b)],
  open    <- Ops
RefinesAtomicDisk == Atomic!Spec

\* The reservation of begin_op is enough: an operation that is about to call
\* log_write never finds the log full or itself outside a transaction, and
\* one that is about to call end_op never finds a commit running (the panics
\* of log.c:154 and log.c:220-223).
NoPanic ==
  \A p \in Ops : ~committing /\ ((\E b \in Block : holder[b] = p) => ~LogWritePanics)

\* When no operation is open and no commit is running, everything any
\* operation wrote has reached the disk, the header is erased and no buffer
\* is left pinned: the last end_op returns only after its group is durable
\* and the cache has got its buffers back.
QuiescentDurable ==
  (boot = "up" /\ Ops = {} /\ ~committing) =>
    /\ lh = <<>> /\ head = <<>>
    /\ \A b \in Block : Contents(b) = disk[b] /\ pin[b] = 0

\* A thread asleep in begin_op is never forgotten: an operation is open or a
\* commit is running, and its end_op will call wakeup(&log).
SleeperHasWaker ==
  (\E p \in Proc : pc[p] = "sleep") => committing \/ outstanding > 0

\* While a committed transaction is being installed no operation is open, so
\* install_trans never overwrites a buffer with an older copy from the log.
InstallNeverReverts ==
  [][\A p \in Proc : install_trans(p) => \A b \in Block : Contents(b)' = Contents(b)]_vars

\* A thread that sleeps in begin_op looks at the log again some day.
SleeperWakes == \A p \in Proc : pc[p] = "sleep" ~> pc[p] # "sleep"

(***************************************************************************)
(* The inductive invariant behind the safety properties.                    *)
(***************************************************************************)

\* Only one thread commits, no operation is open meanwhile, and nothing runs
\* before recovery has finished.
ControlInv ==
  /\ outstanding = Cardinality(Ops)
  /\ committing <=> \E p \in Proc : pc[p] \in CommitPc
  /\ \A p, q \in Proc : pc[p] \in CommitPc /\ pc[q] \in CommitPc => p = q
  /\ committing => Ops = {}
  /\ boot # "up" => \A p \in Proc : pc[p] = "idle"
  /\ \A b \in Block : holder[b] # None => pc[holder[b]] = "op"

\* The header in memory names each block once; the header on disk is empty
\* except between the commit point and the erasure, when it is the one in
\* memory or the one recovery has read or will read.
HeaderInv ==
  /\ \A i, j \in 1..Len(lh) : lh[i] = lh[j] => i = j
  /\ \A i, j \in 1..Len(head) : head[i] = head[j] => i = j
  /\ boot = "read_head" => lh = <<>> /\ tail = 0
  /\ boot = "install" => lh = head /\ tail <= Len(lh)
  /\ boot = "up" /\ head # <<>> =>
       head = lh /\ \E p \in Proc : pc[p] \in {"install", "erase"}
  /\ boot = "up" /\ ~committing /\ outstanding = 0 => lh = <<>>
  /\ \A p \in Proc :
       /\ pc[p] \in {"write_log", "install"} => tail < Len(lh)
       /\ pc[p] = "commit" => lh # <<>> /\ tail = 0
       /\ pc[p] \in {"install", "erase"} => head = lh
       /\ pc[p] = "done" => lh = <<>>

\* The blocks of the header in memory that are not yet at their homes.
Unwritten(i) == \A p \in Proc :
  pc[p] # "erase" /\ (pc[p] = "install" => tail < i)

\* A logged buffer is pinned until it is installed; a buffer that is neither
\* pinned nor locked agrees with the disk.
BufferInv ==
  /\ boot # "up" => \A b \in Block : pin[b] = 0
  /\ boot = "up" => \A i \in 1..Len(lh) : Unwritten(i) => pin[lh[i]] = 1
  /\ \A b \in Block : pin[b] # 0 =>
       pin[b] = 1 /\ \E i \in 1..Len(lh) : lh[i] = b /\ Unwritten(i)
  /\ \A b \in Block : pin[b] # 0 \/ holder[b] # None => cache[b] # None
  /\ \A b \in Block : pin[b] = 0 /\ holder[b] = None /\ cache[b] # None =>
       cache[b] = disk[b]

\* What the log area holds during a commit, and what is installed.
CopyInv ==
  /\ \A p \in Proc, i \in 1..Len(lh) :
       /\ pc[p] = "write_log" /\ i <= tail => logblk[i] = cache[lh[i]]
       /\ pc[p] = "commit" => logblk[i] = cache[lh[i]]
       /\ pc[p] = "install" /\ i > tail => logblk[i] = cache[lh[i]]
       /\ pc[p] = "install" /\ i <= tail => logblk[i] = disk[lh[i]]
       /\ pc[p] = "erase" => logblk[i] = disk[lh[i]]
  /\ boot = "install" => \A i \in 1..tail : logblk[i] = disk[lh[i]]

\* The places in the log that the open operations have reserved and not used:
\* MAXOPBLOCKS for each, less one for each block it has logged.
Reserve ==
  {x \in Ops \X (1..MAXOPBLOCKS) : x[2] > Cardinality(wrote[x[1]])}

\* An operation logs at most OpBlocks blocks, those it has locked included.
Held(p) == {b \in Block : holder[b] = p}
Within(p) ==
  /\ IsFiniteSet(wrote[p] \cup Held(p))
  /\ Cardinality(wrote[p] \cup Held(p)) <= OpBlocks
  /\ \A b \in wrote[p] : Logged(b)

\* The log has room for what is reserved.
ReserveInv ==
  /\ \A p \in Ops : Within(p)
  /\ Len(lh) + Cardinality(Reserve) <= LOGBLOCKS

\* The log area, the pins and the two headers agree with each other at every
\* step of commit() and recover_from_log(): whatever moment the machine stops
\* at, the disk holds enough to rebuild the last committed state.
LogInv == TypeOK /\ ControlInv /\ HeaderInv /\ BufferInv /\ CopyInv
=============================================================================
