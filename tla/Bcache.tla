------------------------------- MODULE Bcache -------------------------------
(***************************************************************************)
(* kernel/bio.c and kernel/sleeplock.c, on top of the disk driver: the      *)
(* buffer cache.                                                            *)
(*                                                                         *)
(* A thread makes the calls the file system makes: bread() a block, change  *)
(* it or not, write a changed block with bwrite() or keep it in the cache   *)
(* with bpin() (log_write() does), brelse() it.  bcache.lock and the spin   *)
(* lock in a sleep lock are held across one step.  Contents are abstracted  *)
(* to whether they are what was last put in the block, by anyone.           *)
(***************************************************************************)
EXTENDS Virtio

CONSTANTS Block,
          Load   \* the loads: [threads, bufs, blocks |-> sets that are in
                 \* use, pins |-> how many buffers the log pins at a time]

VARIABLES
  load,      \* the load of this behaviour
  lru,       \* lru[i]: the i-th buffer of the LRU list, MRU first
  blockno,   \* b->blockno (None: no block yet)
  valid,     \* the buffers with b->valid
  refcnt,    \* b->refcnt
  lock,      \* the thread that holds b->lock
  pinned,    \* the buffers the log keeps with bpin()
  current    \* the buffers, and the blocks on the disk, with the last contents

cacheVars == <<load, lru, blockno, valid, refcnt, lock, pinned, current>>
vars == <<virtioVars, cacheVars>>

\* A thread holds one buffer at a time: enough buffers for bget() not to panic.
ASSUME BcacheConstants ==
  /\ IsFiniteSet(Thread) /\ IsFiniteSet(Buf)
  /\ None \notin Block /\ Buf \cap Block = {}
  /\ \A l \in Load :
       /\ l.threads \subseteq Thread /\ l.bufs \subseteq Buf /\ l.blocks \subseteq Block
       /\ Cardinality(l.threads) + l.pins <= Cardinality(l.bufs)

Init ==
  /\ VirtioInit
  /\ load \in Load
  /\ lru = CHOOSE f \in Bijection(1..Cardinality(load.bufs), load.bufs) : TRUE
  /\ blockno = [b \in Buf |-> None]
  /\ valid = {} /\ pinned = {}
  /\ refcnt = [b \in Buf |-> 0]
  /\ lock = [b \in Buf |-> None]
  /\ current = Block

(***************************************************************************)
(* bread(): bget(), the sleep lock, and the disk if need be.                *)
(***************************************************************************)

Cached_Valid(k) == {b \in valid : blockno[b] = k}
Cached(k) == {b \in Buf : blockno[b] = k}

\* The buffer to recycle: the unused one nearest the LRU end.
Unused(b) == refcnt[b] = 0
Victim ==
  lru[Max({i \in DOMAIN lru : Unused(lru[i])})]

bget_hit(t, k) ==
  /\ pc[t] = "idle" /\ t \in load.threads
  /\ \E b \in Cached(k) :
       /\ refcnt' = [refcnt EXCEPT ![b] = @ + 1]
       /\ buf' = [buf EXCEPT ![t] = b]
  /\ pc' = [pc EXCEPT ![t] = "lock"]
  /\ UNCHANGED <<free, next, info, ringVars, intr, owned, write, head, lru,
                 blockno, valid, lock, pinned, current, load>>

\* panic("bget: no buffers") when no buffer is unused.
bget_miss(t, k) ==
  /\ pc[t] = "idle" /\ t \in load.threads
  /\ Cached(k) = {}
  /\ \E b \in load.bufs : Unused(b)
  /\ blockno' = [blockno EXCEPT ![Victim] = k]
  /\ valid' = valid \ {Victim}
  /\ current' = current \ {Victim}
  /\ refcnt' = [refcnt EXCEPT ![Victim] = 1]
  /\ buf' = [buf EXCEPT ![t] = Victim]
  /\ pc' = [pc EXCEPT ![t] = "lock"]
  /\ UNCHANGED <<free, next, info, ringVars, intr, owned, write, head, lru, lock,
                 pinned, load>>

\* acquiresleep(&b->lock), then virtio_disk_rw(b, 0) unless b is valid.
acquiresleep(t) ==
  /\ pc[t] = "lock"
  /\ IF lock[buf[t]] = None
     THEN /\ lock' = [lock EXCEPT ![buf[t]] = t]
          /\ pc' = [pc EXCEPT ![t] = IF buf[t] \in valid THEN "use" ELSE "rw"]
     ELSE /\ pc' = [pc EXCEPT ![t] = "lock_asleep"]
          /\ lock' = lock
  /\ UNCHANGED <<free, next, info, ringVars, intr, owned, buf, write, head, lru, blockno,
                 valid, refcnt, pinned, current, load>>

\* virtio_disk_rw() returns: from bread(), b is valid now.
rw_done(t) ==
  /\ finish(t, "use")
  /\ valid' = valid \cup {buf[t]}
  /\ UNCHANGED <<lru, blockno, refcnt, lock, pinned, current, load>>

\* from's contents are copied to to.
Copied(from, to) ==
  IF from \in current THEN current \cup {to} ELSE current \ {to}

device_transfer(h) ==
  /\ device_done(h)
  /\ LET b == info[h]
         w == \E t \in Thread : head[t] = h /\ write[t]
     IN current' = IF w THEN Copied(b, blockno[b]) ELSE Copied(blockno[b], b)
  /\ UNCHANGED <<lru, blockno, valid, refcnt, lock, pinned, load>>

(***************************************************************************)
(* What a thread does with a buffer it has locked.                          *)
(***************************************************************************)

\* b is what the disk has: no caller lets go of a buffer that is not, unless
\* the log has pinned it.
Home(b) == blockno[b] \in current

\* The caller changes b->data.
modify(t) ==
  /\ pc[t] = "use"
  /\ current' = (current \ ({blockno[buf[t]]} \cup Cached(blockno[buf[t]])))
                  \cup {buf[t]}
  /\ UNCHANGED <<virtioVars, lru, blockno, valid, refcnt, lock, pinned, load>>

bwrite(t) ==
  /\ pc[t] = "use"
  /\ write' = [write EXCEPT ![t] = TRUE]
  /\ pc' = [pc EXCEPT ![t] = "rw"]
  /\ UNCHANGED <<free, next, info, ringVars, intr, owned, buf, head, cacheVars>>

\* log_write() pins a changed block, and install_trans() unpins it once it
\* has written it home.
bpin_Uncounted(t) ==
  /\ pc[t] = "use"
  /\ buf[t] \notin pinned /\ Cardinality(pinned) < load.pins
  /\ pinned' = pinned \cup {buf[t]}
  /\ UNCHANGED <<virtioVars, lru, blockno, valid, refcnt, lock, current, load>>
bpin(t) ==
  /\ pc[t] = "use"
  /\ buf[t] \notin pinned /\ Cardinality(pinned) < load.pins
  /\ pinned' = pinned \cup {buf[t]}
  /\ refcnt' = [refcnt EXCEPT ![buf[t]] = @ + 1]
  /\ UNCHANGED <<virtioVars, lru, blockno, valid, lock, current, load>>

bunpin(t) ==
  /\ pc[t] = "use"
  /\ buf[t] \in pinned /\ Home(buf[t])
  /\ pinned' = pinned \ {buf[t]}
  /\ refcnt' = [refcnt EXCEPT ![buf[t]] = @ - 1]
  /\ UNCHANGED <<virtioVars, lru, blockno, valid, lock, current, load>>

\* brelse(): releasesleep() wakes the sleepers on the lock ...
brelse(t) ==
  /\ pc[t] = "use"
  /\ buf[t] \in pinned \/ Home(buf[t])
  /\ lock' = [lock EXCEPT ![buf[t]] = None]
  /\ pc' = [wakeup({u \in Thread : pc[u] = "lock_asleep" /\ buf[u] = buf[t]})
              EXCEPT ![t] = "put"]
  /\ UNCHANGED <<free, next, info, ringVars, intr, owned, buf, write, head, lru,
                 blockno, valid, refcnt, pinned, current, load>>

\* b taken out of the list and put in again at its head.
ToFront(b) ==
  LET p == CHOOSE i \in DOMAIN lru : lru[i] = b
  IN [i \in DOMAIN lru |-> IF i = 1 THEN b
                          ELSE IF i <= p THEN lru[i - 1] ELSE lru[i]]

\* ... and then the reference goes, with b at the head of the list if unused.
brelse_put(t) ==
  /\ pc[t] = "put"
  /\ refcnt' = [refcnt EXCEPT ![buf[t]] = @ - 1]
  /\ lru' = IF refcnt[buf[t]] = 1 THEN ToFront(buf[t]) ELSE lru
  /\ buf' = [buf EXCEPT ![t] = None]
  /\ pc' = [pc EXCEPT ![t] = "idle"]
  /\ UNCHANGED <<free, next, info, ringVars, intr, owned, write, head, blockno,
                 valid, lock, pinned, current, load>>

Rw(t) == \/ (submit(t) \/ no_descriptors(t) \/ again(t)) /\ UNCHANGED cacheVars
         \/ rw_done(t)
Call(t) == \/ \E k \in load.blocks : bget_hit(t, k) \/ bget_miss(t, k)
           \/ acquiresleep(t) \/ modify(t) \/ bwrite(t) \/ bpin(t) \/ bunpin(t)
           \/ brelse(t) \/ brelse_put(t)
DeviceStep == (device_take /\ UNCHANGED cacheVars) \/ \E h \in Desc : device_transfer(h)
Interrupt == virtio_disk_intr /\ UNCHANGED cacheVars

Next ==
  \/ \E t \in Thread : Rw(t) \/ Call(t) \/ (kkill(t) /\ UNCHANGED cacheVars)
  \/ DeviceStep \/ Interrupt

Spec == Init /\ [][Next]_vars

(***************************************************************************)
(* Properties.                                                              *)
(***************************************************************************)

\* No two buffers of the cache hold the same block, whatever two bget()s do
\* at once.
OneBufferPerBlock ==
  \A b, c \in Buf : b # c /\ blockno[b] # None => blockno[b] # blockno[c]

\* A thread that bread() gave a buffer sees what was last put in its block,
\* by whichever thread, through recycling, pinning and disk transfers that
\* end in any order.
SeesLastWrite ==
  \A t \in Thread :
    pc[t] = "use" => /\ lock[buf[t]] = t
                     /\ buf[t] \in current

(***************************************************************************)
(* The invariant behind them.                                               *)
(***************************************************************************)

\* The types of the state.
CacheTypeOK ==
  /\ load \in Load /\ lru \in [1..Cardinality(load.bufs) -> load.bufs]
  /\ blockno \in [Buf -> Block \cup {None}] /\ refcnt \in [Buf -> Nat]
  /\ lock \in [Buf -> Thread \cup {None}]
  /\ valid \subseteq Buf /\ pinned \subseteq Buf /\ current \subseteq Buf \cup Block

\* Where a thread holds a sleep lock.
HoldPc == RwPc \cup {"use"}

\* A sleep lock has one holder, and a thread outside bread() .. brelse() has no
\* buffer.
LockInv ==
  /\ \A t \in Thread : buf[t] = None <=> pc[t] = "idle"
  /\ \A t \in Thread : buf[t] # None => blockno[buf[t]] # None
  /\ \A t \in Thread : pc[t] \in HoldPc => lock[buf[t]] = t
  /\ \A b \in Buf : lock[b] # None => buf[lock[b]] = b /\ pc[lock[b]] \in HoldPc

\* b->refcnt counts the threads that have b and the log's bpin(), so that the
\* buffer bget() recycles is nobody's; the LRU list has all the buffers, and
\* only they hold blocks.
Users(b) == {t \in Thread : buf[t] = b}
RefInv ==
  /\ \A b \in Buf : refcnt[b] = Cardinality(Users(b)) + (IF b \in pinned THEN 1 ELSE 0)
  /\ \A b \in load.bufs : \E i \in DOMAIN lru : lru[i] = b
  /\ \A b \in Buf : blockno[b] # None => b \in load.bufs

\* A valid buffer has the last contents of its block, and the disk has them
\* too unless somebody holds the buffer or the log pins it; a buffer being read
\* has them once the device has finished with it.
Transferred(t) == buf[t] \notin owned \/ InRing(used, head[t])
DataInv ==
  /\ OneBufferPerBlock
  /\ valid \subseteq current
  /\ \A t \in Thread : pc[t] = "use" => buf[t] \in valid
  /\ \A t \in Thread : write[t] => pc[t] \in RwPc
  /\ \A t \in Thread : pc[t] \in RwPc => (write[t] <=> buf[t] \in valid)
  /\ \A b \in Buf : blockno[b] # None /\ blockno[b] \notin current =>
                     b \in valid /\ (b \in pinned \/ lock[b] # None)
  /\ \A k \in Block : Cached(k) = {} => k \in current
  /\ \A t \in Busy : Transferred(t) => buf[t] \in current

CacheInv == CacheTypeOK /\ LockInv /\ RefInv /\ DataInv
=============================================================================
