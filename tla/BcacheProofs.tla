---------------------------- MODULE BcacheProofs ----------------------------
(***************************************************************************)
(* The disk driver and the buffer cache: every step of the cache keeps the  *)
(* invariants of both, and the theorems.                                    *)
(***************************************************************************)
EXTENDS Bcache, VirtioSteps

\* The sets of a load.
LEMMA LoadFacts ==
  ASSUME FiniteSetFacts, CacheTypeOK
  PROVE  /\ load.bufs \subseteq Buf /\ load.blocks \subseteq Block
         /\ Cardinality(load.bufs) \in Nat
         /\ DOMAIN lru = 1..Cardinality(load.bufs)
<1>1. load.bufs \subseteq Buf /\ load.blocks \subseteq Block
  BY BcacheConstants DEF CacheTypeOK
<1>2. Cardinality(load.bufs) \in Nat
  BY <1>1 DEF FiniteSetFacts, Counting
<1> QED BY <1>1, <1>2 DEF CacheTypeOK

\* bget() finds the unused buffer it looks for.
LEMMA VictimUnused ==
  ASSUME FiniteSetFacts, CacheTypeOK, RefInv, \E b \in load.bufs : Unused(b)
  PROVE  Victim \in load.bufs /\ Victim \in Buf /\ refcnt[Victim] = 0
<1> DEFINE S == {i \in DOMAIN lru : Unused(lru[i])}
<1>1. S # {}
  BY DEF RefInv
<1>2. S \in SUBSET (1..Cardinality(load.bufs)) /\ Cardinality(load.bufs) \in Nat
  BY LoadFacts
<1>3. Max(S) \in S
  <2> HIDE DEF S
  <2> QED BY <1>1, <1>2, Zenon DEF FiniteSetFacts, Greatest
<1>4. Victim = lru[Max(S)]
  BY DEF Victim
<1> QED BY <1>3, <1>4, LoadFacts DEF CacheTypeOK, Unused

\* Sleep locks keep two threads from one buffer.
LEMMA LocksExclude ==
  ASSUME VirtioTypeOK, LockInv
  PROVE  Exclusive
<1>1. None \notin Buf
  BY VirtioConstants
<1> QED BY <1>1 DEF VirtioTypeOK, LockInv, Exclusive, RwPc, HoldPc

\* Where nobody waits for the disk or moves in or out of a request.
LEMMA CallElsewhere ==
  ASSUME FiniteSetFacts, VirtioInv, CacheInv, NEW t \in Thread, Call(t)
  PROVE  Elsewhere
<1> VirtioTypeOK /\ CacheTypeOK /\ RefInv /\ WakeInv
  BY DEF VirtioInv, CacheInv
<1> USE DEF ringVars, virtioVars, cacheVars
<1>2. used_idx # usedIdx => isr \/ intr = "loop"
  BY Zenon DEF WakeInv
<1>3. ASSUME NEW k \in load.blocks, bget_hit(t, k) \/ bget_miss(t, k) PROVE Elsewhere
  <2>1. /\ UNCHANGED <<free, next, info, ringVars, intr, owned, write, head>>
        /\ pc[t] = "idle" /\ pc' = [pc EXCEPT ![t] = "lock"]
    BY <1>3 DEF bget_hit, bget_miss
  <2>2. \E b \in Buf : buf' = [buf EXCEPT ![t] = b]
    <3>1. CASE bget_hit(t, k)
      BY <3>1, Zenon DEF bget_hit, Cached
    <3>2. CASE bget_miss(t, k)
      BY <3>2, VictimUnused, Zenon DEF bget_miss
    <3> QED BY <1>3, <3>1, <3>2
  <2>3. VirtioTypeOK'
    BY <2>1, <2>2, Zenon DEF VirtioTypeOK
  <2> QED BY <1>2, <2>1, <2>2, <2>3, Zenon DEF Elsewhere, VirtioTypeOK
<1>4. CASE acquiresleep(t)
  <2>1. /\ UNCHANGED <<free, next, info, ringVars, intr, owned, buf, write, head>>
        /\ pc[t] = "lock"
    BY <1>4 DEF acquiresleep
  <2>2. PICK x \in {"use", "rw", "lock_asleep"} : pc' = [pc EXCEPT ![t] = x]
    BY <1>4 DEF acquiresleep
  <2>3. VirtioTypeOK'
    BY <2>1, <2>2, Zenon DEF VirtioTypeOK
  <2> QED BY <1>2, <2>1, <2>2, <2>3 DEF Elsewhere, VirtioTypeOK
<1>5. CASE modify(t) \/ bpin(t) \/ bunpin(t)
  <2>1. UNCHANGED virtioVars
    BY <1>5 DEF modify, bpin, bunpin
  <2>2. VirtioTypeOK'
    BY <2>1, Zenon DEF VirtioTypeOK
  <2> QED BY <1>2, <2>1, <2>2, Zenon DEF Elsewhere
<1>6. CASE bwrite(t)
  <2>1. write' \in [Thread -> BOOLEAN]
    BY <1>6, Zenon DEF bwrite, VirtioTypeOK
  <2>2. VirtioTypeOK'
    BY <1>6, <2>1, Zenon DEF bwrite, VirtioTypeOK
  <2> QED BY <1>2, <1>6, <2>2 DEF bwrite, Elsewhere, VirtioTypeOK
<1>7. CASE brelse(t)
  <2>1. /\ UNCHANGED <<free, next, info, ringVars, intr, owned, buf, write, head>>
        /\ pc[t] = "use" /\ pc' = [u \in Thread |-> pc'[u]]
        /\ \A u \in Thread : \/ pc'[u] = pc[u] /\ u # t
                             \/ pc'[u] = "put" /\ u = t
                             \/ pc[u] = "lock_asleep" /\ pc'[u] = "lock"
    BY <1>7, Zenon DEF brelse, wakeup, Runnable
  <2>2. VirtioTypeOK'
    BY <2>1, Zenon DEF VirtioTypeOK
  <2> QED BY <1>2, <2>1, <2>2 DEF Elsewhere, VirtioTypeOK
<1>8. CASE brelse_put(t)
  <2>1. VirtioTypeOK'
    BY <1>8 DEF brelse_put, VirtioTypeOK
  <2> QED BY <1>2, <1>8, <2>1, Zenon DEF brelse_put, Elsewhere, VirtioTypeOK
<1> QED BY <1>3, <1>4, <1>5, <1>6, <1>7, <1>8 DEF Call

\* Likewise the steps of the driver that only move a thread ...
LEMMA DriverElsewhere ==
  ASSUME FiniteSetFacts, VirtioInv, NEW t \in Thread,
         no_descriptors(t) \/ again(t) \/ kkill(t)
  PROVE  Elsewhere
<1> VirtioTypeOK /\ ChainInv /\ WakeInv
  BY DEF VirtioInv
<1> USE DEF ringVars
<1>2. used_idx # usedIdx => isr \/ intr = "loop"
  BY Zenon DEF WakeInv
<1>3. CASE no_descriptors(t)
  <2>1. Busy # {}
    <3>1. ASSUME Busy = {} PROVE FALSE
      <4>1. free = Desc
        BY <3>1 DEF ChainInv, VirtioTypeOK
      <4>2. Cardinality(Desc) = NUM
        BY DEF FiniteSetFacts, Allocates
      <4> QED BY <1>3, <4>1, <4>2, WrapFits DEF no_descriptors
    <3> QED BY <3>1
  <2>2. /\ UNCHANGED <<free, next, info, ringVars, intr, owned, buf, write, head>>
        /\ pc[t] = "rw" /\ pc' = [u \in Thread |-> pc'[u]]
        /\ \A u \in Thread : \/ pc'[u] = pc[u] /\ u # t
                             \/ pc'[u] = "desc_asleep" /\ u = t
                             \/ pc[u] = "desc_asleep" /\ pc'[u] = "rw"
    BY <1>3, Zenon DEF no_descriptors, wakeup, Runnable, DescSleepers, VirtioTypeOK
  <2>3. VirtioTypeOK'
    BY <2>2, Zenon DEF VirtioTypeOK
  <2> QED BY <1>2, <2>1, <2>2, <2>3 DEF Elsewhere, VirtioTypeOK
<1>4. CASE again(t)
  <2>1. VirtioTypeOK'
    BY <1>4, Zenon DEF again, VirtioTypeOK
  <2> QED BY <1>2, <1>4, <2>1 DEF again, Finished, Elsewhere, VirtioTypeOK
<1>5. CASE kkill(t)
  <2>1. /\ UNCHANGED <<free, next, info, ringVars, intr, owned, buf, write, head>>
        /\ pc' = [u \in Thread |-> pc'[u]]
        /\ \A u \in Thread : \/ pc'[u] = pc[u]
                             \/ pc[u] = "desc_asleep" /\ pc'[u] = "rw"
                             \/ pc[u] = "io_asleep" /\ pc'[u] = "io"
                             \/ pc[u] = "lock_asleep" /\ pc'[u] = "lock"
    BY <1>5, Zenon DEF kkill, wakeup, Runnable
  <2>2. VirtioTypeOK'
    BY <2>1 DEF VirtioTypeOK
  <2> QED BY <1>2, <2>1, <2>2 DEF Elsewhere, VirtioTypeOK
<1> QED BY <1>3, <1>4, <1>5

\* ... and the first and the last step of the interrupt handler.
LEMMA HandlerElsewhere ==
  ASSUME VirtioInv, intr_ack \/ intr_done
  PROVE  Elsewhere
<1> VirtioTypeOK
  BY Zenon DEF VirtioInv
<1>2. CASE intr_ack
  <2>1. VirtioTypeOK'
    BY <1>2, Zenon DEF intr_ack, VirtioTypeOK
  <2> QED BY <1>2, <2>1 DEF intr_ack, Elsewhere
<1>3. CASE intr_done
  <2>1. VirtioTypeOK'
    BY <1>3 DEF intr_done, VirtioTypeOK, ringVars
  <2> QED BY <1>3, <2>1, Zenon DEF intr_done, Elsewhere, ringVars
<1> QED BY <1>2, <1>3

\* Every step keeps the driver's invariant.
LEMMA VirtioStep ==
  ASSUME FiniteSetFacts, VirtioInv, CacheInv, [Next]_vars
  PROVE  VirtioInv'
<1>1. Exclusive
  BY LocksExclude DEF VirtioInv, CacheInv
<1>2. ASSUME NEW t \in Thread, Rw(t) \/ Call(t) \/ kkill(t) PROVE VirtioInv'
  BY <1>1, <1>2, SubmitStep, FinishStep, ElsewhereStep, CallElsewhere, DriverElsewhere, Zenon
     DEF Rw, rw_done
<1>3. CASE DeviceStep
  BY <1>3, TakeStep, DoneStep DEF DeviceStep, device_transfer
<1>4. CASE Interrupt
  BY <1>1, <1>4, HandlerElsewhere, EntryStep, ElsewhereStep DEF Interrupt, virtio_disk_intr
<1>5. CASE UNCHANGED vars
  <2>1. Elsewhere
    BY <1>5 DEF vars, virtioVars, ringVars, Elsewhere, VirtioInv, VirtioTypeOK, WakeInv
  <2> QED BY <2>1, ElsewhereStep, Zenon
<1> QED BY <1>2, <1>3, <1>4, <1>5 DEF Next

\* A step that leaves buffers where they are: nobody gets, locks or lets go of
\* one.
Quiet ==
  /\ UNCHANGED <<buf, load, lru, blockno, refcnt, lock, pinned>>
  /\ \A t \in Thread : /\ pc'[t] = "idle" <=> pc[t] = "idle"
                       /\ pc'[t] \in HoldPc <=> pc[t] \in HoldPc

LEMMA QuietStep ==
  ASSUME CacheTypeOK, LockInv, RefInv, Quiet
  PROVE  LockInv' /\ RefInv'
<1>1. \A b \in Buf : lock[b] \in Thread \cup {None}
  BY Zenon DEF CacheTypeOK
<1>2. LockInv'
  BY <1>1 DEF LockInv, Quiet
<1>3. RefInv'
  BY DEF RefInv, Quiet, Users
<1> QED BY <1>2, <1>3

\* The steps of the disk, its driver and its handler are quiet.
LEMMA DriverQuiet ==
  ASSUME VirtioInv, [Next]_vars, ~(\E t \in Thread : Call(t))
  PROVE  Quiet
<1> VirtioTypeOK
  BY DEF VirtioInv
<1> USE DEF cacheVars, HoldPc, RwPc
<1>2. ASSUME NEW t \in Thread, Rw(t) PROVE Quiet
  <2>1. CASE submit(t) /\ UNCHANGED cacheVars
    BY <2>1, Zenon DEF submit, Quiet, VirtioTypeOK
  <2>2. CASE no_descriptors(t) /\ UNCHANGED cacheVars
    BY <2>2, Zenon DEF no_descriptors, Quiet, VirtioTypeOK, wakeup, Runnable, DescSleepers
  <2>3. CASE again(t) /\ UNCHANGED cacheVars
    BY <2>3, Zenon DEF again, Quiet, VirtioTypeOK
  <2>4. CASE rw_done(t)
    BY <2>4 DEF rw_done, finish, Quiet, VirtioTypeOK, wakeup, Runnable, DescSleepers
  <2> QED BY <1>2, <2>1, <2>2, <2>3, <2>4, Zenon DEF Rw
<1>3. ASSUME NEW t \in Thread, kkill(t) /\ UNCHANGED cacheVars PROVE Quiet
  BY <1>3, Zenon DEF kkill, Quiet, VirtioTypeOK, wakeup, Runnable
<1>4. CASE DeviceStep
  BY <1>4 DEF DeviceStep, device_take, device_transfer, device_done, Quiet
<1>5. CASE Interrupt
  <2>1. CASE intr_entry
    <3>1. \A u \in Thread : pc'[u] = pc[u] \/ (pc[u] = "io_asleep" /\ pc'[u] = "io")
      BY <2>1 DEF intr_entry, wakeup, Runnable, IoSleepers
    <3> QED BY <1>5, <2>1, <3>1 DEF intr_entry, Interrupt, Quiet
  <2> QED BY <1>5, <2>1, Zenon DEF Interrupt, virtio_disk_intr, intr_ack, intr_done, Quiet
<1>6. CASE UNCHANGED vars
  BY <1>6 DEF vars, virtioVars, Quiet
<1> QED BY <1>2, <1>3, <1>4, <1>5, <1>6 DEF Next

\* b->refcnt after a thread gets b, lets go of it, or the log pins or unpins it.
LEMMA CountUp ==
  ASSUME FiniteSetFacts, VirtioTypeOK, NEW t \in Thread, buf[t] = None, NEW b \in Buf,
         buf' = [buf EXCEPT ![t] = b]
  PROVE  /\ Cardinality(Users(b)') = Cardinality(Users(b)) + 1
         /\ \A c \in Buf : c # b => Users(c)' = Users(c)
<1>1. None \notin Buf
  BY VirtioConstants
<1>2. Users(b)' = Users(b) \cup {t} /\ t \notin Users(b) /\ Users(b) \in SUBSET Thread
  BY <1>1 DEF Users, VirtioTypeOK
<1>3. Cardinality(Users(b)') = Cardinality(Users(b)) + 1
  BY <1>2 DEF FiniteSetFacts, Counting
<1>4. \A c \in Buf : c # b => Users(c)' = Users(c)
  BY <1>1 DEF Users, VirtioTypeOK
<1> QED BY <1>3, <1>4

LEMMA CountDown ==
  ASSUME FiniteSetFacts, VirtioTypeOK, NEW t \in Thread, NEW b \in Buf, buf[t] = b,
         buf' = [buf EXCEPT ![t] = None]
  PROVE  /\ Cardinality(Users(b)') = Cardinality(Users(b)) - 1
         /\ Cardinality(Users(b)) \in Nat \ {0}
         /\ \A c \in Buf : c # b => Users(c)' = Users(c)
<1>1. None \notin Buf
  BY VirtioConstants
<1>2. /\ Users(b) = Users(b)' \cup {t} /\ t \notin Users(b)'
      /\ Users(b)' \in SUBSET Thread
  BY <1>1 DEF Users, VirtioTypeOK
<1>3. Cardinality(Users(b)') \in Nat /\ Cardinality(Users(b)) = Cardinality(Users(b)') + 1
  BY <1>2 DEF FiniteSetFacts, Counting
<1>4. \A c \in Buf : c # b => Users(c)' = Users(c)
  BY <1>1 DEF Users, VirtioTypeOK
<1> QED BY <1>3, <1>4

LEMMA Counts ==
  ASSUME FiniteSetFacts
  PROVE  \A b \in Buf : /\ Cardinality(Users(b)) \in Nat
                        /\ Cardinality(Users(b)) = 0 => Users(b) = {}
<1>1. \A b \in Buf : Users(b) \in SUBSET Thread
  BY DEF Users
<1> QED BY <1>1 DEF FiniteSetFacts, Counting

\* The list keeps its buffers when one is moved to its head.
LEMMA ToFrontKeeps ==
  ASSUME FiniteSetFacts, CacheTypeOK, RefInv, NEW b \in load.bufs
  PROVE  /\ ToFront(b) \in [1..Cardinality(load.bufs) -> load.bufs]
         /\ \A c \in load.bufs : \E i \in DOMAIN ToFront(b) : ToFront(b)[i] = c
<1> DEFINE n == Cardinality(load.bufs)
           p == CHOOSE i \in DOMAIN lru : lru[i] = b
<1>1. lru \in [1..n -> load.bufs] /\ n \in Nat /\ DOMAIN lru = 1..n
  BY LoadFacts, Zenon DEF CacheTypeOK
<1>2. p \in 1..n /\ lru[p] = b
  <2>1. \E i \in DOMAIN lru : lru[i] = b
    BY DEF RefInv
  <2> QED BY <1>1, <2>1, Zenon
<1> DEFINE f == [i \in 1..n |-> IF i = 1 THEN b ELSE IF i <= p THEN lru[i - 1] ELSE lru[i]]
<1>3. ToFront(b) = f
  BY <1>1, Zenon DEF ToFront
<1> HIDE DEF p, n
<1>4. f \in [1..n -> load.bufs]
  BY <1>1, <1>2
<1>5. ASSUME NEW c \in load.bufs PROVE \E i \in 1..n : f[i] = c
  <2>1. PICK j \in 1..n : lru[j] = c
    BY <1>1 DEF RefInv
  <2>2. CASE j = p
    BY <1>1, <1>2, <2>1, <2>2
  <2>3. CASE j < p
    <3>1. j + 1 \in 1..n /\ f[j + 1] = c
      BY <1>1, <1>2, <2>1, <2>3
    <3> QED BY <3>1
  <2>4. CASE j > p
    <3>1. f[j] = c
      BY <1>1, <1>2, <2>1, <2>4
    <3> QED BY <3>1
  <2> QED BY <1>2, <2>2, <2>3, <2>4
<1>6. DOMAIN f = 1..n
  BY Zenon
<1> QED BY <1>3, <1>4, <1>5, <1>6, Zenon DEF n

\* What one call does to the buffers, thread by thread.
LEMMA GetFacts ==
  ASSUME FiniteSetFacts, VirtioTypeOK, CacheTypeOK, LockInv, RefInv, NEW t \in Thread, NEW k \in load.blocks,
         bget_hit(t, k) \/ bget_miss(t, k)
  PROVE  \E b \in load.bufs :
           /\ pc[t] = "idle" /\ pc' = [pc EXCEPT ![t] = "lock"]
           /\ buf[t] = None /\ buf' = [buf EXCEPT ![t] = b] /\ b \in Buf
           /\ refcnt' = [refcnt EXCEPT ![b] = @ + 1]
           /\ blockno' = [blockno EXCEPT ![b] = k] /\ k \in Block
           /\ UNCHANGED <<load, lru, lock, pinned, write, head, taken, avail>>
           /\ \/ blockno[b] = k /\ UNCHANGED <<valid, current>>
              \/ /\ Cached(k) = {} /\ refcnt[b] = 0
                 /\ valid' = valid \ {b} /\ current' = current \ {b}
<1>1. buf[t] = None /\ k \in Block /\ load.bufs \subseteq Buf /\ k # None
  BY LoadFacts, BcacheConstants DEF LockInv, bget_hit, bget_miss
<1> USE DEF ringVars
<1>2. CASE bget_hit(t, k)
  <2>1. PICK b \in Cached(k) : /\ refcnt' = [refcnt EXCEPT ![b] = @ + 1]
                               /\ buf' = [buf EXCEPT ![t] = b]
    BY <1>2, Zenon DEF bget_hit
  <2>2. b \in Buf /\ b \in load.bufs /\ blockno[b] = k
    BY <1>1, <2>1 DEF Cached, RefInv
  <2>3. blockno' = [blockno EXCEPT ![b] = k]
    BY <1>2, <2>2, Zenon DEF bget_hit, CacheTypeOK
  <2> QED BY <1>1, <1>2, <2>1, <2>2, <2>3, Zenon DEF bget_hit
<1>3. CASE bget_miss(t, k)
  <2>1. Victim \in load.bufs /\ Victim \in Buf /\ refcnt[Victim] = 0
    BY <1>3, VictimUnused, Zenon DEF bget_miss
  <2>2. refcnt' = [refcnt EXCEPT ![Victim] = @ + 1]
    BY <1>3, <2>1 DEF bget_miss, CacheTypeOK
  <2> QED BY <1>1, <1>3, <2>1, <2>2, Zenon DEF bget_miss
<1> QED BY <1>2, <1>3, Zenon

\* The three parts of the invariant that say whose a buffer is.
HoldInv == CacheTypeOK /\ LockInv /\ RefInv

LEMMA GetHold ==
  ASSUME FiniteSetFacts, VirtioTypeOK, HoldInv, NEW t \in Thread, NEW k \in load.blocks,
         bget_hit(t, k) \/ bget_miss(t, k)
  PROVE  HoldInv'
<1> CacheTypeOK /\ LockInv /\ RefInv /\ None \notin Buf /\ None \notin Block
  BY VirtioConstants, BcacheConstants DEF HoldInv
<1>2. PICK b \in load.bufs :
           /\ pc[t] = "idle" /\ pc' = [pc EXCEPT ![t] = "lock"]
           /\ buf[t] = None /\ buf' = [buf EXCEPT ![t] = b] /\ b \in Buf
           /\ refcnt' = [refcnt EXCEPT ![b] = @ + 1]
           /\ blockno' = [blockno EXCEPT ![b] = k] /\ k \in Block
           /\ UNCHANGED <<load, lru, lock, pinned, write, head, taken, avail>>
           /\ \/ blockno[b] = k /\ UNCHANGED <<valid, current>>
              \/ /\ Cached(k) = {} /\ refcnt[b] = 0
                 /\ valid' = valid \ {b} /\ current' = current \ {b}
  BY GetFacts, Zenon
<1>3. CacheTypeOK'
  <2>1. refcnt' \in [Buf -> Nat] /\ blockno' \in [Buf -> Block \cup {None}]
    BY <1>2 DEF CacheTypeOK
  <2> QED BY <1>2, <2>1, Zenon DEF CacheTypeOK
<1>4. LockInv'
  BY <1>2 DEF LockInv, VirtioTypeOK, CacheTypeOK, HoldPc, RwPc
<1>5. RefInv'
  <2>1. /\ Cardinality(Users(b)') = Cardinality(Users(b)) + 1
        /\ \A c \in Buf : c # b => Users(c)' = Users(c)
    BY <1>2, CountUp, Zenon
  <2>2. refcnt'[b] = refcnt[b] + 1 /\ \A c \in Buf : c # b => refcnt'[c] = refcnt[c]
    BY <1>2, Zenon DEF CacheTypeOK
  <2>3. Cardinality(Users(b)) \in Nat
    BY <1>2, Counts, Zenon
  <2>4. \A c \in Buf : refcnt'[c] = Cardinality(Users(c)') + (IF c \in pinned' THEN 1 ELSE 0)
    <3>1. \A c \in Buf : refcnt[c] = Cardinality(Users(c)) + (IF c \in pinned THEN 1 ELSE 0)
      BY Zenon DEF RefInv
    <3>2. pinned' = pinned
      BY <1>2, Zenon
    <3> QED BY <2>1, <2>2, <2>3, <3>1, <3>2
  <2>5. \A c \in Buf : blockno'[c] # None => c \in load'.bufs
    BY <1>2, Zenon DEF RefInv, CacheTypeOK
  <2> QED BY <1>2, <2>4, <2>5 DEF RefInv
<1> QED BY <1>3, <1>4, <1>5, Zenon DEF HoldInv

LEMMA CallHold ==
  ASSUME FiniteSetFacts, VirtioTypeOK, HoldInv, valid \subseteq Buf, NEW t \in Thread, Call(t)
  PROVE  HoldInv'
<1> CacheTypeOK /\ LockInv /\ RefInv /\ None \notin Buf /\ None \notin Thread
  BY VirtioConstants DEF HoldInv
<1> USE DEF HoldPc, RwPc
<1>1. \A b \in Buf : Cardinality(Users(b)) \in Nat
  BY Counts, Zenon
<1>2. pc[t] # "idle" => buf[t] \in Buf /\ buf[t] \in load.bufs
  BY DEF LockInv, RefInv, VirtioTypeOK
<1>3. CASE acquiresleep(t)
  <2>1. CacheTypeOK' /\ RefInv'
    BY <1>2, <1>3 DEF acquiresleep, CacheTypeOK, RefInv, Users
  <2>2. CASE lock[buf[t]] = None
    <3>1. /\ lock' = [lock EXCEPT ![buf[t]] = t] /\ UNCHANGED <<buf, blockno>>
          /\ pc' = [pc EXCEPT ![t] = IF buf[t] \in valid THEN "use" ELSE "rw"]
          /\ pc[t] = "lock"
      BY <1>3, <2>2, Zenon DEF acquiresleep
    <3>2. LockInv'
      BY <1>2, <2>2, <3>1 DEF LockInv, CacheTypeOK, VirtioTypeOK
    <3> QED BY <2>1, <3>2 DEF HoldInv
  <2>3. CASE lock[buf[t]] # None
    <3>1. /\ UNCHANGED <<lock, buf, blockno>> /\ pc[t] = "lock"
          /\ pc' = [pc EXCEPT ![t] = "lock_asleep"]
      BY <1>3, <2>3, Zenon DEF acquiresleep
    <3>2. LockInv'
      BY <1>2, <2>3, <3>1 DEF LockInv, CacheTypeOK, VirtioTypeOK
    <3> QED BY <2>1, <3>2 DEF HoldInv
  <2> QED BY <2>2, <2>3, Zenon
<1>4. CASE modify(t)
  <2>1. CacheTypeOK'
    <3>1. /\ UNCHANGED <<load, refcnt, blockno, valid, lock, lru, pinned>> /\ pc[t] = "use"
          /\ current' \subseteq current \cup {buf[t]}
      BY <1>4, Zenon DEF modify
    <3> QED BY <1>2, <3>1, Zenon DEF CacheTypeOK
  <2>2. Quiet
    BY <1>4 DEF modify, Quiet, virtioVars
  <2> QED BY <2>1, <2>2, QuietStep, Zenon DEF HoldInv
<1>5. CASE bwrite(t)
  <2>1. CacheTypeOK'
    BY <1>5, Zenon DEF bwrite, CacheTypeOK, cacheVars
  <2>2. Quiet
    BY <1>5 DEF bwrite, Quiet, cacheVars, VirtioTypeOK
  <2> QED BY <2>1, <2>2, QuietStep, Zenon DEF HoldInv
<1>6. CASE bpin(t)
  <2>1. CacheTypeOK'
    BY <1>2, <1>6 DEF bpin, CacheTypeOK
  <2>2. LockInv'
    BY <1>6, Zenon DEF bpin, LockInv, virtioVars
  <2>3. \A b \in Buf : refcnt'[b] = Cardinality(Users(b)) + (IF b \in pinned' THEN 1 ELSE 0)
    BY <1>1, <1>2, <1>6 DEF bpin, RefInv, CacheTypeOK
  <2>4. RefInv'
    BY <1>6, <2>3 DEF bpin, RefInv, Users, virtioVars
  <2> QED BY <2>1, <2>2, <2>4, Zenon DEF HoldInv
<1>7. CASE bunpin(t)
  <2>1. refcnt[buf[t]] = Cardinality(Users(buf[t])) + 1
    BY <1>2, <1>7, Zenon DEF bunpin, RefInv
  <2>2. CacheTypeOK'
    BY <1>1, <1>2, <1>7, <2>1 DEF bunpin, CacheTypeOK
  <2>3. LockInv'
    BY <1>7, Zenon DEF bunpin, LockInv, virtioVars
  <2>4. \A b \in Buf : refcnt'[b] = Cardinality(Users(b)) + (IF b \in pinned' THEN 1 ELSE 0)
    BY <1>1, <1>2, <1>7 DEF bunpin, RefInv, CacheTypeOK
  <2>5. RefInv'
    BY <1>7, <2>4 DEF bunpin, RefInv, Users, virtioVars
  <2> QED BY <2>2, <2>3, <2>5, Zenon DEF HoldInv
<1>8. CASE brelse(t)
  <2>1. CacheTypeOK' /\ RefInv'
    BY <1>2, <1>8 DEF brelse, CacheTypeOK, RefInv, Users
  <2>2. /\ pc'[t] = "put" /\ pc[t] = "use"
        /\ \A u \in Thread : u # t =>
             pc'[u] = pc[u] \/ (pc[u] = "lock_asleep" /\ pc'[u] = "lock")
    BY <1>8, Zenon DEF brelse, wakeup, Runnable
  <2>3. LockInv'
    <3>1. /\ UNCHANGED <<buf, blockno>> /\ lock' = [lock EXCEPT ![buf[t]] = None]
      BY <1>8, Zenon DEF brelse
    <3>2. \A u \in Thread : pc'[u] = "idle" <=> pc[u] = "idle"
      BY <2>2, Zenon
    <3>3. \A u \in Thread : pc'[u] \in HoldPc <=> pc[u] \in HoldPc /\ u # t
      BY <2>2, Zenon
    <3>4. \A u \in Thread : pc[u] \in HoldPc /\ u # t => buf[u] # buf[t] /\ buf[u] \in Buf
      BY <2>2 DEF LockInv, VirtioTypeOK
    <3> HIDE DEF HoldPc, RwPc
    <3>5. lock \in [Buf -> Thread \cup {None}]
      BY DEF CacheTypeOK
    <3> QED BY <1>2, <2>2, <3>1, <3>2, <3>3, <3>4, <3>5 DEF LockInv
  <2> QED BY <2>1, <2>3 DEF HoldInv
<1>9. CASE brelse_put(t)
  <2>1. PICK b \in load.bufs : b = buf[t] /\ b \in Buf
    BY <1>2, <1>9, Zenon DEF brelse_put
  <2>2. /\ pc[t] = "put" /\ pc' = [pc EXCEPT ![t] = "idle"]
        /\ buf' = [buf EXCEPT ![t] = None]
        /\ refcnt' = [refcnt EXCEPT ![b] = @ - 1]
        /\ lru' = lru \/ lru' = ToFront(b)
        /\ UNCHANGED <<blockno, valid, lock, pinned, current, load>>
    BY <1>9, <2>1 DEF brelse_put
  <2>3. /\ Cardinality(Users(b)') = Cardinality(Users(b)) - 1
        /\ Cardinality(Users(b)) \in Nat \ {0}
        /\ \A c \in Buf : c # b => Users(c)' = Users(c)
    BY <2>1, <2>2, CountDown, Zenon
  <2>4. refcnt'[b] = refcnt[b] - 1 /\ \A c \in Buf : c # b => refcnt'[c] = refcnt[c]
    <3>1. refcnt \in [Buf -> Nat]
      BY DEF CacheTypeOK
    <3> QED BY <2>1, <2>2, <3>1, Zenon
  <2>5. \A c \in Buf : refcnt'[c] = Cardinality(Users(c)') + (IF c \in pinned' THEN 1 ELSE 0)
    <3>1. PICK n \in Nat, p \in Nat : n = Cardinality(Users(b)) /\ p = (IF b \in pinned THEN 1 ELSE 0)
      BY <2>3
    <3>2. refcnt[b] = n + p
      BY <2>1, <3>1, Zenon DEF RefInv
    <3>3. refcnt[b] - 1 = (n - 1) + p
      BY <3>1, <3>2
    <3>4. refcnt'[b] = Cardinality(Users(b)') + p
      BY <2>3, <2>4, <3>1, <3>3, Zenon
    <3>5. pinned' = pinned
      BY <2>2, Zenon
    <3> QED BY <2>3, <2>4, <3>1, <3>4, <3>5, Zenon DEF RefInv
  <2>6. refcnt' \in [Buf -> Nat]
    <3>1. refcnt[b] = Cardinality(Users(b)) + (IF b \in pinned THEN 1 ELSE 0)
      BY <2>1, Zenon DEF RefInv
    <3>2. refcnt[b] - 1 \in Nat
      BY <2>3, <3>1
    <3> QED BY <2>2, <3>2, Zenon DEF CacheTypeOK
  <2>7. /\ lru' \in [1..Cardinality(load.bufs) -> load.bufs]
        /\ \A c \in load.bufs : \E i \in DOMAIN lru' : lru'[i] = c
    <3>1. CASE lru' = lru
      BY <3>1, Zenon DEF CacheTypeOK, RefInv
    <3>2. CASE lru' = ToFront(b)
      BY <3>2, ToFrontKeeps, Zenon
    <3> QED BY <2>2, <3>1, <3>2, Zenon
  <2>8. CacheTypeOK'
    BY <2>2, <2>6, <2>7, Zenon DEF CacheTypeOK
  <2>9. RefInv'
    BY <2>2, <2>5, <2>7, Zenon DEF RefInv
  <2>10. LockInv'
    BY <2>1, <2>2 DEF LockInv, CacheTypeOK, VirtioTypeOK
  <2> QED BY <2>8, <2>9, <2>10, Zenon DEF HoldInv
<1>10. ASSUME NEW k \in load.blocks, bget_hit(t, k) \/ bget_miss(t, k) PROVE HoldInv'
  BY <1>10, GetHold
<1> QED BY <1>3, <1>4, <1>5, <1>6, <1>7, <1>8, <1>9, <1>10 DEF Call

\* A step that changes neither buffers nor blocks, nor who reads or writes one.
LEMMA DataKept ==
  ASSUME DataInv, UNCHANGED <<blockno, valid, pinned, lock, current, buf, write>>,
         \A t \in Thread : /\ pc'[t] = "use" <=> pc[t] = "use"
                           /\ pc'[t] \in RwPc <=> pc[t] \in RwPc,
         \A t \in Busy' : Transferred(t)' => buf[t] \in current
  PROVE  DataInv'
<1>1. /\ OneBufferPerBlock' /\ valid' \subseteq current'
      /\ \A t \in Thread : pc'[t] = "use" => buf'[t] \in valid'
      /\ \A t \in Thread : write'[t] => pc'[t] \in RwPc
  BY Zenon DEF DataInv, OneBufferPerBlock
<1>2. \A t \in Thread : pc'[t] \in RwPc => (write'[t] <=> buf'[t] \in valid')
  BY Zenon DEF DataInv
<1>3. /\ \A b \in Buf : blockno'[b] # None /\ blockno'[b] \notin current' =>
                          b \in valid' /\ (b \in pinned' \/ lock'[b] # None)
      /\ \A k \in Block : Cached(k)' = {} => k \in current'
  BY Zenon DEF DataInv, Cached
<1> QED BY <1>1, <1>2, <1>3, Zenon DEF DataInv

\* Requests that go on, or wait, with the same buffer.
LEMMA RequestsKept ==
  ASSUME DataInv, UNCHANGED <<buf, head, owned, used, current>>
  PROVE  \A t \in Busy' : Transferred(t)' => buf[t] \in current
BY DEF DataInv, Busy, Transferred, InRing

\* The driver's steps other than the end of a request.
LEMMA DriverData ==
  ASSUME FiniteSetFacts, VirtioInv, CacheInv, NEW t \in Thread, UNCHANGED cacheVars,
         submit(t) \/ no_descriptors(t) \/ again(t) \/ kkill(t)
  PROVE  DataInv'
<1> VirtioTypeOK /\ ChainInv /\ FlightInv /\ DataInv
  BY Zenon DEF VirtioInv, CacheInv
<1> USE DEF RwPc
<1>2. CASE submit(t)
  <2>1. PICK d \in free : head' = [head EXCEPT ![t] = d]
    BY <1>2, SubmitFacts
  <2>2. /\ UNCHANGED <<used, buf, write, blockno, valid, pinned, lock, current>>
        /\ owned' = owned \cup {buf[t]}
        /\ pc[t] = "rw" /\ pc' = [pc EXCEPT ![t] = "io_asleep"]
    BY <1>2, Zenon DEF submit, cacheVars
  <2>3. d \in Desc /\ ~InRing(used, d)
    BY FlightFacts, Zenon DEF VirtioTypeOK, InFlight
  <2>4. ~Transferred(t)'
    BY <2>1, <2>2, <2>3, Zenon DEF Transferred, InRing, VirtioTypeOK
  <2>5. \A u \in Busy' : u # t => u \in Busy /\ (Transferred(u)' => Transferred(u))
    BY <2>1, <2>2, Zenon DEF Transferred, InRing, VirtioTypeOK, Busy
  <2>6. \A u \in Busy' : Transferred(u)' => buf[u] \in current
    BY <2>4, <2>5, Zenon DEF DataInv
  <2> QED BY <2>2, <2>6, DataKept, Zenon DEF VirtioTypeOK
<1>3. CASE no_descriptors(t)
  <2>1. /\ UNCHANGED <<head, owned, used, buf, write, blockno, valid, pinned, lock, current>>
        /\ \A u \in Thread : /\ pc'[u] = "use" <=> pc[u] = "use"
                             /\ pc'[u] \in RwPc <=> pc[u] \in RwPc
    BY <1>3 DEF no_descriptors, cacheVars, ringVars, wakeup, Runnable, DescSleepers,
                      VirtioTypeOK
  <2> QED BY <2>1, RequestsKept, DataKept, Zenon
<1>4. CASE again(t)
  BY <1>4, RequestsKept, DataKept DEF again, cacheVars, ringVars, VirtioTypeOK
<1>5. CASE kkill(t)
  <2>1. /\ UNCHANGED <<head, owned, used, buf, write, blockno, valid, pinned, lock, current>>
        /\ \A u \in Thread : /\ pc'[u] = "use" <=> pc[u] = "use"
                             /\ pc'[u] \in RwPc <=> pc[u] \in RwPc
    BY <1>5 DEF kkill, cacheVars, ringVars, wakeup, Runnable
  <2> QED BY <2>1, RequestsKept, DataKept, Zenon
<1> QED BY <1>2, <1>3, <1>4, <1>5

\* The interrupt handler: b->disk is cleared for requests in the used ring.
LEMMA HandlerData ==
  ASSUME VirtioInv, CacheInv, Interrupt
  PROVE  DataInv'
<1> VirtioTypeOK /\ ChainInv /\ FlightInv /\ DataInv /\ Exclusive
  BY LocksExclude DEF VirtioInv, CacheInv
<1>2. CASE intr_entry
  <2> DEFINE g == used[used_idx % NUM]
  <2>1. /\ UNCHANGED <<head, buf, write, blockno, valid, pinned, lock, current>>
        /\ owned' = owned \ {info[g]}
        /\ used' = [used EXCEPT ![used_idx % NUM] = None]
        /\ used_idx # usedIdx
        /\ \A u \in Thread : pc'[u] = pc[u] \/ (pc[u] = "io_asleep" /\ pc'[u] = "io")
    BY <1>2 DEF intr_entry, Interrupt, cacheVars, wakeup, Runnable, IoSleepers
  <2>2. g \in Desc /\ InRing(used, g)
    <3>1. /\ used \in [Desc -> Desc \cup {None}] /\ used_idx \in 0..Wrap - 1
          /\ Ring(used, used_idx, usedIdx) /\ Once(used)
      BY DEF VirtioTypeOK, FlightInv
    <3> DEFINE q == [used EXCEPT ![used_idx % NUM] = None]
    <3>2. q = [used EXCEPT ![used_idx % NUM] = None]
      OBVIOUS
    <3> HIDE DEF q
    <3> QED BY <2>1, <3>1, <3>2, RingTake, Zenon
  <2>3. PICK u \in Busy : head[u] = g
    BY <2>2, Zenon DEF FlightInv, InFlight
  <2>4. info[g] = buf[u]
    BY <2>3, ChainFacts, Zenon
  <2> HIDE DEF g
  <2>5. \A w \in Busy : w \in Thread /\ pc[w] \in RwPc /\ head[w] \in Desc
    BY FlightFacts, Zenon DEF ChainInv, Busy, RwPc
  <2>6. ASSUME NEW w \in Busy, Transferred(w)' PROVE Transferred(w)
    <3>1. CASE buf[w] = buf[u]
      <4>1. w = u
        BY <2>5, <3>1, Zenon DEF Exclusive
      <4> QED BY <2>2, <2>3, <4>1, Zenon DEF Transferred
    <3>2. CASE buf[w] # buf[u]
      <4>1. buf[w] \notin owned' => buf[w] \notin owned
        BY <2>1, <2>4, <3>2, Zenon
      <4>2. InRing(used, head[w])' => InRing(used, head[w])
        BY <2>1, <2>5, FlightFacts DEF InRing, VirtioTypeOK
      <4> QED BY <2>1, <2>6, <4>1, <4>2, Zenon DEF Transferred
    <3> QED BY <3>1, <3>2, Zenon
  <2>7. \A w \in Busy' : Transferred(w)' => buf[w] \in current
    BY <2>1, <2>6, Zenon DEF DataInv, Busy
  <2> QED BY <2>1, <2>7, DataKept, Zenon DEF RwPc
<1>3. CASE intr_ack \/ intr_done
  BY <1>3, RequestsKept, DataKept DEF intr_ack, intr_done, Interrupt, cacheVars, ringVars
<1> QED BY <1>2, <1>3 DEF Interrupt, virtio_disk_intr

\* virtio_disk_rw() returns: the device has finished with the buffer.
LEMMA DoneData ==
  ASSUME VirtioInv, CacheInv, NEW t \in Thread, rw_done(t)
  PROVE  DataInv' /\ CacheTypeOK'
<1> VirtioTypeOK /\ ChainInv /\ CacheTypeOK /\ LockInv /\ DataInv /\ Exclusive
  BY LocksExclude, Zenon DEF VirtioInv, CacheInv
<1> USE DEF RwPc
<1>2. /\ pc[t] = "io" /\ buf[t] \notin owned
      /\ head' = [head EXCEPT ![t] = None] /\ write' = [write EXCEPT ![t] = FALSE]
      /\ valid' = valid \cup {buf[t]}
      /\ UNCHANGED <<used, owned, buf, load, lru, refcnt, blockno, pinned, lock, current>>
  BY DEF rw_done, finish, Finished, ringVars
<1>3. /\ pc'[t] = "use" /\ buf[t] \in Buf
      /\ \A u \in Thread : u # t => /\ pc'[u] = "use" <=> pc[u] = "use"
                                    /\ pc'[u] \in RwPc <=> pc[u] \in RwPc
                                    /\ pc[u] \in RwPc => buf[u] # buf[t]
  BY <1>2 DEF rw_done, finish, wakeup, Runnable, DescSleepers, VirtioTypeOK, Exclusive
<1>4. buf[t] \in current
  BY <1>2, Zenon DEF DataInv, Transferred, ChainInv, Busy
<1>5. /\ OneBufferPerBlock' /\ valid' \subseteq current'
      /\ \A u \in Thread : pc'[u] = "use" => buf'[u] \in valid'
      /\ \A u \in Thread : write'[u] => pc'[u] \in RwPc
  BY <1>2, <1>3, <1>4, Zenon DEF DataInv, OneBufferPerBlock, VirtioTypeOK
<1>6. \A u \in Thread : pc'[u] \in RwPc => (write'[u] <=> buf'[u] \in valid')
  BY <1>2, <1>3, Zenon DEF DataInv, VirtioTypeOK
<1>7. /\ \A b \in Buf : blockno'[b] # None /\ blockno'[b] \notin current' =>
                          b \in valid' /\ (b \in pinned' \/ lock'[b] # None)
      /\ \A k \in Block : Cached(k)' = {} => k \in current'
  BY <1>2 DEF DataInv, Cached
<1>8. \A u \in Busy' : Transferred(u)' => buf'[u] \in current'
  BY <1>2, Zenon DEF DataInv, Transferred, InRing, Busy, VirtioTypeOK
<1>9. CacheTypeOK'
  BY <1>2, <1>3, Zenon DEF CacheTypeOK
<1> QED BY <1>5, <1>6, <1>7, <1>8, <1>9, Zenon DEF DataInv

\* A transfer: a write takes the last contents to the disk, a read fetches them.
LEMMA TransferData ==
  ASSUME VirtioInv, CacheInv, NEW h \in Desc, device_transfer(h)
  PROVE  DataInv' /\ CacheTypeOK'
<1> /\ VirtioTypeOK /\ ChainInv /\ FlightInv /\ CacheTypeOK /\ LockInv /\ DataInv
    /\ None \notin Block /\ Buf \cap Block = {}
  BY VirtioConstants, BcacheConstants, Zenon DEF VirtioInv, CacheInv
<1>2. /\ h \in taken /\ used' = [used EXCEPT ![usedIdx % NUM] = h]
      /\ UNCHANGED <<head, owned, pc, buf, write, load, lru, refcnt, blockno, valid, pinned,
                     lock>>
  BY Zenon DEF device_transfer, device_done
<1>3. PICK t \in Busy : head[t] = h
  BY <1>2, Zenon DEF FlightInv, InFlight
<1>4. /\ t \in Thread /\ pc[t] \in RwPc /\ info[h] = buf[t] /\ buf[t] \in Buf
      /\ blockno[buf[t]] \in Block
  <2>1. t \in Thread /\ pc[t] \in {"io", "io_asleep"} /\ info[h] = buf[t]
    BY <1>3, ChainFacts, Zenon DEF ChainInv, Busy
  <2>2. buf[t] \in Buf
    BY <2>1 DEF LockInv, VirtioTypeOK
  <2> QED BY <2>1, <2>2 DEF LockInv, CacheTypeOK, RwPc
<1>5. \A u \in Thread : head[u] = h => u = t
  BY <1>3, <1>4, FlightFacts, Zenon DEF Busy
<1> DEFINE k == blockno[buf[t]]
<1>6. current' = IF write[t] THEN Copied(buf[t], k) ELSE Copied(k, buf[t])
  BY <1>3, <1>4, <1>5, Zenon DEF device_transfer
<1>7. IF write[t] THEN current' = current \cup {k} ELSE current' = current \cup {buf[t]}
  <2>1. CASE write[t]
    BY <1>4, <1>6, <2>1, Zenon DEF DataInv, Copied
  <2>2. CASE ~write[t]
    <3>1. k \in current
      BY <1>4, <2>2, Zenon DEF DataInv
    <3> QED BY <1>6, <2>2, <3>1, Zenon DEF Copied
  <2> QED BY <2>1, <2>2, Zenon
<1>8. buf[t] \in current'
  BY <1>4, <1>7, Zenon DEF DataInv
<1>9. current \subseteq current' /\ current' \subseteq Buf \cup Block
  <2>1. current \subseteq Buf \cup Block
    BY DEF CacheTypeOK
  <2> QED BY <1>4, <1>7, <2>1, Zenon
<1> HIDE DEF k
<1>10. /\ OneBufferPerBlock' /\ valid' \subseteq current'
       /\ \A u \in Thread : pc'[u] = "use" => buf'[u] \in valid'
       /\ \A u \in Thread : write'[u] => pc'[u] \in RwPc
       /\ \A u \in Thread : pc'[u] \in RwPc => (write'[u] <=> buf'[u] \in valid')
  BY <1>2, <1>9, Zenon DEF DataInv, OneBufferPerBlock
<1>11. /\ \A b \in Buf : blockno'[b] # None /\ blockno'[b] \notin current' =>
                           b \in valid' /\ (b \in pinned' \/ lock'[b] # None)
       /\ \A j \in Block : Cached(j)' = {} => j \in current'
  BY <1>2, <1>9, Zenon DEF DataInv, Cached
<1>12. \A u \in Busy' : Transferred(u)' => buf'[u] \in current'
  <2>1. ASSUME NEW u \in Busy, Transferred(u)', u # t PROVE Transferred(u)
    <3>1. head[u] # h
      BY <1>5, <2>1, Zenon DEF Busy
    <3>2. InRing(used, head[u])' => InRing(used, head[u])
      BY <1>2, <3>1 DEF InRing, VirtioTypeOK
    <3> QED BY <1>2, <2>1, <3>2, Zenon DEF Transferred
  <2> QED BY <1>2, <1>8, <1>9, <2>1, Zenon DEF DataInv, Busy
<1>13. CacheTypeOK'
  BY <1>2, <1>9, Zenon DEF CacheTypeOK
<1> QED BY <1>10, <1>11, <1>12, <1>13, Zenon DEF DataInv

\* A buffer whose reference count is 0 has no users and no pin.
LEMMA NobodysBuffer ==
  ASSUME FiniteSetFacts, RefInv, NEW b \in Buf, refcnt[b] = 0
  PROVE  b \notin pinned /\ Users(b) = {}
<1>1. Cardinality(Users(b)) \in Nat /\ (Cardinality(Users(b)) = 0 => Users(b) = {})
  BY Counts, Zenon
<1>2. refcnt[b] = Cardinality(Users(b)) + (IF b \in pinned THEN 1 ELSE 0)
  BY Zenon DEF RefInv
<1> QED BY <1>1, <1>2

\* bget(), which may recycle a buffer: nobody has it, so its block is home.
LEMMA GetData ==
  ASSUME FiniteSetFacts, VirtioInv, CacheInv, NEW t \in Thread, NEW k \in load.blocks,
         bget_hit(t, k) \/ bget_miss(t, k)
  PROVE  DataInv'
<1> /\ VirtioTypeOK /\ ChainInv /\ CacheTypeOK /\ LockInv /\ RefInv /\ DataInv
    /\ None \notin Buf /\ None \notin Block /\ Buf \cap Block = {} /\ None \notin Thread
  BY VirtioConstants, BcacheConstants, Zenon DEF VirtioInv, CacheInv
<1>2. PICK b \in load.bufs :
           /\ pc[t] = "idle" /\ pc' = [pc EXCEPT ![t] = "lock"]
           /\ buf[t] = None /\ buf' = [buf EXCEPT ![t] = b] /\ b \in Buf
           /\ refcnt' = [refcnt EXCEPT ![b] = @ + 1]
           /\ blockno' = [blockno EXCEPT ![b] = k] /\ k \in Block
           /\ UNCHANGED <<load, lru, lock, pinned, write, head, taken, avail>>
           /\ \/ blockno[b] = k /\ UNCHANGED <<valid, current>>
              \/ /\ Cached(k) = {} /\ refcnt[b] = 0
                 /\ valid' = valid \ {b} /\ current' = current \ {b}
  BY GetFacts, Zenon
<1>3. UNCHANGED <<used, owned>>
  BY Zenon DEF bget_hit, bget_miss, ringVars
<1> USE DEF RwPc
<1>4. /\ pc'[t] = "lock" /\ \A u \in Thread : u # t => pc'[u] = pc[u] /\ buf'[u] = buf[u]
      /\ t \notin Busy /\ Busy' = Busy
  BY <1>2, Zenon DEF VirtioTypeOK, ChainInv, Busy
<1>5. CASE blockno[b] = k /\ UNCHANGED <<valid, current>>
  <2>1. blockno' = blockno
    BY <1>2, <1>5, Zenon DEF CacheTypeOK
  <2>2. /\ OneBufferPerBlock' /\ valid' \subseteq current'
        /\ \A u \in Thread : pc'[u] = "use" => buf'[u] \in valid'
        /\ \A u \in Thread : write'[u] => pc'[u] \in RwPc
    <3>1. OneBufferPerBlock'
      BY <2>1, Zenon DEF DataInv, OneBufferPerBlock
    <3>2. valid' \subseteq current' /\ \A u \in Thread : write'[u] => pc'[u] \in RwPc
      BY <1>2, <1>4, <1>5, Zenon DEF DataInv
    <3>3. \A u \in Thread : pc'[u] = "use" => buf'[u] \in valid'
      BY <1>4, <1>5, Zenon DEF DataInv
    <3> QED BY <3>1, <3>2, <3>3, Zenon
  <2>3. \A u \in Thread : pc'[u] \in RwPc => (write'[u] <=> buf'[u] \in valid')
    BY <1>2, <1>4, <1>5, Zenon DEF DataInv
  <2>4. /\ \A c \in Buf : blockno'[c] # None /\ blockno'[c] \notin current' =>
                            c \in valid' /\ (c \in pinned' \/ lock'[c] # None)
        /\ \A j \in Block : Cached(j)' = {} => j \in current'
        /\ \A u \in Busy' : Transferred(u)' => buf'[u] \in current'
    <3>1. \A c \in Buf : blockno'[c] # None /\ blockno'[c] \notin current' =>
                           c \in valid' /\ (c \in pinned' \/ lock'[c] # None)
      BY <1>2, <1>5, <2>1, Zenon DEF DataInv
    <3>2. \A j \in Block : Cached(j)' = {} => j \in current'
      <4>1. \A j \in Block : Cached(j)' = Cached(j)
        BY <2>1, Zenon DEF Cached
      <4> QED BY <1>5, <4>1, Zenon DEF DataInv
    <3>3. ASSUME NEW u \in Busy, Transferred(u)' PROVE buf'[u] \in current'
      <4>1. head' = head /\ used' = used /\ owned' = owned /\ buf'[u] = buf[u]
        BY <1>2, <1>3, <1>4, Zenon DEF Busy
      <4>2. Transferred(u)
        BY <3>3, <4>1, Zenon DEF Transferred, InRing
      <4> QED BY <1>5, <4>1, <4>2, Zenon DEF DataInv
    <3> QED BY <1>4, <3>1, <3>2, <3>3, Zenon
  <2> QED BY <2>2, <2>3, <2>4, Zenon DEF DataInv
<1>6. CASE /\ Cached(k) = {} /\ refcnt[b] = 0
           /\ valid' = valid \ {b} /\ current' = current \ {b}
  <2>1. b \notin pinned /\ Users(b) = {}
    BY <1>2, <1>6, NobodysBuffer, Zenon
  <2>2. lock[b] = None /\ \A u \in Thread : buf[u] # b
    <3>1. \A u \in Thread : buf[u] # b
      BY <2>1, Zenon DEF Users
    <3>2. lock[b] \in Thread \cup {None}
      BY <1>2, Zenon DEF CacheTypeOK
    <3> QED BY <1>2, <3>1, <3>2, Zenon DEF LockInv
  <2>3. blockno[b] # None => blockno[b] \in current
    BY <1>2, <2>1, <2>2, Zenon DEF DataInv
  <2>4. \A j \in Block : j \in current' <=> j \in current
    BY <1>2, <1>6, Zenon
  <2>5. blockno'[b] = k /\ \A c \in Buf : c # b => blockno'[c] = blockno[c] /\ blockno[c] # k
    BY <1>2, <1>6, Zenon DEF CacheTypeOK, Cached
  <2>6. /\ OneBufferPerBlock' /\ valid' \subseteq current'
        /\ \A u \in Thread : pc'[u] = "use" => buf'[u] \in valid'
        /\ \A u \in Thread : write'[u] => pc'[u] \in RwPc
    <3>1. OneBufferPerBlock'
      BY <2>5 DEF DataInv, OneBufferPerBlock
    <3>2. valid' \subseteq current' /\ \A u \in Thread : write'[u] => pc'[u] \in RwPc
      BY <1>2, <1>4, <1>6, Zenon DEF DataInv
    <3>3. \A u \in Thread : pc'[u] = "use" => buf'[u] \in valid'
      BY <1>2, <1>4, <1>6, <2>2, Zenon DEF DataInv
    <3> QED BY <3>1, <3>2, <3>3, Zenon
  <2>7. \A u \in Thread : pc'[u] \in RwPc => (write'[u] <=> buf'[u] \in valid')
    BY <1>2, <1>4, <1>6, <2>2, Zenon DEF DataInv
  <2>8. ASSUME NEW c \in Buf, blockno'[c] # None, blockno'[c] \notin current'
        PROVE  c \in valid' /\ (c \in pinned' \/ lock'[c] # None)
    <3>1. k \in current'
      BY <1>2, <1>6, <2>4, Zenon DEF DataInv
    <3>2. c # b /\ blockno'[c] = blockno[c]
      BY <2>5, <2>8, <3>1, Zenon
    <3>3. blockno[c] \in Block /\ blockno[c] \notin current
      BY <2>4, <2>8, <3>2, Zenon DEF CacheTypeOK
    <3>4. c \in valid /\ (c \in pinned \/ lock[c] # None)
      BY <2>8, <3>2, <3>3, Zenon DEF DataInv
    <3> QED BY <1>2, <1>6, <3>2, <3>4, Zenon
  <2>9. ASSUME NEW j \in Block, Cached(j)' = {} PROVE j \in current'
    <3>1. j # k /\ \A c \in Buf : c # b => blockno[c] # j
      BY <1>2, <2>5, <2>9 DEF Cached
    <3>2. CASE blockno[b] = j
      BY <2>3, <2>4, <3>2, Zenon
    <3>3. CASE blockno[b] # j
      BY <2>4, <3>1, <3>3, Zenon DEF Cached, DataInv
    <3> QED BY <3>2, <3>3, Zenon
  <2>10. \A u \in Busy' : Transferred(u)' => buf'[u] \in current'
    <3>1. ASSUME NEW u \in Busy
          PROVE  u \in Thread /\ buf'[u] = buf[u] /\ buf[u] # b
      BY <1>4, <2>2, <3>1, Zenon DEF Busy
    <3>2. ASSUME NEW u \in Busy, Transferred(u)' PROVE Transferred(u)
      <4>1. head' = head /\ used' = used /\ owned' = owned /\ buf'[u] = buf[u]
        BY <1>2, <1>3, <3>1, Zenon
      <4> QED BY <3>2, <4>1, Zenon DEF Transferred, InRing
    <3> QED BY <1>4, <1>6, <3>1, <3>2, Zenon DEF DataInv
  <2> QED BY <2>6, <2>7, <2>8, <2>9, <2>10, Zenon DEF DataInv
<1> QED BY <1>2, <1>5, <1>6

\* What a thread does with the buffer it holds.
LEMMA UseData ==
  ASSUME VirtioInv, CacheInv, NEW t \in Thread,
         acquiresleep(t) \/ modify(t) \/ bwrite(t) \/ bpin(t) \/ bunpin(t) \/ brelse(t)
           \/ brelse_put(t)
  PROVE  DataInv'
<1> /\ VirtioTypeOK /\ ChainInv /\ CacheTypeOK /\ LockInv /\ DataInv
    /\ None \notin Buf /\ None \notin Block /\ Buf \cap Block = {} /\ None \notin Thread
  BY VirtioConstants, BcacheConstants DEF VirtioInv, CacheInv
<1> USE DEF RwPc
<1>2. /\ pc[t] \notin {"idle", "io", "io_asleep"}
      /\ UNCHANGED <<head, owned, used>> /\ t \notin Busy /\ Busy' = Busy
  BY Zenon DEF acquiresleep, modify, bwrite, bpin, bunpin, brelse, brelse_put, virtioVars,
              ringVars, ChainInv, Busy
<1>3. buf[t] \in Buf /\ blockno[buf[t]] \in Block
  <2>1. buf[t] # None /\ blockno[buf[t]] # None
    BY <1>2, Zenon DEF LockInv
  <2>2. buf[t] \in Buf
    BY <2>1, Zenon DEF VirtioTypeOK
  <2> QED BY <2>1, <2>2, Zenon DEF CacheTypeOK
<1>4. (\A u \in Thread : u # t => buf'[u] = buf[u]) /\ UNCHANGED current =>
        \A u \in Busy' : Transferred(u)' => buf'[u] \in current'
  BY <1>2, Zenon DEF DataInv, Transferred, InRing, Busy
<1>5. CASE acquiresleep(t)
  <2>1. /\ UNCHANGED <<buf, write, blockno, valid, pinned, current>>
        /\ pc[t] = "lock" /\ \A b \in Buf : lock[b] # None => lock'[b] # None
        /\ pc'[t] \in RwPc \cup {"use", "lock_asleep"}
        /\ pc'[t] = "use" => buf[t] \in valid
        /\ pc'[t] \in RwPc => buf[t] \notin valid
        /\ \A u \in Thread : u # t => pc'[u] = pc[u]
    <3>1. UNCHANGED <<buf, write, blockno, valid, pinned, current>> /\ pc[t] = "lock"
      BY <1>5, Zenon DEF acquiresleep
    <3>2. \A b \in Buf : lock[b] # None => lock'[b] # None
      BY <1>3, <1>5, Zenon DEF acquiresleep, CacheTypeOK
    <3>3. /\ lock[buf[t]] # None => pc'[t] = "lock_asleep"
          /\ lock[buf[t]] = None /\ buf[t] \in valid => pc'[t] = "use"
          /\ lock[buf[t]] = None /\ buf[t] \notin valid => pc'[t] = "rw"
          /\ \A u \in Thread : u # t => pc'[u] = pc[u]
      BY <1>5, Zenon DEF acquiresleep, VirtioTypeOK
    <3> QED BY <3>1, <3>2, <3>3, Zenon
  <2>2. ~write[t]
    BY <2>1, Zenon DEF DataInv
  <2>3. /\ OneBufferPerBlock' /\ valid' \subseteq current'
        /\ \A u \in Thread : pc'[u] = "use" => buf'[u] \in valid'
        /\ \A u \in Thread : write'[u] => pc'[u] \in RwPc
    BY <2>1, <2>2, Zenon DEF DataInv, OneBufferPerBlock
  <2>4. \A u \in Thread : pc'[u] \in RwPc => (write'[u] <=> buf'[u] \in valid')
    BY <2>1, <2>2, Zenon DEF DataInv
  <2>5. /\ \A b \in Buf : blockno'[b] # None /\ blockno'[b] \notin current' =>
                            b \in valid' /\ (b \in pinned' \/ lock'[b] # None)
        /\ \A k \in Block : Cached(k)' = {} => k \in current'
    BY <2>1, Zenon DEF DataInv, Cached
  <2> QED BY <1>4, <2>1, <2>3, <2>4, <2>5, Zenon DEF DataInv
<1>6. CASE modify(t)
  <2> DEFINE k == blockno[buf[t]]
  <2>1. /\ UNCHANGED <<pc, buf, write, blockno, valid, pinned, lock>>
        /\ pc[t] = "use" /\ k \in Block
        /\ current' = (current \ ({k} \cup Cached(k))) \cup {buf[t]}
    BY <1>3, <1>6, Zenon DEF modify, virtioVars
  <2>2. \A b \in Buf : b # buf[t] => blockno[b] # k
    BY <1>3, <2>1, Zenon DEF DataInv, OneBufferPerBlock
  <2> HIDE DEF k
  <2>3. /\ \A b \in Buf : b \in current' <=> b \in current \/ b = buf[t]
        /\ \A j \in Block : j # k => (j \in current' <=> j \in current)
    BY <1>3, <2>1, <2>2, Zenon DEF Cached
  <2>4. buf[t] \in valid /\ lock[buf[t]] = t /\ blockno[buf[t]] = k
    BY <2>1, Zenon DEF DataInv, LockInv, HoldPc, k
  <2>5. /\ OneBufferPerBlock' /\ valid' \subseteq current'
        /\ \A u \in Thread : pc'[u] = "use" => buf'[u] \in valid'
        /\ \A u \in Thread : write'[u] => pc'[u] \in RwPc
    BY <2>1, <2>3, Zenon DEF DataInv, OneBufferPerBlock, CacheTypeOK
  <2>6. \A u \in Thread : pc'[u] \in RwPc => (write'[u] <=> buf'[u] \in valid')
    BY <2>1, Zenon DEF DataInv
  <2>7. ASSUME NEW b \in Buf, blockno'[b] # None, blockno'[b] \notin current'
        PROVE  b \in valid' /\ (b \in pinned' \/ lock'[b] # None)
    <3>1. CASE b = buf[t]
      BY <2>1, <2>4, <3>1, Zenon
    <3>2. CASE b # buf[t]
      <4>1. blockno[b] \in Block /\ blockno[b] # k
        BY <2>1, <2>2, <2>7, <3>2, Zenon DEF CacheTypeOK
      <4> QED BY <2>1, <2>3, <2>7, <4>1, Zenon DEF DataInv
    <3> QED BY <3>1, <3>2, Zenon
  <2>8. \A j \in Block : Cached(j)' = {} => j \in current'
    BY <1>3, <2>1, <2>3, <2>4, Zenon DEF DataInv, Cached
  <2>9. \A u \in Busy' : Transferred(u)' => buf'[u] \in current'
    <3>1. \A u \in Busy : u \in Thread /\ pc[u] \in RwPc
      BY Zenon DEF ChainInv, Busy
    <3>2. ASSUME NEW u \in Busy PROVE buf[u] \in Buf
      <4>1. pc[u] # "idle"
        BY <3>1, Zenon
      <4>2. buf[u] # None
        BY <3>1, <4>1, Zenon DEF LockInv
      <4> QED BY <3>1, <4>2, Zenon DEF VirtioTypeOK
    <3> QED BY <1>2, <2>1, <2>3, <3>2, Zenon DEF DataInv, Transferred, InRing
  <2> QED BY <2>5, <2>6, <2>7, <2>8, <2>9, Zenon DEF DataInv
<1>7. CASE bwrite(t)
  <2>1. /\ UNCHANGED <<buf, blockno, valid, pinned, lock, current>>
        /\ pc[t] = "use" /\ pc'[t] = "rw" /\ write'[t] /\ buf[t] \in valid
        /\ \A u \in Thread : u # t => pc'[u] = pc[u] /\ write'[u] = write[u]
    BY <1>7, Zenon DEF bwrite, cacheVars, VirtioTypeOK, DataInv
  <2>2. /\ OneBufferPerBlock' /\ valid' \subseteq current'
        /\ \A u \in Thread : pc'[u] = "use" => buf'[u] \in valid'
        /\ \A u \in Thread : write'[u] => pc'[u] \in RwPc
    BY <2>1, Zenon DEF DataInv, OneBufferPerBlock
  <2>3. \A u \in Thread : pc'[u] \in RwPc => (write'[u] <=> buf'[u] \in valid')
    BY <2>1, Zenon DEF DataInv
  <2>4. /\ \A b \in Buf : blockno'[b] # None /\ blockno'[b] \notin current' =>
                            b \in valid' /\ (b \in pinned' \/ lock'[b] # None)
        /\ \A k \in Block : Cached(k)' = {} => k \in current'
    BY <2>1, Zenon DEF DataInv, Cached
  <2> QED BY <1>4, <2>1, <2>2, <2>3, <2>4, Zenon DEF DataInv
<1>8. CASE bpin(t) \/ bunpin(t) \/ brelse(t) \/ brelse_put(t)
  <2>1. /\ UNCHANGED <<write, blockno, valid, current>>
        /\ pc[t] \in {"use", "put"} /\ pc'[t] \in {"use", "put", "idle"}
        /\ pc'[t] = "use" => pc[t] = "use" /\ buf'[t] = buf[t]
        /\ \A u \in Thread : u # t => /\ buf'[u] = buf[u]
                                      /\ pc'[u] = "use" <=> pc[u] = "use"
                                      /\ pc'[u] \in RwPc <=> pc[u] \in RwPc
    BY <1>8, Zenon DEF bpin, bunpin, brelse, brelse_put, virtioVars, wakeup, Runnable, VirtioTypeOK
  <2>2. \A b \in Buf : \/ b \in pinned => b \in pinned'
                       \/ blockno[b] \in current
    BY <1>8, Zenon DEF bpin, bunpin, brelse, brelse_put, Home
  <2>3. \A b \in Buf : \/ lock[b] # None => lock'[b] # None
                       \/ b \in pinned' \/ blockno[b] \in current
    BY <1>8, Zenon DEF bpin, bunpin, brelse, brelse_put, Home, CacheTypeOK
  <2>4. /\ OneBufferPerBlock' /\ valid' \subseteq current'
        /\ \A u \in Thread : pc'[u] = "use" => buf'[u] \in valid'
        /\ \A u \in Thread : write'[u] => pc'[u] \in RwPc
    BY <2>1, Zenon DEF DataInv, OneBufferPerBlock
  <2>5. \A u \in Thread : pc'[u] \in RwPc => (write'[u] <=> buf'[u] \in valid')
    BY <2>1 DEF DataInv
  <2>6. /\ \A b \in Buf : blockno'[b] # None /\ blockno'[b] \notin current' =>
                            b \in valid' /\ (b \in pinned' \/ lock'[b] # None)
        /\ \A k \in Block : Cached(k)' = {} => k \in current'
    BY <2>1, <2>2, <2>3, Zenon DEF DataInv, Cached
  <2> QED BY <1>4, <2>1, <2>4, <2>5, <2>6, Zenon DEF DataInv
<1> QED BY <1>5, <1>6, <1>7, <1>8, Zenon

(***************************************************************************)
(* The invariant, and what it gives.                                        *)
(***************************************************************************)

LEMMA CacheStep ==
  ASSUME FiniteSetFacts, VirtioInv, CacheInv, [Next]_vars
  PROVE  CacheInv'
<1> VirtioTypeOK /\ CacheTypeOK /\ LockInv /\ RefInv /\ DataInv /\ HoldInv /\ valid \subseteq Buf
  BY DEF VirtioInv, CacheInv, HoldInv, CacheTypeOK
<1>2. ASSUME NEW t \in Thread, Call(t) PROVE CacheInv'
  <2>1. HoldInv'
    BY <1>2, CallHold, Zenon
  <2>2. DataInv'
    BY <1>2, GetData, UseData, Zenon DEF Call
  <2> QED BY <2>1, <2>2 DEF HoldInv, CacheInv
<1>3. CASE ~(\E t \in Thread : Call(t))
  <2>1. LockInv' /\ RefInv'
    BY <1>3, DriverQuiet, QuietStep, Zenon
  <2>2. UNCHANGED cacheVars => CacheTypeOK'
    BY DEF CacheTypeOK, cacheVars
  <2>3. DataInv' /\ CacheTypeOK'
    <3>1. ASSUME NEW t \in Thread, Rw(t) \/ (kkill(t) /\ UNCHANGED cacheVars)
          PROVE  DataInv' /\ CacheTypeOK'
      BY <2>2, <3>1, DriverData, DoneData DEF Rw
    <3>2. CASE \E h \in Desc : device_transfer(h)
      BY <3>2, TransferData
    <3>3. CASE device_take /\ UNCHANGED cacheVars
      <4>1. UNCHANGED <<pc, buf, head, write, owned, used, current, blockno, valid, pinned, lock>>
        BY <3>3 DEF device_take, cacheVars
      <4> QED BY <2>2, <3>3, <4>1, RequestsKept, DataKept, Zenon
    <3>4. CASE Interrupt
      BY <2>2, <3>4, HandlerData DEF Interrupt
    <3>5. CASE UNCHANGED vars
      <4>1. UNCHANGED <<pc, buf, head, write, owned, used, current, blockno, valid, pinned, lock>>
        BY <3>5 DEF vars, virtioVars, ringVars, cacheVars
      <4> QED BY <2>2, <3>5, <4>1, RequestsKept, DataKept, Zenon DEF vars
    <3> QED BY <1>3, <3>1, <3>2, <3>3, <3>4, <3>5 DEF Next, DeviceStep
  <2> QED BY <2>1, <2>3 DEF CacheInv
<1> QED BY <1>2, <1>3

(***************************************************************************)
(* The initial states.                                                      *)
(***************************************************************************)

LEMMA DriverInit ==
  ASSUME Init
  PROVE  VirtioInv
<1>1. /\ None \notin Desc /\ NUM \in Nat /\ NUM >= 3 /\ 0 \in 0..Wrap - 1 /\ 0 % Wrap = 0
      /\ 0 \in 0..NUM - 1
  BY WrapFits, VirtioConstants DEF Desc
<1>2. VirtioInit /\ Busy = {} /\ DescSleepers = {}
  BY DEF Init, VirtioInit, Busy, DescSleepers
<1>3. VirtioTypeOK
  BY <1>1, <1>2, Zenon DEF VirtioInit, VirtioTypeOK
<1>4. ChainInv
  BY <1>2 DEF VirtioInit, ChainInv
<1>5. FlightInv
  <2>1. ASSUME NEW r, r = [d \in Desc |-> None]
        PROVE  Ring(r, 0, 0) /\ Once(r) /\ \A h \in Desc : ~InRing(r, h)
    <3>1. \A i \in 0..NUM - 1 : (0 + i) % NUM \in Desc
      BY <1>1 DEF Desc
    <3>2. Window(r, 0, 0, 0)
      BY <1>1, <2>1, <3>1 DEF Window
    <3> QED BY <1>1, <2>1, <3>2 DEF Ring, Once, InRing
  <2>2. Ring(avail, 0, 0) /\ Once(avail) /\ \A h \in Desc : ~InRing(avail, h)
    BY <1>2, <2>1 DEF VirtioInit
  <2>3. Ring(used, 0, 0) /\ Once(used) /\ \A h \in Desc : ~InRing(used, h)
    BY <1>2, <2>1 DEF VirtioInit
  <2> QED BY <1>2, <2>2, <2>3 DEF VirtioInit, FlightInv, InFlight
<1>6. WakeInv
  BY <1>2 DEF VirtioInit, WakeInv
<1> QED BY <1>3, <1>4, <1>5, <1>6, Zenon DEF VirtioInv

LEMMA CacheInit ==
  ASSUME Init, Cardinality({}) = 0, NEW f \in Bijection(1..Cardinality(load.bufs), load.bufs)
  PROVE  CacheInv
<1>1. VirtioInit /\ None \notin Buf /\ load \in Load /\ load.bufs \subseteq Buf
  BY VirtioConstants, BcacheConstants DEF Init
<1>2. lru \in Bijection(1..Cardinality(load.bufs), load.bufs)
  <2>1. lru = CHOOSE g \in Bijection(1..Cardinality(load.bufs), load.bufs) : TRUE
    BY Zenon DEF Init
  <2> QED BY <2>1, Zenon
<1>3. /\ lru \in [1..Cardinality(load.bufs) -> load.bufs]
      /\ \A b \in load.bufs : \E i \in DOMAIN lru : lru[i] = b
  BY <1>2 DEF Bijection, Injection, Surjection
<1>4. CacheTypeOK
  <2>1. /\ refcnt = [b \in Buf |-> 0] /\ pinned = {} /\ blockno = [b \in Buf |-> None]
        /\ valid = {} /\ lock = [b \in Buf |-> None] /\ current = Block
    BY Zenon DEF Init
  <2> QED BY <1>1, <1>3, <2>1 DEF CacheTypeOK
<1>5. LockInv
  BY <1>1 DEF Init, VirtioInit, LockInv, HoldPc, RwPc
<1>6. RefInv
  <2>1. ASSUME NEW b \in Buf PROVE Users(b) = {}
    BY <1>1 DEF VirtioInit, Users
  <2>2. /\ refcnt = [b \in Buf |-> 0] /\ pinned = {} /\ blockno = [b \in Buf |-> None]
    BY Zenon DEF Init
  <2>3. \A b \in Buf : Cardinality(Users(b)) = 0
    BY <2>1, Zenon
  <2>4. 0 = 0 + 0
    OBVIOUS
  <2> QED BY <1>3, <2>2, <2>3, <2>4, Zenon DEF RefInv
<1>7. DataInv
  <2>1. VirtioInit /\ Busy = {} /\ DescSleepers = {}
    BY Zenon DEF Init, VirtioInit, Busy, DescSleepers
  <2> QED BY <2>1, Zenon DEF Init, VirtioInit, DataInv, OneBufferPerBlock, RwPc
<1> QED BY <1>4, <1>5, <1>6, <1>7, Zenon DEF CacheInv

(***************************************************************************)
(* What the invariants say.                                                 *)
(***************************************************************************)

\* Of descriptors ...
LEMMA ChainsExact ==
  ASSUME VirtioInv,
         \A a, b, c : a # b /\ a # c /\ b # c => Cardinality({a, b, c}) = 3
  PROVE  DescriptorsExact
<1>1. VirtioTypeOK /\ ChainInv
  BY DEF VirtioInv
<1>2. ASSUME NEW t \in Busy
      PROVE  Cardinality(Chain(t)) = 3 /\ Chain(t) \subseteq Desc
  <2> DEFINE d1 == head[t]
             d2 == next[d1]
             d3 == next[d2]
  <2>1. d1 \in Desc /\ d2 \in Desc /\ d3 \in Desc
    BY <1>1, ChainFacts, Zenon
  <2>2. Chain(t) = {d1, d2, d3}
    BY <1>1, ChainFacts, Zenon
  <2>3. d1 # d2 /\ d1 # d3 /\ d2 # d3
    BY <1>1, Zenon DEF ChainInv, Linked
  <2> HIDE DEF d1, d2, d3
  <2>4. Cardinality({d1, d2, d3}) = 3
    BY <2>3, Zenon
  <2> QED BY <2>1, <2>2, <2>4
<1>3. free = Desc \ UNION {Chain(t) : t \in Busy}
  BY <1>1, <1>2 DEF ChainInv, VirtioTypeOK
<1> QED BY <1>1, <1>2, <1>3 DEF ChainInv, DescriptorsExact

\* ... of the rings and the device ...
LEMMA RingsOwned ==
  ASSUME VirtioInv
  PROVE  DeviceHasOwner
<1> SUFFICES ASSUME NEW h \in (taken \cup Range(avail) \cup Range(used)) \ {None}
             PROVE  \E t \in Thread : /\ head[t] = h /\ pc[t] \in {"io", "io_asleep"}
                                      /\ info[h] = buf[t] /\ buf[t] \in owned
  BY DEF DeviceHasOwner
<1>1. VirtioTypeOK /\ ChainInv /\ FlightInv
  BY DEF VirtioInv
<1>2. h \in Desc /\ InFlight(h)
  <2>1. taken \subseteq Desc /\ avail \in [Desc -> Desc \cup {None}] /\ used \in [Desc -> Desc \cup {None}]
    BY <1>1, Zenon DEF VirtioTypeOK
  <2> QED BY <2>1, Zenon DEF InFlight, InRing, Range
<1>3. PICK t \in Busy : head[t] = h /\ buf[t] \in owned
  BY <1>1, <1>2 DEF FlightInv
<1> QED BY <1>1, <1>3, ChainFacts, Zenon DEF ChainInv, Busy

\* ... of buffers ...
LEMMA BuffersCurrent ==
  ASSUME CacheInv
  PROVE  OneBufferPerBlock /\ SeesLastWrite
<1>1. DataInv /\ LockInv
  BY Zenon DEF CacheInv
<1>2. OneBufferPerBlock
  BY <1>1, Zenon DEF DataInv
<1>3. \A t \in Thread : pc[t] = "use" => buf[t] \in current
  BY <1>1, Zenon DEF DataInv
<1>4. \A t \in Thread : pc[t] = "use" => lock[buf[t]] = t
  BY <1>1, Zenon DEF LockInv, HoldPc
<1> QED BY <1>2, <1>3, <1>4, Zenon DEF SeesLastWrite

\* ... and of sleepers.
LEMMA SleepersHeld ==
  ASSUME VirtioInv
  PROVE  NoRequestForgotten
<1>1. VirtioTypeOK /\ ChainInv /\ FlightInv /\ WakeInv
  BY DEF VirtioInv
<1>2. ASSUME NEW t \in Thread, pc[t] = "io_asleep"
      PROVE  head[t] \in taken \cup Range(avail) \cup Range(used)
  <2>1. t \in Busy /\ buf[t] \in owned
    BY <1>1, <1>2, Zenon DEF ChainInv, Busy, WakeInv
  <2>2. InFlight(head[t])
    BY <1>1, <2>1 DEF FlightInv
  <2> QED BY <1>1, <2>2 DEF InFlight, InRing, Range, VirtioTypeOK
<1> QED BY <1>1, <1>2 DEF WakeInv, NoRequestForgotten

(***************************************************************************)
(* Finite sets.                                                             *)
(***************************************************************************)

FS == INSTANCE FiniteSetTheorems

\* The library's finite sets are the model's.
LEMMA SameFinite ==
  /\ \A S : FS!IsFiniteSet(S) <=> IsFiniteSet(S)
  /\ \A S : FS!Cardinality(S) = Cardinality(S)
BY DEF IsFiniteSet, FS!IsFiniteSet, Cardinality, FS!Cardinality

\* Sizes of sets, with one element more or less, and of subsets.
LEMMA Sizes ==
  /\ \A S : IsFiniteSet(S) => Cardinality(S) \in Nat /\ (Cardinality(S) = 0 <=> S = {})
  /\ IsFiniteSet({}) /\ Cardinality({}) = 0
  /\ \A S, T : IsFiniteSet(S) /\ T \in SUBSET S => IsFiniteSet(T)
BY SameFinite, FS!FS_CardinalityType, FS!FS_EmptySet, FS!FS_Subset, Zenon

LEMMA SizeAdd ==
  ASSUME NEW S, IsFiniteSet(S), NEW x, x \notin S
  PROVE  IsFiniteSet(S \cup {x}) /\ Cardinality(S \cup {x}) = Cardinality(S) + 1
BY SameFinite, FS!FS_AddElement, Zenon

LEMMA SizeRemove ==
  ASSUME NEW S, IsFiniteSet(S), NEW x \in S
  PROVE  IsFiniteSet(S \ {x}) /\ Cardinality(S \ {x}) = Cardinality(S) - 1
BY SameFinite, FS!FS_RemoveElement, Zenon

LEMMA SizeOne ==
  ASSUME NEW x
  PROVE  IsFiniteSet({x}) /\ Cardinality({x}) = 1
BY SameFinite, FS!FS_Singleton, Zenon

\* More pigeons than holes.
LEMMA PigeonHole ==
  ASSUME NEW S, IsFiniteSet(S), NEW T, IsFiniteSet(T), Cardinality(T) < Cardinality(S),
         NEW f \in [S -> T]
  PROVE  \E x, y \in S : x # y /\ f[x] = f[y]
<1>1. FS!IsFiniteSet(S) /\ FS!IsFiniteSet(T) /\ FS!Cardinality(T) < FS!Cardinality(S)
  BY SameFinite, Zenon
<1> QED BY <1>1, FS!FS_PigeonHole, Zenon

\* The descriptors.
LEMMA Descriptors ==
  Desc \subseteq Nat /\ IsFiniteSet(Desc) /\ Cardinality(Desc) = NUM /\ NUM \in Nat
<1>1. NUM \in Nat /\ NUM >= 3 /\ Desc = 0..NUM - 1
  BY WrapFits DEF Desc
<1>2. PICK z \in Int, n \in Int : z = 0 /\ n = NUM - 1
  BY <1>1
<1>3. IsFiniteSet(z..n) /\ Cardinality(z..n) = IF z > n THEN 0 ELSE n - z + 1
  BY SameFinite, FS!FS_Interval, Zenon
<1> QED BY <1>1, <1>2, <1>3

\* A non-empty set of numbers has a least one.
LEMMA Lowest ==
  ASSUME NEW S, S \subseteq Nat, S # {}
  PROVE  \E x \in S : \A y \in S : x <= y
<1>1. PICK x \in S : \A y \in S : ~(<<y, x>> \in FS!OpToRel(<, Nat))
  BY FS!NatLessThanWellFounded, FS!WFMin, Zenon
<1>2. \A y \in S : x <= y
  <2>1. ASSUME NEW y \in S PROVE ~(y < x)
    BY <1>1, <2>1, Zenon DEF FS!OpToRel
  <2> QED BY <2>1
<1> QED BY <1>2, Zenon

\* Two and three different things.
LEMMA Pair ==
  ASSUME NEW a, NEW b, a # b
  PROVE  IsFiniteSet({a, b}) /\ Cardinality({a, b}) = 2
<1>1. {a, b} = {a} \cup {b}
  OBVIOUS
<1>2. IsFiniteSet({a}) /\ Cardinality({a}) = 1 /\ b \notin {a}
  BY SizeOne, Zenon
<1> QED BY <1>1, <1>2, SizeAdd

LEMMA Triple ==
  ASSUME NEW a, NEW b, NEW c, a # b, a # c, b # c
  PROVE  IsFiniteSet({a, b, c}) /\ Cardinality({a, b, c}) = 3
<1>1. {a, b, c} = {a, b} \cup {c}
  OBVIOUS
<1>2. IsFiniteSet({a, b}) /\ Cardinality({a, b}) = 2 /\ c \notin {a, b}
  BY Pair, Zenon
<1> QED BY <1>1, <1>2, SizeAdd

\* alloc3_desc() finds three different free descriptors.
LEMMA Alloc ==
  ASSUME free \subseteq Desc, Cardinality(free) >= 3
  PROVE  /\ alloc_desc(1) \in free /\ alloc_desc(2) \in free /\ alloc_desc(3) \in free
         /\ alloc_desc(1) # alloc_desc(2) /\ alloc_desc(1) # alloc_desc(3)
         /\ alloc_desc(2) # alloc_desc(3)
<1> DEFINE Below(d) == {e \in free : e < d}
<1>1. free \subseteq Nat /\ IsFiniteSet(free)
  BY Descriptors, Sizes, Zenon
<1>2. PICK a \in free : \A y \in free : a <= y
  <2>1. free # {}
    BY Sizes
  <2> QED BY <1>1, <2>1, Lowest, Zenon
<1>3. IsFiniteSet(free \ {a}) /\ Cardinality(free \ {a}) = Cardinality(free) - 1
  BY <1>1, <1>2, SizeRemove, Zenon
<1>4. Cardinality(free) \in Nat
  BY <1>1, Sizes, Zenon
<1>5. PICK b \in free \ {a} : \A y \in free \ {a} : b <= y
  <2>1. free \ {a} # {}
    BY <1>3, <1>4, Sizes
  <2> QED BY <1>1, <2>1, Lowest, Zenon
<1>6. PICK c \in (free \ {a}) \ {b} : \A y \in (free \ {a}) \ {b} : c <= y
  <2>1. Cardinality((free \ {a}) \ {b}) = Cardinality(free \ {a}) - 1
    BY <1>3, <1>5, SizeRemove, Zenon
  <2>2. (free \ {a}) \ {b} # {}
    BY <1>3, <1>4, <2>1, Sizes
  <2> QED BY <1>1, <2>2, Lowest, Zenon
<1>7. Below(a) = {} /\ Below(b) = {a} /\ Below(c) = {a, b}
  <2>1. a \in Nat /\ b \in Nat /\ c \in Nat /\ a # b /\ a # c /\ b # c
    BY <1>1
  <2>2. ASSUME NEW e \in free
        PROVE  ~(e < a) /\ (e < b <=> e = a) /\ (e < c <=> e = a \/ e = b)
    <3>1. e \in Nat
      BY <1>1
    <3>2. a <= e /\ a <= b /\ a <= c
      BY <1>2
    <3>3. (e # a => b <= e) /\ b <= c
      BY <1>5
    <3>4. e # a /\ e # b => c <= e
      BY <1>6
    <3> QED BY <2>1, <3>1, <3>2, <3>3, <3>4
  <2> QED BY <2>2
<1>8. /\ Cardinality(Below(a)) = 1 - 1 /\ Cardinality(Below(b)) = 2 - 1
      /\ Cardinality(Below(c)) = 3 - 1
  <2>1. Cardinality({}) = 0 /\ Cardinality({a}) = 1 /\ Cardinality({a, b}) = 2
    BY <1>5, Sizes, SizeOne, Pair, Zenon
  <2> QED BY <1>7, <2>1
<1>9. alloc_desc(1) \in free /\ Cardinality(Below(alloc_desc(1))) = 1 - 1
  BY <1>8, Zenon DEF alloc_desc
<1>10. alloc_desc(2) \in free /\ Cardinality(Below(alloc_desc(2))) = 2 - 1
  BY <1>8, Zenon DEF alloc_desc
<1>11. alloc_desc(3) \in free /\ Cardinality(Below(alloc_desc(3))) = 3 - 1
  BY <1>6, <1>8, Zenon DEF alloc_desc
<1> HIDE DEF Below
<1> QED BY <1>9, <1>10, <1>11

\* A full ring of different descriptors has them all: it has a slot for each.
LEMMA FullRing == Pigeonhole
<1> SUFFICES ASSUME NEW r \in [Desc -> Desc \cup {None}], Once(r),
                    \A s \in Desc : r[s] # None, NEW d \in Desc, ~InRing(r, d)
             PROVE  FALSE
  BY DEF Pigeonhole
<1>1. r \in [Desc -> Desc \ {d}]
  BY DEF InRing
<1>2. IsFiniteSet(Desc) /\ Cardinality(Desc) = NUM /\ NUM \in Nat
  BY Descriptors, Zenon
<1>3. IsFiniteSet(Desc \ {d}) /\ Cardinality(Desc \ {d}) = NUM - 1
  BY <1>2, SizeRemove, Zenon
<1> DEFINE T == Desc \ {d}
<1> HIDE DEF T
<1>4. IsFiniteSet(T) /\ Cardinality(T) < Cardinality(Desc) /\ r \in [Desc -> T]
  BY <1>1, <1>2, <1>3 DEF T
<1>5. \E x, y \in Desc : x # y /\ r[x] = r[y]
  BY <1>2, <1>4, PigeonHole, Zenon
<1> QED BY <1>5 DEF Once

\* A non-empty set of numbers up to n has a greatest one.
LEMMA LastOne == Greatest
<1> SUFFICES ASSUME NEW n \in Nat, NEW S \in SUBSET (1..n), S # {}
             PROVE  Max(S) \in S
  BY Zenon DEF Greatest
<1> DEFINE T == {n - i : i \in S}
<1>1. ASSUME NEW i \in S PROVE i \in Nat /\ n - i \in Nat
  OBVIOUS
<1>2. T \subseteq Nat /\ T # {}
  BY <1>1, Zenon
<1>3. PICK m \in T : \A y \in T : m <= y
  BY <1>2, Lowest, Zenon
<1>4. PICK x \in S : m = n - x
  OBVIOUS
<1>5. ASSUME NEW y \in S PROVE x >= y
  <2>1. n - x <= n - y
    BY <1>3, <1>4, Zenon
  <2> QED BY <1>1, <2>1
<1> QED BY <1>5, Zenon DEF Max

\* Threads and buffers are finitely many, and so can be counted.
LEMMA Countable == Counting
<1>1. IsFiniteSet(Thread) /\ IsFiniteSet(Buf)
  BY VirtioConstants, BcacheConstants
<1>2. ASSUME NEW S \in SUBSET Buf PROVE Cardinality(S) \in Nat
  <2>1. IsFiniteSet(S)
    BY <1>1, Sizes, Zenon
  <2> QED BY <2>1, Sizes, Zenon
<1>3. ASSUME NEW S \in SUBSET Thread
      PROVE  /\ Cardinality(S) \in Nat /\ (Cardinality(S) = 0 => S = {})
             /\ \A t \in Thread \ S : Cardinality(S \cup {t}) = Cardinality(S) + 1
  <2>1. IsFiniteSet(S)
    BY <1>1, Sizes, Zenon
  <2>2. Cardinality(S) \in Nat
    BY <2>1, Sizes, Zenon
  <2>3. Cardinality(S) = 0 => S = {}
    BY <2>1, Sizes, Zenon
  <2>4. ASSUME NEW t \in Thread \ S PROVE Cardinality(S \cup {t}) = Cardinality(S) + 1
    BY <2>1, <2>4, SizeAdd, Zenon
  <2> QED BY <2>2, <2>3, <2>4
<1> QED BY <1>2, <1>3 DEF Counting

LEMMA FiniteSetsCount == FiniteSetFacts
<1>1. Cardinality(Desc) = NUM
  BY Descriptors, Zenon
<1>2. Allocates
  BY <1>1, Alloc DEF Allocates
<1> QED BY <1>2, Countable, FullRing, LastOne DEF FiniteSetFacts

(***************************************************************************)
(* The theorems.                                                            *)
(***************************************************************************)

\* The invariant of the disk driver, the device and the buffer cache together,
\* in every interleaving of the threads' calls, the device, the interrupt
\* handler and kkill().
THEOREM DiskInvariant == Spec => [](VirtioInv /\ CacheInv)
<1>1. Init => VirtioInv /\ CacheInv
  <2> SUFFICES ASSUME Init PROVE VirtioInv /\ CacheInv
    OBVIOUS
  <2>1. IsFiniteSet(load.bufs)
    <3>1. IsFiniteSet(Buf) /\ load.bufs \in SUBSET Buf
      BY BcacheConstants DEF Init
    <3> QED BY <3>1, Sizes, Zenon
  <2>2. PICK f : f \in FS!Bijection(1..Cardinality(load.bufs), load.bufs)
    BY <2>1, SameFinite, FS!FS_CardinalityType, Zenon DEF FS!ExistsBijection
  <2>3. f \in Bijection(1..Cardinality(load.bufs), load.bufs)
    BY <2>2, Zenon DEF FS!Bijection, FS!Injection, FS!Surjection, FS!IsInjective,
                       Bijection, Injection, Surjection, IsInjective
  <2> QED BY <2>3, DriverInit, CacheInit, Sizes, Zenon
<1>2. VirtioInv /\ CacheInv /\ [Next]_vars => (VirtioInv /\ CacheInv)'
  BY FiniteSetsCount, VirtioStep, CacheStep, Zenon
<1> QED BY <1>1, <1>2, PTL DEF Spec

\* alloc3_desc() and free_chain() neither share nor lose a descriptor: requests
\* in progress are disjoint chains of three, and the rest is free.
THEOREM DescriptorsAreExact == Spec => []DescriptorsExact
<1>1. VirtioInv => DescriptorsExact
  BY ChainsExact, Triple, Zenon
<1> QED BY <1>1, DiskInvariant, PTL

\* The device and the rings only hold requests of threads that are still inside
\* virtio_disk_rw() for them, with b->disk set, however kkill() wakes threads.
THEOREM DeviceAlwaysHasOwner == Spec => []DeviceHasOwner
<1>1. VirtioInv => DeviceHasOwner
  BY RingsOwned, Zenon
<1> QED BY <1>1, DiskInvariant, PTL

\* virtio_disk_intr() and free_chain() forget nobody: a thread asleep on its
\* buffer has its request in a ring or at the device, an entry that was not
\* looked at has an interrupt coming, and a wait for descriptors has a request
\* whose end wakes it.
THEOREM NoRequestIsForgotten == Spec => []NoRequestForgotten
<1>1. VirtioInv => NoRequestForgotten
  BY SleepersHeld, Zenon
<1> QED BY <1>1, DiskInvariant, PTL

\* bget() never gives a block two buffers.
THEOREM BlocksHaveOneBuffer == Spec => []OneBufferPerBlock
<1>1. CacheInv => OneBufferPerBlock
  BY BuffersCurrent, Zenon
<1> QED BY <1>1, DiskInvariant, PTL

\* bread() gives a locked buffer with the last contents of its block.
THEOREM ReadersSeeLastWrite == Spec => []SeesLastWrite
<1>1. CacheInv => SeesLastWrite
  BY BuffersCurrent, Zenon
<1> QED BY <1>1, DiskInvariant, PTL
=============================================================================
