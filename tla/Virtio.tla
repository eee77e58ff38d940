------------------------------- MODULE Virtio -------------------------------
(***************************************************************************)
(* kernel/virtio_disk.c: the driver of the virtio disk, and the device.     *)
(*                                                                         *)
(* A request takes a chain of three descriptors, puts the chain's head in   *)
(* the avail ring and sleeps on its buffer; the device takes heads from the *)
(* avail ring, finishes them in any order, and puts each in the used ring;  *)
(* the interrupt handler walks the used ring and wakes the sleepers.        *)
(* vdisk_lock is held across one step of virtio_disk_rw() at a time, since  *)
(* sleep() gives it up, and across all the steps of virtio_disk_intr(),     *)
(* during which the device goes on.  A ring slot is emptied when its reader *)
(* has taken it: what stays there is never looked at again.                 *)
(***************************************************************************)
EXTENDS Integers, FiniteSets, FiniteSetsExt, Functions

CONSTANTS Thread, Buf, None,
          NUM,     \* descriptors, and slots of each ring
          Wrap     \* the ring counters count modulo Wrap: 2^16

ASSUME VirtioConstants ==
  /\ None \notin Thread \cup Buf \cup Nat
  /\ NUM \in Nat /\ NUM >= 3
  /\ Wrap \in Nat \ {0} /\ Wrap % NUM = 0

Desc == 0..NUM - 1

VARIABLES
  free,      \* the descriptors d with disk.free[d] = 1
  next,      \* desc[d].next, None at the end of a chain
  info,      \* info[d].b
  avail, availIdx, devIdx,   \* the avail ring, its idx, how far the device is
  used, usedIdx, used_idx,   \* the used ring, its idx, how far the driver is
  taken,     \* heads the device is working on
  isr,       \* the device asks for an interrupt
  intr,      \* "off", or "loop": virtio_disk_intr() holds vdisk_lock
  owned,     \* the buffers b with b->disk = 1
  pc,        \* where each thread is
  buf,       \* the buffer it holds or waits for
  write,     \* the write argument of virtio_disk_rw()
  head       \* idx[0] of its request

ringVars == <<avail, availIdx, devIdx, used, usedIdx, used_idx, taken, isr>>
virtioVars == <<free, next, info, ringVars, intr, owned, pc, buf, write, head>>

VirtioInit ==
  /\ free = Desc
  /\ next = [d \in Desc |-> None]
  /\ info = [d \in Desc |-> None]
  /\ avail = [d \in Desc |-> None] /\ availIdx = 0 /\ devIdx = 0
  /\ used = [d \in Desc |-> None] /\ usedIdx = 0 /\ used_idx = 0
  /\ taken = {} /\ isr = FALSE /\ intr = "off" /\ owned = {}
  /\ pc = [t \in Thread |-> "idle"]
  /\ buf = [t \in Thread |-> None]
  /\ write = [t \in Thread |-> FALSE]
  /\ head = [t \in Thread |-> None]

\* The state of a thread that a wakeup() makes runnable.
Runnable(s) ==
  CASE s = "desc_asleep" -> "rw"
    [] s = "io_asleep" -> "io"
    [] s = "lock_asleep" -> "lock"
    [] OTHER -> s

\* wakeup(chan), chan given by the threads that sleep on it.
wakeup(S) == [t \in Thread |-> IF t \in S THEN Runnable(pc[t]) ELSE pc[t]]
DescSleepers == {t \in Thread : pc[t] = "desc_asleep"}
IoSleepers(b) == {t \in Thread : pc[t] = "io_asleep" /\ buf[t] = b}

(***************************************************************************)
(* virtio_disk_rw().                                                        *)
(***************************************************************************)

\* The n-th lowest free descriptor, n = 1, 2, 3.
alloc_desc(n) ==
  CHOOSE d \in free : Cardinality({e \in free : e < d}) = n - 1

\* alloc3_desc() succeeds: the request goes to the device, and the thread
\* sleeps on b without letting go of vdisk_lock before.
submit(t) ==
  /\ pc[t] = "rw" /\ intr = "off"
  /\ Cardinality(free) >= 3
  /\ LET d1 == alloc_desc(1)
         d2 == alloc_desc(2)
         d3 == alloc_desc(3)
     IN /\ free' = free \ {d1, d2, d3}
        /\ next' = [next EXCEPT ![d1] = d2, ![d2] = d3, ![d3] = None]
        /\ info' = [info EXCEPT ![d1] = buf[t]]
        /\ head' = [head EXCEPT ![t] = d1]
        /\ avail' = [avail EXCEPT ![availIdx % NUM] = d1]
  /\ availIdx' = (availIdx + 1) % Wrap
  /\ owned' = owned \cup {buf[t]}
  /\ pc' = [pc EXCEPT ![t] = "io_asleep"]
  /\ UNCHANGED <<devIdx, used, usedIdx, used_idx, taken, isr, intr, buf, write>>

\* alloc3_desc() fails: it gives back what it took, and free_desc() wakes
\* whoever waits for descriptors; then the thread waits for them itself.
no_descriptors(t) ==
  /\ pc[t] = "rw" /\ intr = "off"
  /\ Cardinality(free) < 3
  /\ pc' = [(IF free # {} THEN wakeup(DescSleepers) ELSE pc)
              EXCEPT ![t] = "desc_asleep"]
  /\ UNCHANGED <<free, next, info, ringVars, intr, owned, buf, write, head>>

\* free_chain(): the descriptors from d on.
free_chain_HeadOnly(d) == {d}
free_chain(d) ==
  {d} \cup (IF next[d] = None THEN {}
            ELSE {next[d]} \cup ({next[next[d]]} \ {None}))

\* Woken from sleep(b) with b->disk = 0: the chain is free again.  The
\* thread returns from virtio_disk_rw(); its caller's state follows.
Finished_Woken(t) == TRUE
Finished(t) == buf[t] \notin owned
finish(t, after) ==
  /\ pc[t] = "io" /\ intr = "off"
  /\ Finished(t)
  /\ LET chain == free_chain(head[t])
     IN /\ free' = free \cup chain
        /\ next' = [d \in Desc |-> IF d \in chain THEN None ELSE next[d]]
  /\ info' = [info EXCEPT ![head[t]] = None]
  /\ pc' = [wakeup(DescSleepers) EXCEPT ![t] = after]
  /\ head' = [head EXCEPT ![t] = None]
  /\ write' = [write EXCEPT ![t] = FALSE]
  /\ UNCHANGED <<ringVars, intr, owned, buf>>

\* Woken, but the device still owns b: back to sleep.
again(t) ==
  /\ pc[t] = "io" /\ intr = "off"
  /\ ~Finished(t)
  /\ pc' = [pc EXCEPT ![t] = "io_asleep"]
  /\ UNCHANGED <<free, next, info, ringVars, intr, owned, buf, write, head>>

\* kkill() makes a sleeper runnable, whatever it waits for.
kkill(t) ==
  /\ Runnable(pc[t]) # pc[t]
  /\ pc' = wakeup({t})
  /\ UNCHANGED <<free, next, info, ringVars, intr, owned, buf, write, head>>

(***************************************************************************)
(* The device, and virtio_disk_intr().                                      *)
(***************************************************************************)

device_take ==
  /\ devIdx # availIdx
  /\ taken' = taken \cup {avail[devIdx % NUM]}
  /\ avail' = [avail EXCEPT ![devIdx % NUM] = None]
  /\ devIdx' = (devIdx + 1) % Wrap
  /\ UNCHANGED <<free, next, info, availIdx, used, usedIdx, used_idx, isr, intr,
                 owned, pc, buf, write, head>>

\* The transfer itself is the composition's.
device_done(h) ==
  /\ h \in taken
  /\ taken' = taken \ {h}
  /\ used' = [used EXCEPT ![usedIdx % NUM] = h]
  /\ usedIdx' = (usedIdx + 1) % Wrap
  /\ isr' = TRUE
  /\ UNCHANGED <<free, next, info, avail, availIdx, devIdx, used_idx, intr, owned,
                 pc, buf, write, head>>

\* The interrupt is acknowledged before the ring is looked at.
intr_ack ==
  /\ isr /\ intr = "off"
  /\ isr' = FALSE
  /\ intr' = "loop"
  /\ UNCHANGED <<free, next, info, avail, availIdx, devIdx, used, usedIdx,
                 used_idx, taken, owned, pc, buf, write, head>>

intr_entry_One ==
  /\ intr = "loop" /\ used_idx # usedIdx
  /\ LET b == info[used[used_idx % NUM]]
     IN owned' = owned \ {b} /\ pc' = wakeup(IoSleepers(b))
  /\ used' = [used EXCEPT ![used_idx % NUM] = None]
  /\ used_idx' = (used_idx + 1) % Wrap
  /\ intr' = "off"
  /\ UNCHANGED <<free, next, info, avail, availIdx, devIdx, usedIdx, taken, isr,
                 buf, write, head>>
intr_entry ==
  /\ intr = "loop" /\ used_idx # usedIdx
  /\ LET b == info[used[used_idx % NUM]]
     IN owned' = owned \ {b} /\ pc' = wakeup(IoSleepers(b))
  /\ used' = [used EXCEPT ![used_idx % NUM] = None]
  /\ used_idx' = (used_idx + 1) % Wrap
  /\ UNCHANGED <<free, next, info, avail, availIdx, devIdx, usedIdx, taken, isr,
                 intr, buf, write, head>>

intr_done ==
  /\ intr = "loop" /\ used_idx = usedIdx
  /\ intr' = "off"
  /\ UNCHANGED <<free, next, info, ringVars, owned, pc, buf, write, head>>

virtio_disk_intr == intr_ack \/ intr_entry \/ intr_done

(***************************************************************************)
(* Properties.                                                              *)
(***************************************************************************)

Busy == {t \in Thread : head[t] # None}
Chain(t) == {head[t], next[head[t]], next[next[head[t]]]} \ {None}

\* Descriptors are never shared and never lost: those of the requests in
\* progress (virtio_disk_rw() between alloc3_desc() and free_chain()) are
\* disjoint chains of three, and every other one is free.
DescriptorsExact ==
  /\ \A t \in Busy : Cardinality(Chain(t)) = 3
  /\ \A t, u \in Busy : t # u => Chain(t) \cap Chain(u) = {}
  /\ free = Desc \ UNION {Chain(t) : t \in Busy}

\* The device only ever works on a buffer whose thread is inside
\* virtio_disk_rw(): a request still in the avail ring, at the device or in
\* the used ring belongs to a thread that waits for it, even when kkill()
\* wakes that thread early, and the buffer is marked as the disk's.
DeviceHasOwner ==
  \A h \in (taken \cup Range(avail) \cup Range(used)) \ {None} :
    \E t \in Thread : /\ head[t] = h /\ pc[t] \in {"io", "io_asleep"}
                      /\ info[h] = buf[t] /\ buf[t] \in owned

\* No request is forgotten: a thread asleep on its buffer has its request in
\* a ring or at the device; an entry of the used ring that nobody has looked
\* at has an interrupt coming, also when the device adds it while
\* virtio_disk_intr() runs; and a thread asleep on &disk.free[0] waits for a
\* request in progress, whose free_chain() will wake it.
NoRequestForgotten ==
  /\ \A t \in Thread :
       pc[t] = "io_asleep" => head[t] \in taken \cup Range(avail) \cup Range(used)
  /\ used_idx # usedIdx => isr \/ intr = "loop"
  /\ DescSleepers # {} => Busy # {}

(***************************************************************************)
(* The invariant behind them.                                               *)
(***************************************************************************)

\* Where a thread is inside virtio_disk_rw().
RwPc == {"rw", "desc_asleep", "io", "io_asleep"}

\* The types of the state.
VirtioTypeOK ==
  /\ free \subseteq Desc /\ taken \subseteq Desc /\ owned \subseteq Buf
  /\ next \in [Desc -> Desc \cup {None}] /\ info \in [Desc -> Buf \cup {None}]
  /\ avail \in [Desc -> Desc \cup {None}] /\ used \in [Desc -> Desc \cup {None}]
  /\ availIdx \in 0..Wrap - 1 /\ devIdx \in 0..Wrap - 1
  /\ usedIdx \in 0..Wrap - 1 /\ used_idx \in 0..Wrap - 1
  /\ isr \in BOOLEAN /\ intr \in {"off", "loop"}
  /\ pc \in [Thread -> {"idle", "lock", "lock_asleep", "use", "put",
                        "rw", "desc_asleep", "io", "io_asleep"}]
  /\ buf \in [Thread -> Buf \cup {None}] /\ write \in [Thread -> BOOLEAN]
  /\ head \in [Thread -> Desc \cup {None}]

\* A request in progress is a chain of three different descriptors, whose head
\* names the buffer; chains do not overlap, and every other descriptor is free.
Linked(t) ==
  LET d1 == head[t]
      d2 == next[d1]
      d3 == next[d2]
  IN /\ d2 \in Desc /\ d3 \in Desc
     /\ d1 # d2 /\ d2 # d3 /\ d1 # d3
     /\ info[d1] = buf[t]
ChainInv ==
  /\ \A t \in Thread : head[t] # None <=> pc[t] \in {"io", "io_asleep"}
  /\ \A t \in Busy : Linked(t)
  /\ \A t, u \in Busy : t # u => Chain(t) \cap Chain(u) = {}
  /\ \A d \in Desc : d \in free <=> \A t \in Busy : d \notin Chain(t)

\* The slots of a ring that are in use are the n that follow its reader's
\* counter, and its writer's counter is n ahead, modulo Wrap.  n stays below
\* NUM: equal counters would otherwise not tell a full ring from an empty one.
Window(r, from, to, n) ==
  /\ to = (from + n) % Wrap
  /\ \A i \in 0..NUM - 1 : r[(from + i) % NUM] # None <=> i < n
Ring(r, from, to) == \E n \in 0..NUM - 1 : Window(r, from, to, n)

Once(r) == \A i, j \in Desc : r[i] = r[j] /\ r[i] # None => i = j
InRing(r, h) == \E i \in Desc : r[i] = h
InFlight(h) == h \in taken \/ InRing(avail, h) \/ InRing(used, h)

\* A request is in one place at a time, and in flight as long as its buffer is
\* the disk's: b->disk says whether the device may still touch b.
FlightInv ==
  /\ Ring(avail, devIdx, availIdx) /\ Ring(used, used_idx, usedIdx)
  /\ Once(avail) /\ Once(used)
  /\ \A h \in Desc : h \in taken => ~InRing(avail, h) /\ ~InRing(used, h)
  /\ \A h \in Desc : InRing(avail, h) => ~InRing(used, h)
  /\ \A h \in Desc : InFlight(h) => \E t \in Busy : head[t] = h /\ buf[t] \in owned
  /\ \A t \in Busy : buf[t] \in owned => InFlight(head[t])

\* Whoever sleeps has somebody to wake it.
WakeInv ==
  /\ \A t \in Thread : pc[t] = "io_asleep" => buf[t] \in owned
  /\ used_idx # usedIdx => isr \/ intr = "loop"
  /\ DescSleepers # {} => Busy # {}

VirtioInv == VirtioTypeOK /\ ChainInv /\ FlightInv /\ WakeInv
=============================================================================
