---------------------------- MODULE VirtioSteps -----------------------------
(***************************************************************************)
(* The steps of the disk driver, the device and the interrupt handler keep  *)
(* the driver's invariant, for any numbers of threads and buffers, any ring *)
(* size and any width of the ring counters that the ring size divides.      *)
(***************************************************************************)
EXTENDS Virtio, Remainders

(***************************************************************************)
(* What the steps take from the theory of finite sets.  BcacheProofs proves *)
(* FiniteSetFacts from the library's theorems, and keeps them out of the    *)
(* scope of the proofs here.                                                *)
(***************************************************************************)

\* One thread more in a set of threads counts one more.
Counting ==
  /\ \A S \in SUBSET Buf : Cardinality(S) \in Nat
  /\ \A S \in SUBSET Thread : Cardinality(S) \in Nat /\ (Cardinality(S) = 0 => S = {})
  /\ \A S \in SUBSET Thread : \A t \in Thread \ S :
       Cardinality(S \cup {t}) = Cardinality(S) + 1

\* A ring full of different descriptors has them all.
Pigeonhole ==
  \A r \in [Desc -> Desc \cup {None}] :
    Once(r) /\ (\A s \in Desc : r[s] # None) => \A d \in Desc : InRing(r, d)

\* The last unused buffer of the list is one.
Greatest == \A n \in Nat : \A S \in SUBSET (1..n) : S # {} => Max(S) \in S

\* alloc3_desc() finds three different free descriptors if there are three.
Allocates ==
  /\ Cardinality(Desc) = NUM
  /\ free \subseteq Desc /\ Cardinality(free) >= 3 =>
       /\ alloc_desc(1) \in free /\ alloc_desc(2) \in free /\ alloc_desc(3) \in free
       /\ alloc_desc(1) # alloc_desc(2) /\ alloc_desc(1) # alloc_desc(3)
       /\ alloc_desc(2) # alloc_desc(3)

FiniteSetFacts == Counting /\ Pigeonhole /\ Greatest /\ Allocates

(***************************************************************************)
(* Rings.                                                                   *)
(***************************************************************************)

\* The counters hold at least one ring full of entries.
LEMMA WrapFits == NUM \in Nat \ {0} /\ NUM >= 3 /\ Wrap \in Nat \ {0} /\ Wrap >= NUM
<1>1. NUM \in Nat \ {0} /\ NUM >= 3 /\ Wrap \in Nat \ {0} /\ Wrap % NUM = 0
  BY VirtioConstants
<1>2. PICK q \in Nat : Wrap = NUM * q + (Wrap % NUM)
  BY <1>1, Quotient, Zenon
<1>3. q # 0
  BY <1>1, <1>2
<1> QED BY <1>1, <1>2, <1>3

\* The slots from any counter on, in order, are all the slots, each once.
LEMMA Slots ==
  ASSUME NEW x \in Nat
  PROVE  /\ \A i \in 0..NUM - 1 : (x + i) % NUM \in Desc
         /\ \A i, j \in 0..NUM - 1 : (x + i) % NUM = (x + j) % NUM => i = j
         /\ \A d \in Desc : \E i \in 0..NUM - 1 : (x + i) % NUM = d
<1> DEFINE r == x % NUM
           at(i) == IF r + i < NUM THEN r + i ELSE r + i - NUM
<1>1. \A i \in 0..NUM - 1 : (x + i) % NUM = at(i)
  BY WrapFits, Advance, Zenon
<1>2. r \in 0..NUM - 1 /\ NUM \in Nat
  BY WrapFits
<1> HIDE DEF r
<1>3. ASSUME NEW d \in Desc
      PROVE  \E i \in 0..NUM - 1 : at(i) = d
  <2>1. CASE d >= r
    <3>1. d - r \in 0..NUM - 1 /\ at(d - r) = d
      BY <1>2, <2>1 DEF Desc
    <3> QED BY <3>1
  <2>2. CASE ~(d >= r)
    <3>1. d - r + NUM \in 0..NUM - 1 /\ at(d - r + NUM) = d
      BY <1>2, <2>2 DEF Desc
    <3> QED BY <3>1
  <2> QED BY <2>1, <2>2
<1>4. \A i \in 0..NUM - 1 : at(i) \in Desc
  BY <1>2 DEF Desc
<1>5. \A i, j \in 0..NUM - 1 : at(i) = at(j) => i = j
  BY <1>2
<1> HIDE DEF at
<1> QED BY <1>1, <1>3, <1>4, <1>5

\* Where a counter that has wrapped points.
LEMMA WrappedSlot ==
  ASSUME NEW x \in Nat
  PROVE  /\ x % Wrap \in 0..Wrap - 1
         /\ (x % Wrap) % NUM = x % NUM
         /\ ((x % Wrap) + 1) % Wrap = (x + 1) % Wrap
<1> USE WrapFits
<1>0. Wrap % NUM = 0
  BY VirtioConstants
<1>1. x % Wrap \in 0..Wrap - 1
  OBVIOUS
<1>5. (x % Wrap) % NUM = x % NUM
  BY <1>0, WrapKeepsSlot, Zenon
<1> DEFINE y == x % Wrap
<1>2. y % Wrap = y /\ y \in Nat /\ 1 \in 0..Wrap - 1
  OBVIOUS
<1>3. (x + 1) % Wrap = IF y + 1 < Wrap THEN y + 1 ELSE y + 1 - Wrap
  BY <1>2, Advance, Zenon
<1> HIDE DEF y
<1>4. (y + 1) % Wrap = IF (y % Wrap) + 1 < Wrap THEN (y % Wrap) + 1
                       ELSE (y % Wrap) + 1 - Wrap
  BY <1>2, Advance, Zenon
<1> QED BY <1>1, <1>2, <1>3, <1>4, <1>5 DEF y

\* An entry goes into an empty slot, and the window grows by it.
LEMMA WindowPut ==
  ASSUME NEW r \in [Desc -> Desc \cup {None}], NEW from \in 0..Wrap - 1, NEW to,
         NEW n \in 0..NUM - 1, Window(r, from, to, n), NEW h \in Desc
  PROVE  /\ to % NUM \in Desc /\ r[to % NUM] = None
         /\ Window([r EXCEPT ![to % NUM] = h], from, (to + 1) % Wrap, n + 1)
<1> USE WrapFits
<1>1. from \in Nat /\ n \in Nat /\ from + n \in Nat /\ to = (from + n) % Wrap
  BY DEF Window
<1>2. to % NUM = (from + n) % NUM /\ (to + 1) % Wrap = (from + n + 1) % Wrap
  BY <1>1, WrappedSlot, Zenon
<1>3. to % NUM \in Desc
  BY <1>1, <1>2, Slots, Zenon
<1>4. r[to % NUM] = None
  BY <1>2 DEF Window
<1>5. from + n + 1 = from + (n + 1)
  BY <1>1
<1>6. ASSUME NEW i \in 0..NUM - 1
      PROVE  [r EXCEPT ![to % NUM] = h][(from + i) % NUM] # None <=> i < n + 1
  <2>1. (from + i) % NUM \in Desc /\ ((from + i) % NUM = (from + n) % NUM => i = n)
    BY <1>1, Slots, Zenon
  <2>2. r[(from + i) % NUM] # None <=> i < n
    BY Zenon DEF Window
  <2>3. h # None
    BY VirtioConstants DEF Desc
  <2>4. CASE i = n
    BY <1>2, <1>3, <2>1, <2>3, <2>4
  <2>5. CASE i # n
    <3>1. [r EXCEPT ![to % NUM] = h][(from + i) % NUM] = r[(from + i) % NUM]
      BY <1>2, <2>1, <2>5, Zenon
    <3>2. i < n <=> i < n + 1
      BY <2>5
    <3> QED BY <2>2, <3>1, <3>2
  <2> QED BY <2>4, <2>5
<1>7. (to + 1) % Wrap = (from + (n + 1)) % Wrap
  BY <1>2, <1>5, Zenon
<1> QED BY <1>3, <1>4, <1>6, <1>7 DEF Window

\* The reader takes an entry, and the window shrinks by it.
LEMMA WindowTake ==
  ASSUME NEW r \in [Desc -> Desc \cup {None}], NEW from \in 0..Wrap - 1, NEW to,
         NEW n \in 0..NUM - 1, Window(r, from, to, n), from # to
  PROVE  /\ n - 1 \in 0..NUM - 1
         /\ from % NUM \in Desc /\ r[from % NUM] # None
         /\ Window([r EXCEPT ![from % NUM] = None], (from + 1) % Wrap, to, n - 1)
<1> USE WrapFits
<1> DEFINE g == (from + 1) % Wrap
<1>1. from \in Nat /\ n \in Nat /\ from + 0 = from /\ from + 1 \in Nat /\ 0 \in 0..NUM - 1
  OBVIOUS
<1>2. n # 0
  <2>1. ASSUME n = 0 PROVE FALSE
    <3>1. to = from % Wrap
      BY <2>1, <1>1 DEF Window
    <3> QED BY <3>1
  <2> QED BY <2>1
<1>3. from % NUM \in Desc /\ r[from % NUM] # None
  <2>1. r[(from + 0) % NUM] # None <=> 0 < n
    BY <1>1 DEF Window
  <2>2. (from + 0) % NUM \in Desc
    BY <1>1, Slots, Zenon
  <2> QED BY <1>1, <1>2, <2>1, <2>2
<1>4. g \in 0..Wrap - 1 /\ g \in Nat /\ g % NUM = (from + 1) % NUM /\ n - 1 \in 0..NUM - 1
  <2>1. n - 1 \in 0..NUM - 1
    BY <1>2
  <2>2. g \in 0..Wrap - 1 /\ g % NUM = (from + 1) % NUM
    BY <1>1, WrappedSlot, Zenon
  <2> QED BY <2>1, <2>2
<1>5. \A i \in 0..NUM - 1 : (g + i) % NUM = (from + 1 + i) % NUM
  <2> HIDE DEF g
  <2>1. ASSUME NEW i \in 0..NUM - 1 PROVE (g + i) % NUM = (from + 1 + i) % NUM
    <3>1. (g + i) % NUM = IF (g % NUM) + i < NUM THEN (g % NUM) + i ELSE (g % NUM) + i - NUM
      BY <1>4, Advance, Zenon
    <3> DEFINE f == from + 1
    <3>2. f \in Nat
      OBVIOUS
    <3> HIDE DEF f
    <3>3. (f + i) % NUM = IF (f % NUM) + i < NUM THEN (f % NUM) + i ELSE (f % NUM) + i - NUM
      BY <3>2, Advance, Zenon
    <3> QED BY <1>4, <3>1, <3>3 DEF f
  <2> QED BY <2>1
<1>6. to = (g + (n - 1)) % Wrap
  <2>1. to = (from + n) % Wrap
    BY DEF Window
  <2> DEFINE f == from + 1
             m == n - 1
  <2>2. f \in Nat /\ m \in 0..Wrap - 1 /\ f + m = from + n
    BY <1>2
  <2>3. g % Wrap = g
    BY <1>4
  <2>4. g = f % Wrap
    OBVIOUS
  <2> HIDE DEF f, m, g
  <2>5. (f + m) % Wrap = IF (f % Wrap) + m < Wrap THEN (f % Wrap) + m ELSE (f % Wrap) + m - Wrap
    BY <2>2, Advance, Zenon
  <2>6. (g + m) % Wrap = IF (g % Wrap) + m < Wrap THEN (g % Wrap) + m ELSE (g % Wrap) + m - Wrap
    BY <1>4, <2>2, Advance, Zenon
  <2> QED BY <2>1, <2>2, <2>3, <2>4, <2>5, <2>6, Zenon DEF m
<1> HIDE DEF g
<1>7. ASSUME NEW i \in 0..NUM - 1
      PROVE  [r EXCEPT ![from % NUM] = None][(g + i) % NUM] # None <=> i < n - 1
  <2>1. CASE i = NUM - 1
    <3>1. (g + i) % NUM = (from + NUM) % NUM
      BY <1>5, <2>1
    <3>2. (from + NUM) % NUM = from % NUM
      <4> DEFINE f == from + 1
                 k == NUM - 1
      <4>1. f \in Nat /\ 1 \in 0..NUM - 1 /\ k \in 0..NUM - 1 /\ from % NUM \in 0..NUM - 1
        OBVIOUS
      <4>2. f % NUM = IF (from % NUM) + 1 < NUM THEN (from % NUM) + 1
                                                ELSE (from % NUM) + 1 - NUM
        BY <1>1, <4>1, Advance, Zenon
      <4>3. from + NUM = f + k
        BY <1>1
      <4> HIDE DEF f
      <4>4. (f + k) % NUM = IF (f % NUM) + k < NUM THEN (f % NUM) + k
                                                   ELSE (f % NUM) + k - NUM
        BY <4>1, Advance, Zenon
      <4> DEFINE a == from % NUM
                 b == f % NUM
                 c == (f + k) % NUM
      <4>5. a \in 0..NUM - 1 /\ NUM \in Nat /\ k = NUM - 1
        BY <4>1
      <4>6. b = IF a + 1 < NUM THEN a + 1 ELSE a + 1 - NUM
        BY <4>2
      <4>7. c = IF b + k < NUM THEN b + k ELSE b + k - NUM
        BY <4>4
      <4> HIDE DEF a, b, c, k
      <4>8. c = a
        BY <4>5, <4>6, <4>7
      <4> QED BY <4>3, <4>8 DEF a, c
    <3> QED BY <1>3, <2>1, <3>1, <3>2
  <2>2. CASE i # NUM - 1
    <3> DEFINE j == i + 1
    <3>1. j \in 1..NUM - 1 /\ j \in 0..NUM - 1 /\ from + 1 + i = from + j
      BY <2>2
    <3>2. (g + i) % NUM = (from + j) % NUM
      BY <1>5, <3>1
    <3> HIDE DEF j
    <3>3. (from + j) % NUM \in Desc /\ (from + j) % NUM # (from + 0) % NUM
      <4>1. (from + j) % NUM \in Desc
        BY <1>1, <3>1, Slots, Zenon
      <4>2. (from + j) % NUM = (from + 0) % NUM => j = 0
        BY <1>1, <3>1, Slots, Zenon
      <4> QED BY <3>1, <4>1, <4>2
    <3>4. r[(from + j) % NUM] # None <=> j < n
      BY <3>1 DEF Window
    <3>5. [r EXCEPT ![from % NUM] = None][(g + i) % NUM] = r[(from + j) % NUM]
      BY <1>1, <3>2, <3>3
    <3> QED BY <3>4, <3>5 DEF j
  <2> QED BY <2>1, <2>2
<1> QED BY <1>3, <1>4, <1>6, <1>7 DEF Window, g

\* A ring whose entries are different descriptors, and miss one, has an empty
\* slot: it never fills up.
LEMMA NeverFull ==
  ASSUME FiniteSetFacts,
         NEW r \in [Desc -> Desc \cup {None}], NEW from \in 0..Wrap - 1, NEW to,
         NEW n \in 0..NUM, Window(r, from, to, n), Once(r),
         NEW d \in Desc, ~InRing(r, d)
  PROVE  n \in 0..NUM - 1
<1> USE WrapFits
<1>1. SUFFICES ASSUME n = NUM PROVE FALSE
  OBVIOUS
<1>2. \A s \in Desc : r[s] # None
  <2>1. ASSUME NEW s \in Desc PROVE r[s] # None
    <3>1. PICK i \in 0..NUM - 1 : (from + i) % NUM = s
      <4>1. from \in Nat
        OBVIOUS
      <4> QED BY <4>1, Slots, Zenon
    <3> QED BY <1>1, <3>1 DEF Window
  <2> QED BY <2>1
<1> QED BY <1>2 DEF FiniteSetFacts, Pigeonhole

\* What a ring holds after an entry is put in, and after one is taken out.
LEMMA PutIn ==
  ASSUME NEW r \in [Desc -> Desc \cup {None}], NEW s \in Desc, r[s] = None,
         NEW h \in Desc, NEW q, q = [r EXCEPT ![s] = h]
  PROVE  /\ q \in [Desc -> Desc \cup {None}]
         /\ \A g \in Desc : InRing(q, g) <=> InRing(r, g) \/ g = h
         /\ Once(r) /\ ~InRing(r, h) => Once(q)
<1>1. None \notin Desc
  BY VirtioConstants DEF Desc
<1>2. q \in [Desc -> Desc \cup {None}]
  OBVIOUS
<1>3. \A g \in Desc : InRing(q, g) <=> InRing(r, g) \/ g = h
  BY <1>1 DEF InRing
<1>4. Once(r) /\ ~InRing(r, h) => Once(q)
  BY <1>1 DEF InRing, Once
<1> QED BY <1>2, <1>3, <1>4, Zenon

LEMMA TakeOut ==
  ASSUME NEW r \in [Desc -> Desc \cup {None}], NEW s \in Desc, r[s] # None, Once(r),
         NEW q, q = [r EXCEPT ![s] = None]
  PROVE  /\ q \in [Desc -> Desc \cup {None}]
         /\ \A g \in Desc : InRing(q, g) <=> InRing(r, g) /\ g # r[s]
         /\ Once(q)
<1>1. None \notin Desc
  BY VirtioConstants DEF Desc
<1>2. q \in [Desc -> Desc \cup {None}]
  OBVIOUS
<1>3. \A g \in Desc : InRing(q, g) <=> InRing(r, g) /\ g # r[s]
  BY <1>1 DEF InRing, Once
<1>4. Once(q)
  BY <1>1 DEF Once
<1> QED BY <1>2, <1>3, <1>4, Zenon

\* A ring r becomes q, with the entry h more, or less.
Gains(r, q, h) ==
  /\ q \in [Desc -> Desc \cup {None}] /\ Once(q)
  /\ \A g \in Desc : InRing(q, g) <=> InRing(r, g) \/ g = h
Loses(r, q, h) ==
  /\ q \in [Desc -> Desc \cup {None}] /\ Once(q)
  /\ \A g \in Desc : InRing(q, g) <=> InRing(r, g) /\ g # h

\* The writer's side of a ring, which never runs into the reader's.
LEMMA RingPut ==
  ASSUME FiniteSetFacts,
         NEW r \in [Desc -> Desc \cup {None}], NEW from \in 0..Wrap - 1, NEW to,
         Ring(r, from, to), Once(r),
         NEW h \in Desc, ~InRing(r, h), NEW d \in Desc, ~InRing(r, d), d # h,
         NEW q, q = [r EXCEPT ![to % NUM] = h]
  PROVE  Gains(r, q, h) /\ Ring(q, from, (to + 1) % Wrap)
<1> USE WrapFits
<1>1. PICK n \in 0..NUM - 1 : Window(r, from, to, n)
  BY DEF Ring
<1>2. to % NUM \in Desc /\ r[to % NUM] = None /\ Window(q, from, (to + 1) % Wrap, n + 1)
  BY <1>1, WindowPut, Zenon
<1>3. /\ q \in [Desc -> Desc \cup {None}]
      /\ \A g \in Desc : InRing(q, g) <=> InRing(r, g) \/ g = h
      /\ Once(q)
  <2> DEFINE s == to % NUM
  <2>1. s \in Desc /\ r[s] = None /\ q = [r EXCEPT ![s] = h]
    BY <1>2
  <2> HIDE DEF s
  <2> QED BY <2>1, PutIn, Zenon
<1>4. n + 1 \in 0..NUM /\ ~InRing(q, d)
  <2>1. n + 1 \in 0..NUM
    OBVIOUS
  <2>2. ~InRing(q, d)
    BY <1>3, Zenon
  <2> QED BY <2>1, <2>2
<1>5. n + 1 \in 0..NUM - 1
  <2> DEFINE m == n + 1
             k == (to + 1) % Wrap
  <2>1. m \in 0..NUM /\ Window(q, from, k, m)
    BY <1>2, <1>4
  <2> HIDE DEF m, k
  <2>2. m \in 0..NUM - 1
    BY <1>3, <1>4, <2>1, NeverFull, Zenon
  <2> QED BY <2>2 DEF m
<1> QED BY <1>2, <1>3, <1>5, Zenon DEF Ring, Gains

\* The reader's side.
LEMMA RingTake ==
  ASSUME NEW r \in [Desc -> Desc \cup {None}], NEW from \in 0..Wrap - 1, NEW to,
         Ring(r, from, to), Once(r), from # to,
         NEW q, q = [r EXCEPT ![from % NUM] = None]
  PROVE  /\ r[from % NUM] \in Desc /\ InRing(r, r[from % NUM])
         /\ Loses(r, q, r[from % NUM]) /\ Ring(q, (from + 1) % Wrap, to)
<1>1. PICK n \in 0..NUM - 1 : Window(r, from, to, n)
  BY DEF Ring
<1>2. /\ n - 1 \in 0..NUM - 1
      /\ from % NUM \in Desc /\ r[from % NUM] # None
      /\ Window(q, (from + 1) % Wrap, to, n - 1)
  BY <1>1, WindowTake, Zenon
<1> DEFINE s == from % NUM
<1>3. s \in Desc /\ r[s] # None /\ q = [r EXCEPT ![s] = None]
  BY <1>2
<1> HIDE DEF s
<1>4. /\ q \in [Desc -> Desc \cup {None}]
      /\ \A g \in Desc : InRing(q, g) <=> InRing(r, g) /\ g # r[s]
      /\ Once(q)
  BY <1>3, TakeOut, Zenon
<1>5. r[s] \in Desc /\ InRing(r, r[s])
  BY <1>3 DEF InRing
<1>6. Ring(q, (from + 1) % Wrap, to)
  BY <1>2, Zenon DEF Ring
<1> QED BY <1>4, <1>5, <1>6, Zenon DEF s, Loses

(***************************************************************************)
(* The driver.                                                              *)
(***************************************************************************)

\* What the driver's callers owe it: a thread inside virtio_disk_rw() has a
\* buffer, and nobody else is inside with the same one.
Exclusive ==
  /\ \A t \in Thread : pc[t] \in RwPc => buf[t] \in Buf
  /\ \A t, u \in Thread : pc[t] \in RwPc /\ pc[u] \in RwPc /\ buf[t] = buf[u] => t = u

\* A step that leaves the requests alone: threads move, but none starts or
\* ends a request, and whoever falls asleep has somebody to wake it; or the
\* interrupt handler starts or ends.
Elsewhere ==
  /\ UNCHANGED <<free, next, info, avail, availIdx, devIdx, used, usedIdx, used_idx,
                 taken, owned, head>>
  /\ VirtioTypeOK'
  /\ used_idx # usedIdx => isr' \/ intr' = "loop"
  /\ \A t \in Thread : pc'[t] \in {"io", "io_asleep"} <=> pc[t] \in {"io", "io_asleep"}
  /\ \A t \in Thread : pc[t] \in {"io", "io_asleep"} => buf'[t] = buf[t]
  /\ \A t \in Thread : pc'[t] = "io_asleep" => pc[t] = "io_asleep" \/ buf[t] \in owned
  /\ \A t \in Thread : pc'[t] = "desc_asleep" => pc[t] = "desc_asleep" \/ Busy # {}

LEMMA ElsewhereStep ==
  ASSUME VirtioInv, Elsewhere
  PROVE  VirtioInv'
<1>1. ChainInv /\ FlightInv /\ WakeInv /\ VirtioTypeOK'
  BY DEF VirtioInv, Elsewhere
<1>2. /\ free' = free /\ next' = next /\ info' = info /\ head' = head /\ owned' = owned
      /\ avail' = avail /\ used' = used /\ taken' = taken
      /\ availIdx' = availIdx /\ devIdx' = devIdx /\ usedIdx' = usedIdx /\ used_idx' = used_idx
  BY Zenon DEF Elsewhere
<1>3. /\ Busy' = Busy
      /\ \A t \in Busy : t \in Thread /\ buf'[t] = buf[t] /\ Chain(t)' = Chain(t)
  BY <1>1, <1>2 DEF Elsewhere, Busy, Chain, ChainInv
<1>4. ChainInv'
  <2>1. \A t \in Thread : head'[t] # None <=> pc'[t] \in {"io", "io_asleep"}
    BY <1>1, <1>2, Zenon DEF ChainInv, Elsewhere
  <2>2. \A t \in Busy' : Linked(t)'
    BY <1>1, <1>2, <1>3, Zenon DEF ChainInv, Linked
  <2>3. \A t, u \in Busy' : t # u => Chain(t)' \cap Chain(u)' = {}
    BY <1>1, <1>3, Zenon DEF ChainInv
  <2>4. \A d \in Desc : d \in free' <=> \A t \in Busy' : d \notin Chain(t)'
    BY <1>1, <1>2, <1>3 DEF ChainInv
  <2> QED BY <2>1, <2>2, <2>3, <2>4, Zenon DEF ChainInv
<1>5. FlightInv'
  BY <1>1, <1>2, <1>3 DEF FlightInv, Ring, Window, Once, InRing, InFlight
<1>6. WakeInv'
  BY <1>1, <1>2, <1>3, Zenon DEF WakeInv, DescSleepers, Elsewhere, Busy
<1> QED BY <1>1, <1>4, <1>5, <1>6 DEF VirtioInv

\* The chain of a request.
LEMMA ChainFacts ==
  ASSUME VirtioTypeOK, ChainInv, NEW t \in Busy
  PROVE  /\ head[t] \in Desc /\ next[head[t]] \in Desc /\ next[next[head[t]]] \in Desc
         /\ Chain(t) = {head[t], next[head[t]], next[next[head[t]]]}
         /\ next[head[t]] # head[t] /\ info[head[t]] = buf[t]
<1>1. None \notin Desc /\ head[t] \in Desc /\ Linked(t)
  BY VirtioConstants DEF Desc, Busy, VirtioTypeOK, ChainInv
<1> QED BY <1>1, Zenon DEF Linked, Chain

\* A descriptor in flight is the head of a request in progress; the others of
\* its chain, and the free ones, are not in flight.
LEMMA FlightFacts ==
  ASSUME VirtioInv
  PROVE  /\ None \notin Desc
         /\ \A t \in Busy : t \in Thread /\ head[t] \in Desc
         /\ \A h \in Desc : InFlight(h) => h \notin free
         /\ \A t \in Busy : ~InFlight(next[head[t]])
         /\ \A t, u \in Busy : head[t] = head[u] => t = u
<1>1. None \notin Desc
  BY VirtioConstants DEF Desc
<1>2. VirtioTypeOK /\ ChainInv
  BY Zenon DEF VirtioInv
<1>3. \A h \in Desc : InFlight(h) => \E t \in Busy : head[t] = h
  BY Zenon DEF VirtioInv, FlightInv
<1>4. \A t \in Busy : /\ t \in Thread /\ head[t] \in Desc
                      /\ next[head[t]] \in Desc /\ next[head[t]] # head[t]
                      /\ head[t] \in Chain(t) /\ next[head[t]] \in Chain(t)
  BY <1>2, ChainFacts, Zenon DEF Busy
<1>5. \A t, u \in Busy : t # u => Chain(t) \cap Chain(u) = {}
  BY <1>2, Zenon DEF ChainInv
<1>6. \A d \in free, t \in Busy : d \notin Chain(t)
  BY <1>2 DEF ChainInv, VirtioTypeOK
<1> QED BY <1>1, <1>3, <1>4, <1>5, <1>6

\* submit(), with the descriptors it takes.
LEMMA SubmitFacts ==
  ASSUME FiniteSetFacts, VirtioTypeOK, NEW t \in Thread, submit(t)
  PROVE  \E d1, d2, d3 \in free :
           /\ d1 # d2 /\ d1 # d3 /\ d2 # d3
           /\ free' = free \ {d1, d2, d3}
           /\ next' = [next EXCEPT ![d1] = d2, ![d2] = d3, ![d3] = None]
           /\ info' = [info EXCEPT ![d1] = buf[t]]
           /\ head' = [head EXCEPT ![t] = d1]
           /\ avail' = [avail EXCEPT ![availIdx % NUM] = d1]
<1>1. free \subseteq Desc /\ Cardinality(free) >= 3
  BY DEF VirtioTypeOK, submit
<1>2. /\ alloc_desc(1) \in free /\ alloc_desc(2) \in free /\ alloc_desc(3) \in free
      /\ alloc_desc(1) # alloc_desc(2) /\ alloc_desc(1) # alloc_desc(3)
      /\ alloc_desc(2) # alloc_desc(3)
  BY <1>1 DEF FiniteSetFacts, Allocates
<1> QED BY <1>2, Zenon DEF submit

LEMMA SubmitStep ==
  ASSUME FiniteSetFacts, VirtioInv, Exclusive, NEW t \in Thread, submit(t)
  PROVE  VirtioInv'
<1> VirtioTypeOK /\ ChainInv /\ FlightInv /\ WakeInv
  BY DEF VirtioInv
<1>2. PICK d1, d2, d3 \in free :
           /\ d1 # d2 /\ d1 # d3 /\ d2 # d3
           /\ free' = free \ {d1, d2, d3}
           /\ next' = [next EXCEPT ![d1] = d2, ![d2] = d3, ![d3] = None]
           /\ info' = [info EXCEPT ![d1] = buf[t]]
           /\ head' = [head EXCEPT ![t] = d1]
           /\ avail' = [avail EXCEPT ![availIdx % NUM] = d1]
  BY SubmitFacts, Zenon
<1>3. /\ pc[t] = "rw" /\ pc' = [pc EXCEPT ![t] = "io_asleep"]
      /\ owned' = owned \cup {buf[t]} /\ availIdx' = (availIdx + 1) % Wrap
      /\ UNCHANGED <<devIdx, used, usedIdx, used_idx, taken, isr, intr, buf, write>>
  BY Zenon DEF submit
<1>4. d1 \in Desc /\ d2 \in Desc /\ d3 \in Desc /\ buf[t] \in Buf
  BY <1>3, Zenon DEF VirtioTypeOK, Exclusive, RwPc
<1>5. /\ t \notin Busy /\ Busy' = Busy \cup {t} /\ head'[t] = d1
      /\ \A u \in Busy : u \in Thread /\ u # t /\ head'[u] = head[u] /\ head[u] \in Desc
  BY <1>2, <1>3, <1>4, FlightFacts DEF Busy, ChainInv, VirtioTypeOK
<1>6. next'[d1] = d2 /\ next'[d2] = d3
  BY <1>2, <1>4, Zenon DEF VirtioTypeOK
<1>7. \A d \in Desc \ {d1, d2, d3} : next'[d] = next[d] /\ info'[d] = info[d]
  BY <1>2, <1>4, Zenon DEF VirtioTypeOK
<1>8. \A u \in Busy : /\ head[u] \notin {d1, d2, d3}
                      /\ next[head[u]] \in Desc \ {d1, d2, d3}
                      /\ next[next[head[u]]] \in Desc \ {d1, d2, d3}
  <2>1. ASSUME NEW u \in Busy PROVE Chain(u) \cap {d1, d2, d3} = {}
    BY <1>2, <1>4 DEF ChainInv
  <2> QED BY <2>1, ChainFacts
<1>9. /\ Chain(t)' = {d1, d2, d3}
      /\ \A u \in Busy : Chain(u)' = Chain(u) /\ Chain(u) \cap {d1, d2, d3} = {}
  <2>1. Chain(t)' = {d1, d2, d3}
    BY <1>4, <1>5, <1>6, FlightFacts, Zenon DEF Chain
  <2>2. ASSUME NEW u \in Busy PROVE Chain(u)' = Chain(u) /\ Chain(u) \cap {d1, d2, d3} = {}
    BY <1>5, <1>7, <1>8 DEF Chain
  <2> QED BY <2>1, <2>2, Zenon
<1>10. /\ avail' \in [Desc -> Desc \cup {None}]
       /\ \A g \in Desc : InRing(avail, g)' <=> InRing(avail, g) \/ g = d1
       /\ Once(avail)' /\ Ring(avail, devIdx, availIdx)'
  <2>1. ~InRing(avail, d1) /\ ~InRing(avail, d2)
    BY <1>4, FlightFacts, Zenon DEF InFlight
  <2>2. /\ avail \in [Desc -> Desc \cup {None}] /\ devIdx \in 0..Wrap - 1
        /\ Ring(avail, devIdx, availIdx) /\ Once(avail)
    BY Zenon DEF VirtioTypeOK, FlightInv
  <2>3. /\ avail' \in [Desc -> Desc \cup {None}]
        /\ \A g \in Desc : InRing(avail', g) <=> InRing(avail, g) \/ g = d1
        /\ Once(avail') /\ Ring(avail', devIdx, (availIdx + 1) % Wrap)
    <3>1. d2 # d1 /\ avail' = [avail EXCEPT ![availIdx % NUM] = d1]
      BY <1>2
    <3> DEFINE q == avail'
    <3>2. q = [avail EXCEPT ![availIdx % NUM] = d1]
      BY <3>1
    <3> HIDE DEF q
    <3>3. Gains(avail, q, d1) /\ Ring(q, devIdx, (availIdx + 1) % Wrap)
      BY <1>4, <2>1, <2>2, <3>1, <3>2, RingPut, Zenon
    <3> QED BY <3>3, Zenon DEF q, Gains
  <2> QED BY <1>3, <2>3, Zenon DEF InRing, Once, Ring, Window
<1>11. VirtioTypeOK'
  <2>1. next' \in [Desc -> Desc \cup {None}] /\ info' \in [Desc -> Buf \cup {None}]
    BY <1>2, <1>4 DEF VirtioTypeOK
  <2>2. availIdx' \in 0..Wrap - 1
    <3>1. availIdx \in Nat
      BY WrapFits DEF VirtioTypeOK
    <3> QED BY <1>3, <3>1, WrapFits
  <2>3. head' \in [Thread -> Desc \cup {None}]
    BY <1>2, <1>4 DEF VirtioTypeOK
  <2> QED BY <1>2, <1>3, <1>4, <1>10, <2>1, <2>2, <2>3, Zenon DEF VirtioTypeOK
<1>12. ChainInv'
  <2>1. \A u \in Thread : head'[u] # None <=> pc'[u] \in {"io", "io_asleep"}
    BY <1>2, <1>3, <1>4, FlightFacts DEF ChainInv, VirtioTypeOK
  <2>2. ASSUME NEW u \in Busy'
        PROVE  Linked(u)'
    <3>1. CASE u = t
      <4>1. info'[d1] = buf[t] /\ buf' = buf
        BY <1>2, <1>3, <1>4, Zenon DEF VirtioTypeOK
      <4> QED BY <1>2, <1>4, <1>5, <1>6, <3>1, <4>1, Zenon DEF Linked
    <3>2. CASE u \in Busy
      <4>1. Linked(u) /\ buf' = buf
        BY <1>3, <3>2, Zenon DEF ChainInv
      <4> QED BY <1>5, <1>7, <1>8, <3>2, <4>1 DEF Linked
    <3> QED BY <1>5, <3>1, <3>2, Zenon
  <2>3. \A u, v \in Busy' : u # v => Chain(u)' \cap Chain(v)' = {}
    BY <1>5, <1>9 DEF ChainInv
  <2>4. \A d \in Desc : d \in free' <=> \A u \in Busy' : d \notin Chain(u)'
    BY <1>2, <1>5, <1>9 DEF ChainInv
  <2> QED BY <2>1, <2>2, <2>3, <2>4, Zenon DEF ChainInv
<1>13. FlightInv'
  <2>1. \A h \in Desc : InFlight(h)' <=> InFlight(h) \/ h = d1
    BY <1>3, <1>10, Zenon DEF InFlight, InRing
  <2>2. ~InFlight(d1)
    BY <1>4, FlightFacts, Zenon
  <2>3. Ring(used, used_idx, usedIdx)' /\ Once(used)'
    BY <1>3, Zenon DEF FlightInv, Ring, Window, Once
  <2>4. \A h \in Desc : /\ (h \in taken' => ~InRing(avail, h)' /\ ~InRing(used, h)')
                        /\ (InRing(avail, h)' => ~InRing(used, h)')
    <3>1. /\ taken' = taken /\ \A h \in Desc : InRing(used, h)' <=> InRing(used, h)
          /\ d1 \notin taken /\ ~InRing(used, d1)
      BY <1>3, <2>2, Zenon DEF InFlight, InRing
    <3>2. \A h \in Desc : /\ (h \in taken => ~InRing(avail, h) /\ ~InRing(used, h))
                          /\ (InRing(avail, h) => ~InRing(used, h))
      BY DEF FlightInv
    <3> QED BY <1>10, <3>1, <3>2, Zenon
  <2>5. \A h \in Desc : InFlight(h)' => \E u \in Busy' : head'[u] = h /\ buf'[u] \in owned'
    BY <1>3, <1>5, <2>1, Zenon DEF FlightInv
  <2>6. \A u \in Busy' : buf'[u] \in owned' => InFlight(head[u])'
    <3>1. ASSUME NEW u \in Busy, buf[u] \in owned' PROVE InFlight(head[u])'
      <4>1. buf[u] # buf[t]
        BY <1>3, <1>5, <3>1, Zenon DEF Exclusive, ChainInv, RwPc, Busy
      <4>2. InFlight(head[u])
        BY <1>3, <3>1, <4>1 DEF FlightInv
      <4> QED BY <1>5, <2>1, <4>2 DEF InFlight, InRing
    <3>2. InFlight(head[t])'
      BY <1>4, <1>5, <2>1, Zenon DEF InFlight, InRing
    <3> QED BY <1>3, <1>5, <3>1, <3>2, Zenon
  <2> QED BY <1>10, <2>3, <2>4, <2>5, <2>6, Zenon DEF FlightInv
<1>14. WakeInv'
  BY <1>3, <1>5 DEF WakeInv, DescSleepers, VirtioTypeOK
<1> QED BY <1>11, <1>12, <1>13, <1>14 DEF VirtioInv

\* The end of a request: its chain is free again, and it was not in flight.
LEMMA FinishStep ==
  ASSUME VirtioInv, NEW t \in Thread, finish(t, "use")
  PROVE  VirtioInv'
<1> VirtioTypeOK /\ ChainInv /\ FlightInv /\ WakeInv
  BY DEF VirtioInv
<1>2. /\ pc[t] = "io" /\ buf[t] \notin owned
      /\ free' = free \cup free_chain(head[t])
      /\ next' = [d \in Desc |-> IF d \in free_chain(head[t]) THEN None ELSE next[d]]
      /\ info' = [info EXCEPT ![head[t]] = None]
      /\ pc' = [wakeup(DescSleepers) EXCEPT ![t] = "use"]
      /\ head' = [head EXCEPT ![t] = None] /\ write' = [write EXCEPT ![t] = FALSE]
      /\ UNCHANGED <<avail, availIdx, devIdx, used, usedIdx, used_idx, taken, isr, intr,
                     owned, buf>>
  BY Zenon DEF finish, Finished, ringVars
<1>3. t \in Busy /\ head[t] \in Desc
  BY <1>2, FlightFacts, Zenon DEF ChainInv, Busy
<1>4. free_chain(head[t]) = Chain(t) /\ Chain(t) \subseteq Desc /\ head[t] \in Chain(t)
  BY <1>3, ChainFacts, Zenon DEF free_chain, Chain
<1>5. Busy' = Busy \ {t}
  BY <1>2, Zenon DEF Busy, VirtioTypeOK
<1>6. \A u \in Busy' : /\ u \in Busy /\ u # t /\ head'[u] = head[u] /\ head[u] \in Desc
                       /\ Chain(u) \cap Chain(t) = {} /\ head[u] \in Chain(u)
                       /\ next[head[u]] \in Chain(u) /\ next[next[head[u]]] \in Chain(u)
  <2>1. \A u \in Busy' : u \in Busy /\ u # t /\ head'[u] = head[u] /\ head[u] \in Desc
    BY <1>2, <1>5, FlightFacts, Zenon DEF VirtioTypeOK
  <2>2. \A u \in Busy' : Chain(u) \cap Chain(t) = {}
    BY <1>3, <2>1, Zenon DEF ChainInv
  <2>3. \A u \in Busy' : /\ head[u] \in Chain(u)
                        /\ next[head[u]] \in Chain(u) /\ next[next[head[u]]] \in Chain(u)
    BY <2>1, ChainFacts, Zenon
  <2> QED BY <2>1, <2>2, <2>3, Zenon
<1>7. \A d \in Desc \ Chain(t) : next'[d] = next[d] /\ info'[d] = info[d]
  BY <1>2, <1>3, <1>4 DEF VirtioTypeOK
<1>8. \A u \in Busy' : /\ next'[head[u]] = next[head[u]]
                       /\ next'[next[head[u]]] = next[next[head[u]]]
                       /\ info'[head[u]] = info[head[u]]
  <2> SUFFICES ASSUME NEW u \in Busy'
               PROVE  /\ next'[head[u]] = next[head[u]]
                      /\ next'[next[head[u]]] = next[next[head[u]]]
                      /\ info'[head[u]] = info[head[u]]
    BY Zenon
  <2>1. next[head[u]] \in Desc \ Chain(t) /\ head[u] \in Desc \ Chain(t)
    BY <1>6, ChainFacts, Zenon
  <2> QED BY <1>7, <2>1, Zenon
<1>9. \A u \in Busy' : Chain(u)' = Chain(u)
  BY <1>6, <1>8 DEF Chain
<1>10. \A u \in Thread : /\ u # t => pc'[u] = IF pc[u] = "desc_asleep" THEN "rw" ELSE pc[u]
                         /\ pc'[t] = "use"
  BY <1>2, Zenon DEF wakeup, DescSleepers, Runnable, VirtioTypeOK
<1>11. VirtioTypeOK'
  <2>1. free' \subseteq Desc
    BY <1>2, <1>4 DEF VirtioTypeOK
  <2>2. next' \in [Desc -> Desc \cup {None}] /\ info' \in [Desc -> Buf \cup {None}]
    BY <1>2, Zenon DEF VirtioTypeOK
  <2>3. pc' \in [Thread -> {"idle", "lock", "lock_asleep", "use", "put",
                            "rw", "desc_asleep", "io", "io_asleep"}]
    <3>1. pc' = [u \in Thread |-> pc'[u]]
      BY <1>2, Zenon DEF wakeup
    <3> QED BY <1>10, <3>1 DEF VirtioTypeOK
  <2>4. head' \in [Thread -> Desc \cup {None}]
    BY <1>2 DEF VirtioTypeOK
  <2>5. write' \in [Thread -> BOOLEAN]
    BY <1>2, Zenon DEF VirtioTypeOK
  <2> QED BY <1>2, <2>1, <2>2, <2>3, <2>4, <2>5, Zenon DEF VirtioTypeOK
<1>12. ChainInv'
  <2>1. \A u \in Thread : head'[u] # None <=> pc'[u] \in {"io", "io_asleep"}
    BY <1>2, <1>10 DEF ChainInv, VirtioTypeOK
  <2>2. ASSUME NEW u \in Busy' PROVE Linked(u)'
    <3>1. Linked(u) /\ buf' = buf
      BY <1>2, <1>6, Zenon DEF ChainInv
    <3> QED BY <1>6, <1>8, <3>1 DEF Linked
  <2>3. \A u, v \in Busy' : u # v => Chain(u)' \cap Chain(v)' = {}
    BY <1>6, <1>9, Zenon DEF ChainInv
  <2>4. \A d \in Desc : d \in free' <=> \A u \in Busy' : d \notin Chain(u)'
    <3>1. \A u \in Busy : u # t => u \in Busy'
      BY <1>5
    <3> QED BY <1>2, <1>3, <1>4, <1>6, <1>9, <3>1 DEF ChainInv
  <2> QED BY <2>1, <2>2, <2>3, <2>4, Zenon DEF ChainInv
<1>13. FlightInv'
  <2>1. \A h \in Desc : InFlight(h)' <=> InFlight(h)
    BY <1>2, Zenon DEF InFlight, InRing
  <2>2. /\ Ring(avail, devIdx, availIdx)' /\ Ring(used, used_idx, usedIdx)'
        /\ Once(avail)' /\ Once(used)'
        /\ \A h \in Desc : h \in taken' => ~InRing(avail, h)' /\ ~InRing(used, h)'
        /\ \A h \in Desc : InRing(avail, h)' => ~InRing(used, h)'
    BY <1>2, Zenon DEF FlightInv, Ring, Window, Once, InRing
  <2>3. \A h \in Desc : InFlight(h)' => \E u \in Busy' : head'[u] = h /\ buf'[u] \in owned'
    BY <1>2, <1>5, <1>6, <2>1, Zenon DEF FlightInv
  <2>4. \A u \in Busy' : buf'[u] \in owned' => InFlight(head[u])'
    <3> SUFFICES ASSUME NEW u \in Busy', buf'[u] \in owned' PROVE InFlight(head[u])'
      OBVIOUS
    <3>1. u \in Busy /\ buf[u] \in owned /\ head'[u] = head[u]
      BY <1>2, <1>6, Zenon
    <3>2. InFlight(head[u])
      BY <3>1, Zenon DEF FlightInv
    <3>3. avail' = avail /\ used' = used /\ taken' = taken
      BY <1>2, Zenon
    <3> QED BY <3>1, <3>2, <3>3, Zenon DEF InFlight, InRing
  <2> QED BY <2>2, <2>3, <2>4, Zenon DEF FlightInv
<1>14. WakeInv'
  <2>1. DescSleepers' = {}
    BY <1>10, Zenon DEF DescSleepers
  <2>2. \A u \in Thread : pc'[u] = "io_asleep" => pc[u] = "io_asleep"
    BY <1>10
  <2>3. UNCHANGED <<used_idx, usedIdx, isr, intr, owned, buf>>
    BY <1>2, Zenon
  <2> QED BY <2>1, <2>2, <2>3, Zenon DEF WakeInv
<1> QED BY <1>11, <1>12, <1>13, <1>14 DEF VirtioInv

\* A step of the device or of the interrupt handler, which leaves the threads'
\* requests as they are.
LEMMA ChainKept ==
  ASSUME ChainInv, UNCHANGED <<free, next, info, buf, head>>,
         \A t \in Thread : pc'[t] \in {"io", "io_asleep"} <=> pc[t] \in {"io", "io_asleep"}
  PROVE  ChainInv' /\ Busy' = Busy
<1>1. Busy' = Busy /\ \A t \in Busy : Chain(t)' = Chain(t) /\ Linked(t)' = Linked(t)
  BY DEF Busy, Chain, Linked
<1> QED BY <1>1 DEF ChainInv

LEMMA TakeStep ==
  ASSUME VirtioInv, device_take
  PROVE  VirtioInv'
<1> VirtioTypeOK /\ ChainInv /\ FlightInv /\ WakeInv
  BY Zenon DEF VirtioInv
<1>2. /\ devIdx # availIdx
      /\ taken' = taken \cup {avail[devIdx % NUM]}
      /\ avail' = [avail EXCEPT ![devIdx % NUM] = None]
      /\ devIdx' = (devIdx + 1) % Wrap
      /\ UNCHANGED <<free, next, info, availIdx, used, usedIdx, used_idx, isr, intr,
                     owned, pc, buf, write, head>>
  BY Zenon DEF device_take
<1> DEFINE h == avail[devIdx % NUM]
<1>3. /\ h \in Desc /\ InRing(avail, h) /\ Loses(avail, avail', h)
      /\ Ring(avail', (devIdx + 1) % Wrap, availIdx)
  <2> DEFINE q == avail'
  <2>1. /\ avail \in [Desc -> Desc \cup {None}] /\ devIdx \in 0..Wrap - 1
        /\ Ring(avail, devIdx, availIdx) /\ Once(avail)
        /\ q = [avail EXCEPT ![devIdx % NUM] = None]
    BY <1>2, Zenon DEF VirtioTypeOK, FlightInv
  <2> HIDE DEF q
  <2>2. /\ h \in Desc /\ InRing(avail, h) /\ Loses(avail, q, h)
        /\ Ring(q, (devIdx + 1) % Wrap, availIdx)
    BY <1>2, <2>1, RingTake, Zenon
  <2> QED BY <2>2 DEF q
<1> HIDE DEF h
<1>4. taken' = taken \cup {h}
  BY <1>2, Zenon DEF h
<1>5. ChainInv' /\ Busy' = Busy
  BY <1>2, ChainKept
<1>6. VirtioTypeOK'
  <2>1. devIdx' \in 0..Wrap - 1
    <3>1. devIdx \in Nat
      BY WrapFits DEF VirtioTypeOK
    <3> QED BY <1>2, <3>1, WrapFits
  <2> QED BY <1>2, <1>3, <1>4, <2>1, Zenon DEF VirtioTypeOK, Loses
<1>7. FlightInv'
  <2>1. \A g \in Desc : InRing(avail, g)' <=> InRing(avail, g) /\ g # h
    BY <1>3, Zenon DEF Loses, InRing
  <2>2. \A g \in Desc : InRing(used, g)' <=> InRing(used, g)
    BY <1>2, Zenon DEF InRing
  <2>3. \A g \in Desc : InFlight(g)' <=> InFlight(g)
    BY <1>3, <1>4, <2>1, <2>2, Zenon DEF InFlight
  <2>4. /\ Ring(avail, devIdx, availIdx)' /\ Ring(used, used_idx, usedIdx)'
        /\ Once(avail)' /\ Once(used)'
    BY <1>2, <1>3, Zenon DEF FlightInv, Ring, Window, Once, Loses
  <2>5. /\ \A g \in Desc : g \in taken' => ~InRing(avail, g)' /\ ~InRing(used, g)'
        /\ \A g \in Desc : InRing(avail, g)' => ~InRing(used, g)'
    <3>1. /\ \A g \in Desc : g \in taken => ~InRing(avail, g) /\ ~InRing(used, g)
          /\ \A g \in Desc : InRing(avail, g) => ~InRing(used, g)
      BY Zenon DEF FlightInv
    <3> QED BY <1>3, <1>4, <2>1, <2>2, <3>1
  <2>6. /\ \A g \in Desc : InFlight(g)' => \E u \in Busy' : head'[u] = g /\ buf'[u] \in owned'
        /\ \A u \in Busy' : buf'[u] \in owned' => InFlight(head'[u])
    BY <1>2, <1>5, <2>3, Zenon DEF FlightInv
  <2>7. \A u \in Busy' : buf'[u] \in owned' => InFlight(head[u])'
    <3>1. \A u \in Busy' : head'[u] = head[u] /\ head[u] \in Desc
      BY <1>2, <1>5, FlightFacts, Zenon
    <3> QED BY <2>3, <2>6, <3>1, Zenon DEF InFlight, InRing
  <2> QED BY <2>4, <2>5, <2>6, <2>7, Zenon DEF FlightInv
<1>8. WakeInv'
  BY <1>2, <1>5 DEF WakeInv, DescSleepers
<1> QED BY <1>5, <1>6, <1>7, <1>8 DEF VirtioInv

LEMMA DoneStep ==
  ASSUME FiniteSetFacts, VirtioInv, NEW h, device_done(h)
  PROVE  VirtioInv'
<1> VirtioTypeOK /\ ChainInv /\ FlightInv /\ WakeInv
  BY Zenon DEF VirtioInv
<1>2. /\ h \in taken /\ taken' = taken \ {h}
      /\ used' = [used EXCEPT ![usedIdx % NUM] = h]
      /\ usedIdx' = (usedIdx + 1) % Wrap /\ isr' = TRUE
      /\ UNCHANGED <<free, next, info, avail, availIdx, devIdx, used_idx, intr, owned,
                     pc, buf, write, head>>
  BY Zenon DEF device_done
<1>3. h \in Desc /\ InFlight(h) /\ ~InRing(used, h) /\ ~InRing(avail, h)
  BY <1>2 DEF VirtioTypeOK, FlightInv, InFlight
<1>4. PICK t \in Busy : head[t] = h
  BY <1>3, Zenon DEF FlightInv
<1>5. next[h] \in Desc /\ next[h] # h /\ ~InRing(used, next[h])
  BY <1>4, FlightFacts, ChainFacts, Zenon DEF InFlight
<1>6. Gains(used, used', h) /\ Ring(used', used_idx, (usedIdx + 1) % Wrap)
  <2> DEFINE q == used'
             d == next[h]
  <2>1. /\ used \in [Desc -> Desc \cup {None}] /\ used_idx \in 0..Wrap - 1
        /\ Ring(used, used_idx, usedIdx) /\ Once(used)
        /\ q = [used EXCEPT ![usedIdx % NUM] = h]
        /\ d \in Desc /\ ~InRing(used, d) /\ d # h
    BY <1>2, <1>5 DEF VirtioTypeOK, FlightInv
  <2> HIDE DEF q, d
  <2>2. Gains(used, q, h) /\ Ring(q, used_idx, (usedIdx + 1) % Wrap)
    BY <1>3, <2>1, RingPut, Zenon
  <2> QED BY <2>2, Zenon DEF q
<1>7. ChainInv' /\ Busy' = Busy
  BY <1>2, ChainKept, Zenon
<1>8. VirtioTypeOK'
  <2>1. usedIdx' \in 0..Wrap - 1
    <3>1. usedIdx \in Nat
      BY WrapFits DEF VirtioTypeOK
    <3> QED BY <1>2, <3>1, WrapFits
  <2> QED BY <1>2, <1>6, <2>1, Zenon DEF VirtioTypeOK, Gains
<1>9. FlightInv'
  <2>1. \A g \in Desc : InRing(used, g)' <=> InRing(used, g) \/ g = h
    BY <1>6, Zenon DEF Gains, InRing
  <2>2. \A g \in Desc : InRing(avail, g)' <=> InRing(avail, g)
    BY <1>2 DEF InRing
  <2>3. \A g \in Desc : InFlight(g)' <=> InFlight(g)
    BY <1>2, <2>1, <2>2, Zenon DEF InFlight
  <2>4. /\ Ring(avail, devIdx, availIdx)' /\ Ring(used, used_idx, usedIdx)'
        /\ Once(avail)' /\ Once(used)'
    BY <1>2, <1>6, Zenon DEF FlightInv, Ring, Window, Once, Gains
  <2>5. /\ \A g \in Desc : g \in taken' => ~InRing(avail, g)' /\ ~InRing(used, g)'
        /\ \A g \in Desc : InRing(avail, g)' => ~InRing(used, g)'
    <3>1. /\ \A g \in Desc : g \in taken => ~InRing(avail, g) /\ ~InRing(used, g)
          /\ \A g \in Desc : InRing(avail, g) => ~InRing(used, g)
      BY Zenon DEF FlightInv
    <3> QED BY <1>2, <1>3, <2>1, <2>2, <3>1, Zenon
  <2>6. /\ \A g \in Desc : InFlight(g)' => \E u \in Busy' : head'[u] = g /\ buf'[u] \in owned'
        /\ \A u \in Busy' : buf'[u] \in owned' => InFlight(head'[u])
    BY <1>2, <1>7, <2>3, Zenon DEF FlightInv
  <2>7. \A u \in Busy' : buf'[u] \in owned' => InFlight(head[u])'
    <3>1. \A u \in Busy' : head'[u] = head[u] /\ head[u] \in Desc
      BY <1>2, <1>7, FlightFacts, Zenon
    <3> QED BY <2>3, <2>6, <3>1, Zenon DEF InFlight, InRing
  <2> QED BY <2>4, <2>5, <2>6, <2>7, Zenon DEF FlightInv
<1>10. WakeInv'
  BY <1>2, <1>7 DEF WakeInv, DescSleepers
<1> QED BY <1>7, <1>8, <1>9, <1>10 DEF VirtioInv

\* The interrupt handler takes an entry of the used ring: the buffer is its
\* thread's again, and no other thread's request was for it.
LEMMA EntryStep ==
  ASSUME VirtioInv, Exclusive, intr_entry
  PROVE  VirtioInv'
<1> VirtioTypeOK /\ ChainInv /\ FlightInv /\ WakeInv
  BY Zenon DEF VirtioInv
<1> DEFINE h == used[used_idx % NUM]
           b == info[h]
<1>2. /\ intr = "loop" /\ used_idx # usedIdx
      /\ owned' = owned \ {b} /\ pc' = wakeup(IoSleepers(b))
      /\ used' = [used EXCEPT ![used_idx % NUM] = None]
      /\ used_idx' = (used_idx + 1) % Wrap
      /\ UNCHANGED <<free, next, info, avail, availIdx, devIdx, usedIdx, taken, isr, intr,
                     buf, write, head>>
  BY Zenon DEF intr_entry
<1>3. /\ h \in Desc /\ InRing(used, h) /\ Loses(used, used', h)
      /\ Ring(used', (used_idx + 1) % Wrap, usedIdx)
  <2> DEFINE q == used'
  <2>1. /\ used \in [Desc -> Desc \cup {None}] /\ used_idx \in 0..Wrap - 1
        /\ Ring(used, used_idx, usedIdx) /\ Once(used)
        /\ q = [used EXCEPT ![used_idx % NUM] = None]
    BY <1>2, Zenon DEF VirtioTypeOK, FlightInv
  <2> HIDE DEF q
  <2>2. /\ h \in Desc /\ InRing(used, h) /\ Loses(used, q, h)
        /\ Ring(q, (used_idx + 1) % Wrap, usedIdx)
    BY <1>2, <2>1, RingTake, Zenon
  <2> QED BY <2>2 DEF q
<1> HIDE DEF h
<1>4. PICK t \in Busy : head[t] = h /\ buf[t] = b
  <2>1. InFlight(h)
    BY <1>3, Zenon DEF InFlight
  <2>2. PICK t \in Busy : head[t] = h
    BY <1>3, <2>1, Zenon DEF FlightInv
  <2> QED BY <2>2, ChainFacts
<1> HIDE DEF b
<1>5. \A u \in Busy : u # t => buf[u] # b /\ head[u] # h
  BY <1>4, FlightFacts, Zenon DEF ChainInv, Exclusive, RwPc, Busy
<1>6. \A u \in Thread :
        pc'[u] = IF pc[u] = "io_asleep" /\ buf[u] = b THEN "io" ELSE pc[u]
  BY <1>2 DEF wakeup, IoSleepers, Runnable
<1>7. ChainInv' /\ Busy' = Busy
  BY <1>2, <1>6, ChainKept, Zenon
<1>8. VirtioTypeOK'
  <2>1. used_idx' \in 0..Wrap - 1
    <3>1. used_idx \in Nat
      BY WrapFits DEF VirtioTypeOK
    <3> QED BY <1>2, <3>1, WrapFits
  <2>2. pc' \in [Thread -> {"idle", "lock", "lock_asleep", "use", "put",
                            "rw", "desc_asleep", "io", "io_asleep"}]
    <3>1. pc' = [u \in Thread |-> pc'[u]]
      BY <1>2, Zenon DEF wakeup
    <3> QED BY <1>6, <3>1 DEF VirtioTypeOK
  <2> QED BY <1>2, <1>3, <2>1, <2>2, Zenon DEF VirtioTypeOK, Loses
<1>9. FlightInv'
  <2>1. \A g \in Desc : InRing(used, g)' <=> InRing(used, g) /\ g # h
    BY <1>3, Zenon DEF Loses, InRing
  <2>2. \A g \in Desc : InRing(avail, g)' <=> InRing(avail, g)
    BY <1>2 DEF InRing
  <2>3. /\ \A g \in Desc : g \in taken => ~InRing(avail, g) /\ ~InRing(used, g)
        /\ \A g \in Desc : InRing(avail, g) => ~InRing(used, g)
    BY Zenon DEF FlightInv
  <2>4. \A g \in Desc : InFlight(g)' <=> InFlight(g) /\ g # h
    BY <1>2, <1>3, <2>1, <2>2, <2>3, Zenon DEF InFlight
  <2>5. /\ Ring(avail, devIdx, availIdx)' /\ Ring(used, used_idx, usedIdx)'
        /\ Once(avail)' /\ Once(used)'
    BY <1>2, <1>3, Zenon DEF FlightInv, Ring, Window, Once, Loses
  <2>6. /\ \A g \in Desc : g \in taken' => ~InRing(avail, g)' /\ ~InRing(used, g)'
        /\ \A g \in Desc : InRing(avail, g)' => ~InRing(used, g)'
    BY <1>2, <2>1, <2>2, <2>3, Zenon
  <2>7. \A g \in Desc : InFlight(g)' => \E u \in Busy' : head'[u] = g /\ buf'[u] \in owned'
    BY <1>2, <1>4, <1>5, <1>7, <2>4, Zenon DEF FlightInv
  <2>8. \A u \in Busy' : buf'[u] \in owned' => InFlight(head[u])'
    <3>1. \A u \in Busy' : head'[u] = head[u] /\ head[u] \in Desc /\ buf'[u] = buf[u]
      BY <1>2, <1>7, FlightFacts
    <3>2. ASSUME NEW u \in Busy', buf[u] \in owned' PROVE InFlight(head[u]) /\ head[u] # h
      BY <1>2, <1>4, <1>5, <1>7, <3>2, Zenon DEF FlightInv
    <3> QED BY <2>4, <3>1, <3>2 DEF InFlight, InRing
  <2> QED BY <2>5, <2>6, <2>7, <2>8, Zenon DEF FlightInv
<1>10. WakeInv'
  BY <1>2, <1>6, <1>7 DEF WakeInv, DescSleepers
<1> QED BY <1>7, <1>8, <1>9, <1>10 DEF VirtioInv
=============================================================================
