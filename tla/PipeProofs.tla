----------------------------- MODULE PipeProofs -----------------------------
(***************************************************************************)
(* Nobody sleeps in a pipe through what it waits for, and the bytes come    *)
(* out in order: for any number of processes at each end, any buffer size,  *)
(* any width of the counters that it divides and any requests.              *)
(***************************************************************************)
EXTENDS Pipe, Remainders

\* A new pipe has nobody in a call.
LEMMA InitSleepInv == Init => SleepInv
BY PipeConstants DEF Init, SleepInv, Proc

\* Every step of a process inside a call preserves the invariant: it holds the
\* lock while it looks at the counters and moves them, and the wakeups come
\* before it lets the lock go.
LEMMA CallStepSleepInv ==
  ASSUME SleepInv, NEW p \in Proc, Start(p) \/ Step(p)
  PROVE  SleepInv'
<1> USE PipeConstants DEF SleepInv, Proc, pipeVars, histVars, Full, Empty
<1>1. CASE Start(p)
  BY <1>1 DEF Start, Call
<1>2. CASE Acquire(p)
  BY <1>2 DEF Acquire
<1>3. CASE Sleep(p)
  BY <1>3 DEF Sleep
<1>4. CASE write_fails(p)
  BY <1>4 DEF write_fails, InWrite
<1>5. CASE write_full(p)
  BY <1>5 DEF write_full, InWrite, wakeup, Woken
<1>6. CASE write_byte(p)
  BY <1>6 DEF write_byte, InWrite, HasSpace
<1>7. CASE write_done(p)
  BY <1>7 DEF write_done, InWrite, wakeup, Woken
<1>8. CASE write_fault(p)
  BY <1>8 DEF write_fault, InWrite, wakeup, Woken
<1>9. CASE read_fails(p)
  BY <1>9 DEF read_fails, InRead
<1>10. CASE read_empty(p)
  BY <1>10 DEF read_empty, InRead
<1>11. CASE read_starts(p)
  BY <1>11 DEF read_starts, InRead
<1>12. CASE read_byte(p)
  BY <1>12 DEF read_byte, MayRead
<1>13. CASE read_done(p)
  BY <1>13 DEF read_done, ReadWakes, wakeup, Woken
<1>14. CASE read_fault(p)
  BY <1>14 DEF read_fault, ReadWakes, wakeup, Woken
<1> QED
  BY <1>1, <1>2, <1>3, <1>4, <1>5, <1>6, <1>7, <1>8, <1>9, <1>10, <1>11, <1>12,
     <1>13, <1>14, Zenon DEF Step

\* So does a close, which wakes the other end, and a kill.
LEMMA OutsideSleepInv ==
  ASSUME SleepInv, NEW p \in Proc, Close(p) \/ kkill(p)
  PROVE  SleepInv'
<1> USE PipeConstants DEF SleepInv, Proc, pipeVars, histVars, Full, Empty
<1>1. CASE Close(p)
  <2>1. PICK End \in {Writer, Reader} :
          /\ p \in End
          /\ \/ /\ open' \cap End = {}
                /\ lock = None
                /\ pipeclose(End)
             \/ /\ open' \cap End # {}
                /\ UNCHANGED <<readopen, writeopen, pc, freed>>
    BY <1>1 DEF Close
  <2>2. CASE End = Writer /\ open' \cap End = {} /\ lock = None /\ pipeclose(End)
    <3>1. /\ writeopen' = FALSE /\ readopen' = readopen
          /\ pc' = [q \in Proc |-> IF q \in Reader /\ pc[q] = "asleep" THEN "acquire" ELSE pc[q]]
      BY <2>1, <2>2, Zenon DEF pipeclose, CloseWakes, wakeup, Woken
    <3>2. /\ open' = open \ {p} /\ pc[p] = "out" /\ lock = None
          /\ UNCHANGED <<nread, nwrite, lock, killed>>
      BY <1>1, <2>1, <2>2 DEF Close, Call
    <3> QED BY <3>1, <3>2, Zenon
  <2>3. CASE End = Reader /\ open' \cap End = {} /\ lock = None /\ pipeclose(End)
    <3>1. /\ readopen' = FALSE /\ writeopen' = writeopen
          /\ pc' = [q \in Proc |-> IF q \in Writer /\ pc[q] = "asleep" THEN "acquire" ELSE pc[q]]
      BY <2>1, <2>3, Zenon DEF pipeclose, CloseWakes, wakeup, Woken
    <3>2. /\ open' = open \ {p} /\ pc[p] = "out" /\ lock = None /\ open' \cap Reader = {}
          /\ UNCHANGED <<nread, nwrite, lock, killed>>
      BY <1>1, <2>1, <2>3 DEF Close, Call
    <3> QED BY <3>1, <3>2, Zenon
  <2>4. CASE UNCHANGED <<readopen, writeopen, pc, freed>>
    BY <1>1, <2>4 DEF Close, Call
  <2> QED BY <2>1, <2>2, <2>3, <2>4
<1>2. CASE kkill(p)
  BY <1>2 DEF kkill, wakeup, Woken
<1> QED BY <1>1, <1>2

\* SleepInv is an invariant of the pipe.
THEOREM SleepInvariant == Spec => []SleepInv
<1>1. SleepInv /\ [Next]_vars => SleepInv'
  <2>1. ASSUME SleepInv, UNCHANGED vars PROVE SleepInv'
    BY <2>1 DEF vars, SleepInv, Full, Empty
  <2> QED BY <2>1, CallStepSleepInv, OutsideSleepInv DEF Next
<1> QED BY InitSleepInv, <1>1, PTL DEF Spec

\* pipewrite() and piperead() lose no wakeup: when the lock is free, a sleeping
\* writer has no room and a sleeping reader has nothing to read, unless a
\* writer has been killed in the middle of its call.
THEOREM NoLostWakeup == Spec => []SleepersWaitRightly
<1>1. SleepInv => SleepersWaitRightly
  BY PipeConstants DEF SleepInv, SleepersWaitRightly, WriterWaitsRightly,
     ReaderWaitsRightly, Proc
<1> QED BY <1>1, SleepInvariant, PTL

(***************************************************************************)
(* The order of the bytes.                                                  *)
(***************************************************************************)

\* Where the counters point, and what their comparisons mean.
LEMMA RingFacts ==
  ASSUME RingInv
  PROVE  /\ Taken \in Nat /\ Taken <= sent /\ sent - Taken \in 0..PIPESIZE
         /\ nread % PIPESIZE = Taken % PIPESIZE /\ nwrite % PIPESIZE = sent % PIPESIZE
         /\ nread % PIPESIZE \in 0..PIPESIZE - 1 /\ nwrite % PIPESIZE \in 0..PIPESIZE - 1
         /\ (nread + 1) % Wrap = (Taken + 1) % Wrap /\ (nwrite + 1) % Wrap = (sent + 1) % Wrap
         /\ ~Empty => Taken # sent
         /\ ~Full => sent # Taken + PIPESIZE
<1>1. /\ PIPESIZE \in Nat \ {0} /\ Wrap \in Nat \ {0} /\ Wrap % PIPESIZE = 0
      /\ 1 \in 0..Wrap - 1 /\ PIPESIZE \in 0..Wrap - 1
  BY PipeConstants
<1>2. /\ Taken \in Nat /\ sent \in Nat /\ Taken <= sent /\ sent <= Taken + PIPESIZE
      /\ nread = Taken % Wrap /\ nwrite = sent % Wrap
  BY DEF RingInv, Taken
<1>c. ASSUME NEW x \in Nat
      PROVE  /\ (x % Wrap) % PIPESIZE = x % PIPESIZE
             /\ ((x % Wrap) + 1) % Wrap = (x + 1) % Wrap
             /\ ((x % Wrap) + PIPESIZE) % Wrap = (x + PIPESIZE) % Wrap
  <2>1. (x % Wrap) % PIPESIZE = x % PIPESIZE
    BY <1>1, WrapKeepsSlot, Zenon
  <2>2. ASSUME NEW i \in 0..Wrap - 1 PROVE ((x % Wrap) + i) % Wrap = (x + i) % Wrap
    BY <1>1, Wrapped, Zenon
  <2> QED BY <1>1, <2>1, <2>2, Zenon
<1>3. /\ (Taken % Wrap) % PIPESIZE = Taken % PIPESIZE
      /\ (sent % Wrap) % PIPESIZE = sent % PIPESIZE
  BY <1>2, <1>c, Zenon
<1>4. Taken % PIPESIZE \in 0..PIPESIZE - 1 /\ sent % PIPESIZE \in 0..PIPESIZE - 1
  BY <1>1, <1>2
<1>5. /\ ((Taken % Wrap) + 1) % Wrap = (Taken + 1) % Wrap
      /\ ((sent % Wrap) + 1) % Wrap = (sent + 1) % Wrap
      /\ ((Taken % Wrap) + PIPESIZE) % Wrap = (Taken + PIPESIZE) % Wrap
  BY <1>2, <1>c, Zenon
<1>6. ~Empty => Taken # sent
  BY <1>2, Zenon DEF Empty
<1>7. ~Full => sent # Taken + PIPESIZE
  BY <1>2, <1>5, Zenon DEF Full
<1>8. sent - Taken \in 0..PIPESIZE
  BY <1>1, <1>2
<1> QED BY <1>2, <1>3, <1>4, <1>5, <1>6, <1>7, <1>8, Zenon

\* A byte goes into the slot after the last one, which is free.
LEMMA RingWrite ==
  ASSUME RingInv, NEW p \in Proc, write_byte(p)
  PROVE  RingInv'
<1>1. /\ PIPESIZE \in Nat \ {0} /\ sent \in Nat /\ Taken \in Nat /\ lost \in Nat
      /\ recv \in Seq(Nat) /\ data \in [0..PIPESIZE - 1 -> Nat]
      /\ Taken <= sent /\ sent <= Taken + PIPESIZE
      /\ \A k \in Taken..sent - 1 : data[k % PIPESIZE] = k + 1
  BY RingFacts, PipeConstants, Zenon DEF RingInv
<1>2. /\ data' = [data EXCEPT ![sent % PIPESIZE] = sent + 1]
      /\ nwrite' = (sent + 1) % Wrap /\ sent' = sent + 1
      /\ UNCHANGED <<nread, recv, lost>>
      /\ sent # Taken + PIPESIZE /\ sent % PIPESIZE \in 0..PIPESIZE - 1
  BY RingFacts, Zenon DEF write_byte, HasSpace
<1>3. Taken' = Taken
  BY <1>2, Zenon DEF Taken
<1>4. ASSUME NEW k \in Taken..sent PROVE data'[k % PIPESIZE] = k + 1
  <2>1. k \in Nat /\ k % PIPESIZE \in 0..PIPESIZE - 1
    BY <1>1
  <2>2. CASE k = sent
    BY <1>1, <1>2, <2>2, Zenon
  <2>3. CASE k # sent
    <3>1. k \in Taken..sent - 1
      BY <1>1, <2>3
    <3>2. k % PIPESIZE # sent % PIPESIZE
      <4>1. /\ k - Taken \in 0..PIPESIZE - 1 /\ sent - Taken \in 0..PIPESIZE - 1
            /\ Taken + (k - Taken) = k /\ Taken + (sent - Taken) = sent
            /\ k - Taken # sent - Taken
        BY <1>1, <1>2, <3>1
      <4> QED BY <1>1, <4>1, SlotsDiffer, Zenon
    <3>3. data'[k % PIPESIZE] = data[k % PIPESIZE]
      BY <1>1, <1>2, <2>1, <3>2, Zenon
    <3> QED BY <1>1, <3>1, <3>3, Zenon
  <2> QED BY <2>2, <2>3, Zenon
<1>5. sent' \in Nat /\ Taken' <= sent' /\ sent' <= Taken' + PIPESIZE /\ sent' - 1 = sent
      /\ data' \in [0..PIPESIZE - 1 -> Nat]
  BY <1>1, <1>2, <1>3
<1>6. \A k \in Taken'..sent' - 1 : data'[k % PIPESIZE] = k + 1
  BY <1>3, <1>4, <1>5, Zenon
<1> QED BY <1>1, <1>2, <1>3, <1>5, <1>6, Zenon DEF RingInv

\* A byte leaves its slot, for the reader or into a copyout() that fails.
LEMMA RingRead ==
  ASSUME RingInv, ~Empty, nread' = (nread + 1) % Wrap, UNCHANGED <<nwrite, data, sent>>,
         \/ recv' = Append(recv, data[nread % PIPESIZE]) /\ lost' = lost
         \/ recv' = recv /\ lost' = lost + 1
  PROVE  RingInv'
<1>1. /\ PIPESIZE \in Nat \ {0} /\ sent \in Nat /\ Taken \in Nat /\ lost \in Nat
      /\ recv \in Seq(Nat) /\ data \in [0..PIPESIZE - 1 -> Nat]
      /\ Taken <= sent /\ sent <= Taken + PIPESIZE
      /\ \A k \in Taken..sent - 1 : data[k % PIPESIZE] = k + 1
  BY RingFacts, PipeConstants, Zenon DEF RingInv
<1>2. nread' = (Taken + 1) % Wrap /\ Taken # sent /\ nread % PIPESIZE = Taken % PIPESIZE
  BY RingFacts, Zenon
<1>3. data[nread % PIPESIZE] = Taken + 1
  <2>1. Taken \in Taken..sent - 1
    BY <1>1, <1>2
  <2> QED BY <1>1, <1>2, <2>1, Zenon
<1>4. /\ \A i, j \in 1..Len(recv) : i < j => recv[i] < recv[j]
      /\ \A i \in 1..Len(recv) : recv[i] <= Taken
      /\ Len(recv) \in Nat /\ \A i \in 1..Len(recv) : recv[i] \in Nat
  <2>1. Len(recv) \in Nat /\ \A i \in 1..Len(recv) : recv[i] \in Nat
    BY <1>1
  <2> QED BY <2>1, Zenon DEF RingInv
<1>5. /\ lost' \in Nat /\ recv' \in Seq(Nat) /\ Taken' = Taken + 1
      /\ \A i, j \in 1..Len(recv') : i < j => recv'[i] < recv'[j]
      /\ \A i \in 1..Len(recv') : recv'[i] <= Taken + 1
  <2>1. CASE recv' = Append(recv, Taken + 1) /\ lost' = lost
    <3>1. /\ recv' \in Seq(Nat) /\ Len(recv') = Len(recv) + 1
          /\ \A i \in 1..Len(recv) : recv'[i] = recv[i]
          /\ recv'[Len(recv) + 1] = Taken + 1
      BY <1>1, <2>1
    <3>2. Taken' = Taken + 1
      BY <1>1, <1>4, <2>1, <3>1 DEF Taken
    <3>3. ASSUME NEW i \in 1..Len(recv'), NEW j \in 1..Len(recv'), i < j
          PROVE  recv'[i] < recv'[j]
      <4>1. i \in 1..Len(recv)
        BY <1>4, <3>1, <3>3
      <4>2. CASE j \in 1..Len(recv)
        BY <1>4, <3>1, <3>3, <4>1, <4>2, Zenon
      <4>3. CASE j = Len(recv) + 1
        <5>1. recv[i] <= Taken /\ recv[i] \in Nat /\ recv'[i] = recv[i] /\ recv'[j] = Taken + 1
          BY <1>4, <3>1, <4>1, <4>3, Zenon
        <5> QED BY <1>1, <5>1
      <4> QED BY <1>4, <3>1, <4>2, <4>3
    <3>4. ASSUME NEW i \in 1..Len(recv') PROVE recv'[i] <= Taken + 1
      <4>1. CASE i \in 1..Len(recv)
        <5>1. recv'[i] = recv[i] /\ recv[i] <= Taken /\ recv[i] \in Nat
          BY <1>4, <3>1, <4>1, Zenon
        <5> QED BY <1>1, <5>1
      <4>2. CASE i = Len(recv) + 1
        BY <1>1, <3>1, <4>2
      <4> QED BY <1>4, <3>1, <4>1, <4>2
    <3> QED BY <1>1, <2>1, <3>1, <3>2, <3>3, <3>4, Zenon
  <2>2. CASE recv' = recv /\ lost' = lost + 1
    BY <1>1, <1>4, <2>2 DEF Taken
  <2> QED BY <1>3, <2>1, <2>2, Zenon
<1>6. /\ Taken' <= sent' /\ sent' <= Taken' + PIPESIZE
      /\ \A k \in Taken'..sent' - 1 : k \in Taken..sent - 1
  BY <1>1, <1>2, <1>5
<1>7. \A k \in Taken'..sent' - 1 : data'[k % PIPESIZE] = k + 1
  BY <1>1, <1>6, Zenon
<1>8. nwrite' = sent' % Wrap
  BY Zenon DEF RingInv
<1> QED BY <1>1, <1>2, <1>5, <1>6, <1>7, <1>8, Zenon DEF RingInv

\* The counters and the buffer change only in the two loops.
LEMMA RingStep ==
  ASSUME RingInv, [Next]_vars
  PROVE  RingInv'
<1>1. ASSUME UNCHANGED <<nread, nwrite, data, sent, recv, lost>> PROVE RingInv'
  BY <1>1, Zenon DEF RingInv, Taken
<1>2. ASSUME NEW p \in Proc, Start(p) \/ Close(p) \/ kkill(p) PROVE RingInv'
  BY <1>1, <1>2, Zenon DEF Start, Close, kkill, pipeVars, histVars
<1>3. ASSUME NEW p \in Proc, Step(p) PROVE RingInv'
  <2>1. CASE write_byte(p)
    BY <2>1, RingWrite, Zenon
  <2>2. CASE read_byte(p)
    BY <2>2, RingRead, Zenon DEF read_byte, MayRead
  <2>3. CASE read_fault(p)
    BY <2>3, RingRead, Zenon DEF read_fault
  <2>4. CASE \/ Acquire(p) \/ Sleep(p) \/ write_fails(p) \/ write_full(p) \/ write_done(p)
             \/ write_fault(p) \/ read_fails(p) \/ read_empty(p) \/ read_starts(p)
             \/ read_done(p)
    BY <1>1, <2>4, Zenon DEF Acquire, Sleep, write_fails, write_full, write_done,
         write_fault, read_fails, read_empty, read_starts, read_done, pipeVars, histVars
  <2> QED BY <1>3, <2>1, <2>2, <2>3, <2>4, Zenon DEF Step
<1>4. ASSUME UNCHANGED vars PROVE RingInv'
  BY <1>1, <1>4, Zenon DEF vars
<1> QED BY <1>2, <1>3, <1>4, Zenon DEF Next

\* RingInv is an invariant of the pipe.
THEOREM RingInvariant == Spec => []RingInv
<1>1. ASSUME Init PROVE RingInv
  <2>1. /\ sent = 0 /\ lost = 0 /\ recv = <<>> /\ nread = 0 /\ nwrite = 0
        /\ data = [i \in 0..PIPESIZE - 1 |-> 0]
    BY <1>1, Zenon DEF Init
  <2>2. Taken = 0
    BY <2>1 DEF Taken
  <2>3. 0 % Wrap = 0
    BY PipeConstants
  <2> QED BY <2>1, <2>2, <2>3, PipeConstants DEF RingInv
<1>2. RingInv /\ [Next]_vars => RingInv'
  BY RingStep, Zenon
<1> QED BY <1>1, <1>2, PTL DEF Spec

\* Whatever is read from a pipe comes in the order in which it was written, no
\* byte twice, and every byte written is read, lost to a failing copyout(), or
\* still in the buffer, also when nread and nwrite wrap.
THEOREM BytesInOrder == Spec => []InOrder
<1>1. ASSUME RingInv PROVE InOrder
  <2>1. Taken \in Nat /\ sent - Taken \in 0..PIPESIZE /\ sent \in Nat
    BY <1>1, RingFacts, Zenon DEF RingInv
  <2>2. sent - Taken \in 0..Wrap - 1 /\ Taken + (sent - Taken) = sent /\ Wrap \in Nat \ {0}
    BY <2>1, PipeConstants
  <2>3. (((Taken + (sent - Taken)) % Wrap) - (Taken % Wrap)) % Wrap = sent - Taken
    BY <2>1, <2>2, WrappedDifference, Zenon
  <2>4. Count = sent - Taken
    BY <1>1, <2>2, <2>3, Zenon DEF Count, RingInv
  <2>5. Taken = Len(recv) + lost
    BY DEF Taken
  <2>6. Taken + Count = sent /\ Count <= PIPESIZE
    BY <2>1, <2>4, PipeConstants
  <2> QED BY <1>1, <2>5, <2>6, Zenon DEF InOrder, RingInv
<1> QED BY <1>1, RingInvariant, PTL
=============================================================================
