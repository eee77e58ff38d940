--------------------------- MODULE ConsoleProofs ---------------------------
(***************************************************************************)
(* Interrupts, locks, the transmit FIFO and the input ring of the console,  *)
(* for any number of harts, any ring size and any loads.                    *)
(***************************************************************************)
EXTENDS Console, Remainders

(***************************************************************************)
(* Input.                                                                   *)
(***************************************************************************)

\* What the indices say: how much there is to read, to edit, and in all.
LEMMA InputFacts ==
  ASSUME InputInv
  PROVE  /\ taken \in Nat /\ Len(ready) \in Nat /\ Len(line) \in Nat /\ taken <= Len(ready)
         /\ Len(ready) + Len(line) <= taken + INPUT_BUF_SIZE /\ Len(line) < INPUT_BUF_SIZE
         /\ Unread = Len(ready) - taken /\ Editable = Len(line)
         /\ Pending = Len(ready) + Len(line) - taken
<1>1. /\ INPUT_BUF_SIZE \in Nat \ {0} /\ Wrap \in Nat \ {0} /\ Wrap > INPUT_BUF_SIZE
  BY ConsoleConstants
<1>2. /\ ready \in Seq(load.keys \cup {"nl"}) /\ line \in Seq(load.keys \cup {"nl"})
      /\ taken \in 0..Len(ready)
      /\ Len(ready) + Len(line) <= taken + INPUT_BUF_SIZE /\ Len(line) < INPUT_BUF_SIZE
  BY Zenon DEF InputInv
<1>3. Len(ready) \in Nat /\ Len(line) \in Nat
  BY <1>2
<1>4. PICK R \in Nat, L \in Nat : R = Len(ready) /\ L = Len(line)
  BY <1>3, Zenon
<1>5. /\ taken \in Nat /\ taken <= R /\ R + L <= taken + INPUT_BUF_SIZE
      /\ L < INPUT_BUF_SIZE
  BY <1>2, <1>4
<1>6. /\ R - taken \in 0..Wrap - 1 /\ taken + (R - taken) = R
      /\ L \in 0..Wrap - 1 /\ R + L \in Nat
      /\ R + L - taken \in 0..Wrap - 1 /\ taken + (R + L - taken) = R + L
  BY <1>1, <1>5
<1>7. r = taken % Wrap /\ w = R % Wrap /\ e = (R + L) % Wrap
  BY <1>4, Zenon DEF InputInv
<1>8. ((R % Wrap) - (taken % Wrap)) % Wrap = R - taken
  <2>1. (((taken + (R - taken)) % Wrap) - (taken % Wrap)) % Wrap = R - taken
    BY <1>1, <1>5, <1>6, WrappedDifference, Zenon
  <2> QED BY <1>6, <2>1, Zenon
<1>9. (((R + L) % Wrap) - (R % Wrap)) % Wrap = L
  BY <1>1, <1>6, WrappedDifference, Zenon
<1>10. (((R + L) % Wrap) - (taken % Wrap)) % Wrap = R + L - taken
  <2>1. (((taken + (R + L - taken)) % Wrap) - (taken % Wrap)) % Wrap = R + L - taken
    BY <1>1, <1>5, <1>6, WrappedDifference, Zenon
  <2> QED BY <1>6, <2>1, Zenon
<1>11. Unread = R - taken /\ Editable = L /\ Pending = R + L - taken
  BY <1>7, <1>8, <1>9, <1>10, Zenon DEF Unread, Editable, Pending
<1> QED BY <1>4, <1>5, <1>11, Zenon

\* The character k places before cons.e, in the ring and in the line.
LEMMA CharBack ==
  ASSUME InputInv, NEW k \in 1..Len(line)
  PROVE  At((e - k) % Wrap) = line[Len(line) - k + 1]
<1>1. /\ INPUT_BUF_SIZE \in Nat \ {0} /\ Wrap \in Nat \ {0} /\ Wrap > INPUT_BUF_SIZE
      /\ Wrap % INPUT_BUF_SIZE = 0
  BY ConsoleConstants
<1>2. PICK R \in Nat, L \in Nat : R = Len(ready) /\ L = Len(line) /\ L < INPUT_BUF_SIZE
  BY InputFacts, Zenon
<1>3. /\ k \in 0..Wrap - 1 /\ R + (L - k) \in Nat /\ (R + (L - k)) + k = R + L
      /\ L - k \in 0..L - 1
  BY <1>1, <1>2
<1>4. (e - k) % Wrap = (R + (L - k)) % Wrap
  <2>1. ((((R + (L - k)) + k) % Wrap) - k) % Wrap = (R + (L - k)) % Wrap
    BY <1>1, <1>3, WrappedBack, Zenon
  <2>2. e = (R + L) % Wrap
    BY <1>2, Zenon DEF InputInv
  <2> QED BY <1>3, <2>1, <2>2, Zenon
<1>5. ((R + (L - k)) % Wrap) % INPUT_BUF_SIZE = (R + (L - k)) % INPUT_BUF_SIZE
  <2>1. PICK y \in Nat : y = R + (L - k)
    BY <1>3, Zenon
  <2>2. (y % Wrap) % INPUT_BUF_SIZE = y % INPUT_BUF_SIZE
    BY <1>1, WrapKeepsSlot, Zenon
  <2> QED BY <2>1, <2>2, Zenon
<1>6. buf[(R + (L - k)) % INPUT_BUF_SIZE] = line[(L - k) + 1]
  BY <1>2, <1>3, Zenon DEF InputInv
<1> QED BY <1>2, <1>4, <1>5, <1>6, Zenon DEF At

\* Control-U erases the line, and no more.
LEMMA Kills ==
  ASSUME InputInv
  PROVE  KillLength \in 0..Len(line)
<1>1. PICK L \in Nat : L = Len(line) /\ L = Editable
  BY InputFacts, Zenon
<1>2. ASSUME NEW k \in 1..L PROVE At((e - k) % Wrap) # "nl"
  <2>1. L - k + 1 \in 1..L
    BY <1>1
  <2>2. line[L - k + 1] # "nl"
    BY <1>1, <2>1, Zenon DEF InputInv
  <2> QED BY <1>1, <2>2, CharBack, Zenon
<1>3. L \in 0..Editable
  BY <1>1
<1> DEFINE Stops(k) == /\ \A j \in 1..k : At((e - j) % Wrap) # "nl"
                       /\ k = Editable \/ At((e - k - 1) % Wrap) = "nl"
<1>4. Stops(L)
  BY <1>1, <1>2, Zenon
<1>5. KillLength = CHOOSE k \in 0..Editable : Stops(k)
  BY DEF KillLength
<1> HIDE DEF Stops
<1>6. KillLength \in 0..Editable
  BY <1>3, <1>4, <1>5, Zenon
<1> QED BY <1>1, <1>6, Zenon

\* No reader is between finding nothing and going to sleep while consoleintr()
\* edits: it has cons.lock.
LEMMA EditAlone ==
  ASSUME CpuInv, LockInv, hd.pc \in {"edit", "echo", "putc", "thr"}
  PROVE  \A g \in Hart : pc[g] \notin {"killed", "rd_sleep", "rd_loop", "rd_return"}
<1>1. hd.hart \in Hart
  BY DEF CpuInv, NoHandler
<1>2. cons_lock = hd.hart
  BY <1>1, Zenon DEF LockInv, InCons
<1>3. ASSUME NEW g \in Hart, pc[g] \in {"killed", "rd_sleep", "rd_loop", "rd_return"}
      PROVE  FALSE
  <2>1. cons_lock = g
    BY <1>3, Zenon DEF LockInv, InCons
  <2>2. ThreadOffs(pc[g]) = 0
    BY <1>2, <2>1 DEF CpuInv
  <2> QED BY <1>3, <2>2 DEF ThreadOffs
<1> QED BY <1>3, Zenon

\* A character goes into the slot after the last one, which is free.
LEMMA InputStore ==
  ASSUME InputInv, CpuInv, LockInv, hd.pc = "edit", HasRoom, UNCHANGED <<load, r, taken>>,
         rx' \in Seq(load.keys), NEW c \in load.keys \cup {"nl"}, store(c)
  PROVE  InputInv'
<1>1. /\ INPUT_BUF_SIZE \in Nat \ {0} /\ Wrap \in Nat \ {0} /\ Wrap > INPUT_BUF_SIZE
      /\ Wrap % INPUT_BUF_SIZE = 0
  BY ConsoleConstants
<1>2. PICK R \in Nat, L \in Nat : R = Len(ready) /\ L = Len(line)
  BY InputFacts, Zenon
<1>3. /\ taken \in Nat /\ taken <= R /\ R + L < taken + INPUT_BUF_SIZE
      /\ L < INPUT_BUF_SIZE /\ Pending = R + L - taken
  BY <1>1, <1>2, InputFacts DEF HasRoom
<1>4. /\ ready \in Seq(load.keys \cup {"nl"}) /\ line \in Seq(load.keys \cup {"nl"})
      /\ r = taken % Wrap /\ w = R % Wrap /\ e = (R + L) % Wrap
      /\ DOMAIN buf = 0..INPUT_BUF_SIZE - 1
      /\ \A k \in taken..R - 1 : buf[k % INPUT_BUF_SIZE] = ready[k + 1]
      /\ \A k \in 0..L - 1 : buf[(R + k) % INPUT_BUF_SIZE] = line[k + 1]
      /\ \A k \in 1..L : line[k] # "nl"
  BY <1>2, Zenon DEF InputInv
<1>5. e' = (R + L + 1) % Wrap /\ e % INPUT_BUF_SIZE = (R + L) % INPUT_BUF_SIZE
  <2>1. R + L \in Nat /\ 1 \in 0..Wrap - 1
    BY <1>1
  <2>2. (((R + L) % Wrap) + 1) % Wrap = (R + L + 1) % Wrap
    <3>1. PICK x \in Nat : x = R + L
      BY <2>1, Zenon
    <3>2. ((x % Wrap) + 1) % Wrap = (x + 1) % Wrap
      BY <1>1, <2>1, Wrapped, Zenon
    <3> QED BY <3>1, <3>2, Zenon
  <2>3. ((R + L) % Wrap) % INPUT_BUF_SIZE = (R + L) % INPUT_BUF_SIZE
    <3>1. PICK x \in Nat : x = R + L
      BY <2>1, Zenon
    <3>2. (x % Wrap) % INPUT_BUF_SIZE = x % INPUT_BUF_SIZE
      BY <1>1, WrapKeepsSlot, Zenon
    <3> QED BY <3>1, <3>2, Zenon
  <2> QED BY <1>4, <2>2, <2>3, Zenon DEF store
<1>6. buf' = [buf EXCEPT ![(R + L) % INPUT_BUF_SIZE] = c]
  BY <1>5, Zenon DEF store
<1>7. /\ DOMAIN buf' = 0..INPUT_BUF_SIZE - 1
      /\ buf'[(R + L) % INPUT_BUF_SIZE] = c
      /\ \A k \in taken..R + L - 1 : buf'[k % INPUT_BUF_SIZE] = buf[k % INPUT_BUF_SIZE]
  <2>1. (R + L) % INPUT_BUF_SIZE \in 0..INPUT_BUF_SIZE - 1
    BY <1>1
  <2>2. ASSUME NEW k \in taken..R + L - 1
        PROVE  buf'[k % INPUT_BUF_SIZE] = buf[k % INPUT_BUF_SIZE]
    <3>1. /\ k - taken \in 0..INPUT_BUF_SIZE - 1 /\ taken + (k - taken) = k
          /\ R + L - taken \in 0..INPUT_BUF_SIZE - 1 /\ taken + (R + L - taken) = R + L
          /\ k - taken # R + L - taken /\ k \in Nat
      BY <1>1, <1>3
    <3>2. k % INPUT_BUF_SIZE # (R + L) % INPUT_BUF_SIZE
      BY <1>1, <1>3, <3>1, SlotsDiffer, Zenon
    <3>3. k % INPUT_BUF_SIZE \in 0..INPUT_BUF_SIZE - 1
      BY <1>1, <3>1
    <3> QED BY <1>4, <1>6, <3>2, <3>3, Zenon
  <2> QED BY <1>4, <1>6, <2>1, <2>2, Zenon
<1>8. /\ \A k \in taken..R - 1 : buf'[k % INPUT_BUF_SIZE] = ready[k + 1]
      /\ \A k \in 0..L - 1 : buf'[(R + k) % INPUT_BUF_SIZE] = line[k + 1]
  <2>1. /\ \A k \in taken..R - 1 : k \in taken..R + L - 1
        /\ \A k \in 0..L - 1 : R + k \in taken..R + L - 1
    BY <1>3
  <2> QED BY <1>4, <1>7, <2>1, Zenon
<1>9. hd'.pc = "echo" /\ r' = taken' % Wrap
  BY <1>4 DEF store, ThenEcho
<1>10. CASE EndsLine(c)
  <2>1. /\ ready' = ready \o Append(line, c) /\ line' = <<>> /\ w' = e'
        /\ pc' = wakeup("rd_asleep", "rd")
    BY <1>10, Zenon DEF store
  <2>2. /\ ready' \in Seq(load.keys \cup {"nl"}) /\ Len(ready') = R + L + 1
        /\ \A k \in 1..R : ready'[k] = ready[k]
        /\ \A k \in 1..L : ready'[R + k] = line[k]
        /\ ready'[R + L + 1] = c
    BY <1>2, <1>4, <2>1
  <2>3. ASSUME NEW k \in taken..R + L PROVE buf'[k % INPUT_BUF_SIZE] = ready'[k + 1]
    <3>1. CASE k \in taken..R - 1
      <4>1. k + 1 \in 1..R
        BY <1>3, <3>1
      <4> QED BY <1>8, <2>2, <3>1, <4>1, Zenon
    <3>2. CASE k \in R..R + L - 1
      <4>1. k - R \in 0..L - 1 /\ R + (k - R) = k /\ (k - R) + 1 \in 1..L
            /\ R + ((k - R) + 1) = k + 1
        BY <1>3, <3>2
      <4>2. buf'[(R + (k - R)) % INPUT_BUF_SIZE] = line[(k - R) + 1]
        BY <1>8, <4>1, Zenon
      <4>3. ready'[R + ((k - R) + 1)] = line[(k - R) + 1]
        BY <2>2, <4>1, Zenon
      <4> QED BY <4>1, <4>2, <4>3, Zenon
    <3>3. CASE k = R + L
      BY <1>7, <2>2, <3>3, Zenon
    <3>4. k \in taken..R - 1 \/ k \in R..R + L - 1 \/ k = R + L
      BY <1>3
    <3> QED BY <3>1, <3>2, <3>3, <3>4, Zenon
  <2>4. \A g \in Hart : pc'[g] \notin {"killed", "rd_sleep", "rd_asleep"}
    <3>1. \A g \in Hart : pc[g] \notin {"killed", "rd_sleep"}
      BY EditAlone, Zenon
    <3> QED BY <2>1, <3>1 DEF wakeup
  <2>5. /\ taken \in 0..Len(ready') /\ Len(line') = 0 /\ line' \in Seq(load.keys \cup {"nl"})
        /\ Len(ready') + Len(line') = R + L + 1 /\ R + L + 1 <= taken + INPUT_BUF_SIZE
        /\ Len(line') < INPUT_BUF_SIZE /\ Len(ready') - 1 = R + L
        /\ \A k \in 0..Len(line') - 1 : FALSE
        /\ \A k \in 1..Len(line') : FALSE
    BY <1>1, <1>3, <2>1, <2>2
  <2> QED BY <1>5, <1>7, <1>9, <2>1, <2>2, <2>3, <2>4, <2>5, Zenon
       DEF InputInv
<1>11. CASE ~EndsLine(c)
  <2>1. line' = Append(line, c) /\ UNCHANGED <<w, ready, pc>> /\ c # "nl"
        /\ Pending + 1 # INPUT_BUF_SIZE
    BY <1>11, Zenon DEF store, EndsLine
  <2>2. /\ line' \in Seq(load.keys \cup {"nl"}) /\ Len(line') = L + 1
        /\ \A k \in 1..L : line'[k] = line[k]
        /\ line'[L + 1] = c
    BY <1>2, <1>4, <2>1
  <2>3. ASSUME NEW k \in 0..L PROVE buf'[(R + k) % INPUT_BUF_SIZE] = line'[k + 1]
    <3>1. CASE k \in 0..L - 1
      <4>1. k + 1 \in 1..L
        BY <3>1
      <4> QED BY <1>8, <2>2, <3>1, <4>1, Zenon
    <3>2. CASE k = L
      BY <1>7, <2>2, <3>2, Zenon
    <3>3. k \in 0..L - 1 \/ k = L
      OBVIOUS
    <3> QED BY <3>1, <3>2, <3>3, Zenon
  <2>4. ASSUME NEW k \in 1..L + 1 PROVE line'[k] # "nl"
    BY <1>4, <2>1, <2>2
  <2>5. /\ R + (L + 1) <= taken + INPUT_BUF_SIZE /\ L + 1 < INPUT_BUF_SIZE
        /\ R + (L + 1) = R + L + 1 /\ (L + 1) - 1 = L /\ taken \in 0..R
    <3>1. Pending + 1 # INPUT_BUF_SIZE
      BY <2>1, Zenon
    <3> QED BY <1>1, <1>3, <3>1
  <2>6. \A g \in Hart : pc[g] \in {"killed", "rd_sleep", "rd_asleep"} => taken = Len(ready)
    BY Zenon DEF InputInv
  <2>7. /\ taken' = taken /\ ready' = ready /\ Len(ready') = R /\ Len(line') = L + 1
        /\ w' = R % Wrap /\ e' = (R + (L + 1)) % Wrap
    BY <1>2, <1>4, <1>5, <2>1, <2>2, <2>5, Zenon
  <2>8. /\ Len(ready') + Len(line') <= taken' + INPUT_BUF_SIZE /\ Len(line') < INPUT_BUF_SIZE
        /\ taken' \in 0..Len(ready')
    BY <2>5, <2>7, Zenon
  <2>9. /\ \A k \in taken'..Len(ready') - 1 : buf'[k % INPUT_BUF_SIZE] = ready'[k + 1]
        /\ \A k \in 0..Len(line') - 1 : buf'[(Len(ready') + k) % INPUT_BUF_SIZE] = line'[k + 1]
        /\ \A k \in 1..Len(line') : line'[k] # "nl"
    BY <1>8, <2>3, <2>4, <2>5, <2>7, Zenon
  <2> QED BY <1>4, <1>7, <1>9, <2>1, <2>2, <2>6, <2>7, <2>8, <2>9, Zenon DEF InputInv
<1> QED BY <1>10, <1>11, Zenon

\* The first m elements of a sequence.
LEMMA Prefix ==
  ASSUME NEW S, NEW s \in Seq(S), NEW m \in 0..Len(s)
  PROVE  /\ SubSeq(s, 1, m) \in Seq(S) /\ Len(SubSeq(s, 1, m)) = m
         /\ \A j \in 1..m : SubSeq(s, 1, m)[j] = s[j]
OBVIOUS

\* Characters are taken from the end of the line.
LEMMA InputErase ==
  ASSUME InputInv, UNCHANGED <<load, r, taken>>, rx' \in Seq(load.keys),
         NEW k \in 0..Len(line), erase(k)
  PROVE  InputInv'
<1>1. /\ INPUT_BUF_SIZE \in Nat \ {0} /\ Wrap \in Nat \ {0} /\ Wrap > INPUT_BUF_SIZE
  BY ConsoleConstants
<1>2. PICK R \in Nat, L \in Nat : /\ R = Len(ready) /\ L = Len(line) /\ taken \in 0..R
                                  /\ R + L <= taken + INPUT_BUF_SIZE /\ L < INPUT_BUF_SIZE
  BY InputFacts, Zenon DEF InputInv
<1>3. /\ ready \in Seq(load.keys \cup {"nl"}) /\ line \in Seq(load.keys \cup {"nl"})
      /\ r = taken % Wrap /\ w = R % Wrap /\ e = (R + L) % Wrap
      /\ DOMAIN buf = 0..INPUT_BUF_SIZE - 1
      /\ \A j \in taken..R - 1 : buf[j % INPUT_BUF_SIZE] = ready[j + 1]
      /\ \A j \in 0..L - 1 : buf[(R + j) % INPUT_BUF_SIZE] = line[j + 1]
      /\ \A j \in 1..L : line[j] # "nl"
      /\ \A g \in Hart : pc[g] \in {"killed", "rd_sleep", "rd_asleep"} => taken = R
  BY <1>2, Zenon DEF InputInv
<1>4. /\ k \in 0..Wrap - 1 /\ R + (L - k) \in Nat /\ (R + (L - k)) + k = R + L
      /\ L - k \in 0..L
  BY <1>1, <1>2
<1>5. e' = (R + (L - k)) % Wrap
  <2>1. ((((R + (L - k)) + k) % Wrap) - k) % Wrap = (R + (L - k)) % Wrap
    BY <1>1, <1>4, WrappedBack, Zenon
  <2> QED BY <1>3, <1>4, <2>1, Zenon DEF erase
<1>6. /\ line' \in Seq(load.keys \cup {"nl"}) /\ Len(line') = L - k
      /\ \A j \in 1..L - k : line'[j] = line[j]
  BY <1>2, <1>3, <1>4, Prefix, Zenon DEF erase
<1>7. /\ R + (L - k) <= taken + INPUT_BUF_SIZE /\ L - k < INPUT_BUF_SIZE
      /\ \A j \in 0..(L - k) - 1 : j \in 0..L - 1 /\ j + 1 \in 1..L - k
      /\ \A j \in 1..L - k : j \in 1..L
  BY <1>1, <1>2, <1>4
<1>8. /\ \A j \in 0..(L - k) - 1 : buf[(R + j) % INPUT_BUF_SIZE] = line'[j + 1]
      /\ \A j \in 1..L - k : line'[j] # "nl"
  BY <1>3, <1>6, <1>7, Zenon
<1>9. UNCHANGED <<buf, w, ready, pc>> /\ hd'.pc = "echo"
  BY DEF erase, ThenEcho
<1> QED BY <1>2, <1>3, <1>5, <1>6, <1>7, <1>8, <1>9, Zenon DEF InputInv

\* A reader takes the first character that has been entered.
LEMMA InputRead ==
  ASSUME InputInv, CpuInv, NEW h \in Hart, read_char(h)
  PROVE  InputInv'
<1>1. /\ INPUT_BUF_SIZE \in Nat \ {0} /\ Wrap \in Nat \ {0} /\ Wrap > INPUT_BUF_SIZE
  BY ConsoleConstants
<1>2. PICK R \in Nat : /\ R = Len(ready) /\ taken \in Nat /\ taken <= R /\ Unread = R - taken
  BY InputFacts, Zenon DEF InputInv
<1>3. /\ UNCHANGED <<load, rx, ready, line, w, e, buf, hd>>
      /\ (r' = r /\ taken' = taken) \/ (r' = (r + 1) % Wrap /\ taken' = taken + 1)
  <2>1. UNCHANGED <<load, rx, ready, line, w, e, buf, hd>>
    BY DEF read_char, uartVars
  <2>2. (r' = r /\ taken' = taken) \/ (r' = (r + 1) % Wrap /\ taken' = taken + 1)
    BY Zenon DEF read_char
  <2> QED BY <2>1, <2>2, Zenon
<1>4. taken < R
  BY <1>2 DEF read_char
<1>5. \A g \in Hart : pc'[g] \notin {"killed", "rd_sleep", "rd_asleep"}
  <2>1. \A g \in Hart : pc[g] \notin {"killed", "rd_sleep", "rd_asleep"}
    BY <1>2, <1>4 DEF InputInv
  <2>2. \E at \in {"rd_return", "rd_loop"} : pc' = [pc EXCEPT ![h] = at]
    BY DEF read_char, Goto
  <2> QED BY <2>1, <2>2 DEF CpuInv
<1>6. (r + 1) % Wrap = (taken + 1) % Wrap
  <2>1. r = taken % Wrap
    BY Zenon DEF InputInv
  <2>2. 1 \in 0..Wrap - 1
    BY <1>1
  <2> QED BY <2>2, <1>1, <1>2, <2>1, Wrapped, Zenon
<1>7. taken' \in 0..R /\ r' = taken' % Wrap /\ taken' >= taken
  BY <1>2, <1>3, <1>4, <1>6 DEF InputInv
<1>8. /\ \A k \in taken'..R - 1 : buf[k % INPUT_BUF_SIZE] = ready[k + 1]
  <2>1. \A k \in taken'..R - 1 : k \in taken..R - 1
    BY <1>2, <1>7
  <2> QED BY <1>2, <2>1, Zenon DEF InputInv
<1>9. Len(ready) + Len(line) <= taken' + INPUT_BUF_SIZE
  BY <1>1, <1>2, <1>7, InputFacts
<1> QED BY <1>2, <1>3, <1>5, <1>7, <1>8, <1>9 DEF InputInv

(***************************************************************************)
(* Interrupts.                                                              *)
(***************************************************************************)

\* The push_off()s that each place has open.
LEMMA Offs ==
  /\ ThreadOffs("idle") = 0 /\ ThreadOffs("tx") = 0 /\ ThreadOffs("tx_asleep") = 0
  /\ ThreadOffs("rd") = 0 /\ ThreadOffs("rd_asleep") = 0
  /\ ThreadOffs("tx_spin") = 1 /\ ThreadOffs("tx_loop") = 1 /\ ThreadOffs("putc") = 1
  /\ ThreadOffs("thr") = 1 /\ ThreadOffs("rd_spin") = 1 /\ ThreadOffs("rd_loop") = 1
  /\ ThreadOffs("rd_sleep") = 1 /\ ThreadOffs("rd_return") = 1 /\ ThreadOffs("killed") = 2
BY DEF ThreadOffs

LEMMA IntrOffs ==
  /\ HandlerOffs("isr") = 0 /\ HandlerOffs("tx") = 0 /\ HandlerOffs("getc") = 0
  /\ HandlerOffs("tx_spin") = 1 /\ HandlerOffs("tx_idle") = 1 /\ HandlerOffs("cons") = 1
  /\ HandlerOffs("edit") = 1 /\ HandlerOffs("echo") = 1
  /\ HandlerOffs("putc") = 2 /\ HandlerOffs("thr") = 2
BY DEF HandlerOffs

LEMMA Places ==
  /\ "idle" \in ThreadPlaces /\ "tx" \in ThreadPlaces /\ "tx_asleep" \in ThreadPlaces
  /\ "rd" \in ThreadPlaces /\ "rd_asleep" \in ThreadPlaces
  /\ "tx_spin" \in ThreadPlaces /\ "tx_loop" \in ThreadPlaces /\ "putc" \in ThreadPlaces
  /\ "thr" \in ThreadPlaces /\ "rd_spin" \in ThreadPlaces /\ "rd_loop" \in ThreadPlaces
  /\ "rd_sleep" \in ThreadPlaces /\ "rd_return" \in ThreadPlaces
  /\ "killed" \in ThreadPlaces
BY DEF ThreadPlaces

LEMMA IntrPlaces ==
  /\ "isr" \in HandlerPlaces /\ "tx" \in HandlerPlaces /\ "getc" \in HandlerPlaces
  /\ "tx_spin" \in HandlerPlaces /\ "tx_idle" \in HandlerPlaces /\ "cons" \in HandlerPlaces
  /\ "edit" \in HandlerPlaces /\ "echo" \in HandlerPlaces
  /\ "putc" \in HandlerPlaces /\ "thr" \in HandlerPlaces /\ "none" \in HandlerPlaces
BY DEF HandlerPlaces

\* A thread goes on: with push_off(), with pop_off(), without either (others
\* may be woken), or to sleep.
LEMMA ThreadPush ==
  ASSUME CpuInv, NEW h \in Hart, hd.hart # h, UNCHANGED hd, push_off(h),
         NEW at \in ThreadPlaces, Goto(h, at), ThreadOffs(at) = ThreadOffs(pc[h]) + 1
  PROVE  CpuInv'
BY DEF CpuInv, push_off, Goto, NoHandler

LEMMA ThreadPop ==
  ASSUME CpuInv, NEW h \in Hart, hd.hart # h, UNCHANGED hd, pop_off(h),
         NEW at \in ThreadPlaces, Goto(h, at), ThreadOffs(pc[h]) = ThreadOffs(at) + 1,
         ThreadOffs(at) \in Nat
  PROVE  CpuInv'
BY DEF CpuInv, pop_off, Goto, NoHandler

LEMMA ThreadSame ==
  ASSUME CpuInv, UNCHANGED <<cpuVars, hd>>, pc' \in [Hart -> ThreadPlaces],
         \A g \in Hart : ThreadOffs(pc'[g]) = ThreadOffs(pc[g])
  PROVE  CpuInv'
BY DEF CpuInv, cpuVars, NoHandler

LEMMA ThreadSleep ==
  ASSUME CpuInv, NEW h \in Hart, hd.hart # h, UNCHANGED hd,
         noff' = [noff EXCEPT ![h] = 0], intr' = [intr EXCEPT ![h] = TRUE], UNCHANGED intena,
         NEW at \in ThreadPlaces, Goto(h, at), ThreadOffs(at) = 0
  PROVE  CpuInv'
BY DEF CpuInv, Goto, NoHandler

\* The handler goes on.
LEMMA HandlerPush ==
  ASSUME CpuInv, hd.hart # None, push_off(hd.hart), UNCHANGED pc,
         NEW at \in HandlerPlaces, NEW n \in Nat, at # "none",
         at \in {"putc", "thr"} => n # 0,
         hd' = [hart |-> hd.hart, pc |-> at, echo |-> n], HandlerOffs(at) = HandlerOffs(hd.pc) + 1
  PROVE  CpuInv'
BY DEF CpuInv, push_off, NoHandler

LEMMA HandlerPop ==
  ASSUME CpuInv, hd.hart # None, pop_off(hd.hart), pc' \in [Hart -> ThreadPlaces],
         \A g \in Hart : ThreadOffs(pc'[g]) = ThreadOffs(pc[g]),
         NEW at \in HandlerPlaces, NEW n \in Nat, at # "none",
         at \in {"putc", "thr"} => n # 0,
         hd' = [hart |-> hd.hart, pc |-> at, echo |-> n], HandlerOffs(hd.pc) = HandlerOffs(at) + 1,
         HandlerOffs(at) \in Nat
  PROVE  CpuInv'
<1>1. /\ hd.hart \in Hart /\ noff[hd.hart] = HandlerOffs(at) + 1
      /\ ~intr[hd.hart] /\ ~intena[hd.hart]
  BY DEF CpuInv
<1>2. noff' = [noff EXCEPT ![hd.hart] = HandlerOffs(at)]
  <2>1. noff[hd.hart] - 1 = HandlerOffs(at)
    BY <1>1
  <2> QED BY <2>1, Zenon DEF pop_off
<1>3. intr' \in [Hart -> BOOLEAN] /\ \A g \in Hart : intr'[g] <=> intr[g]
  BY <1>1, Zenon DEF CpuInv, pop_off
<1>4. intena' = intena /\ hd'.hart = hd.hart /\ hd'.pc = at /\ hd'.echo = n
  BY DEF pop_off
<1>5. hd' \in [hart : Hart \cup {None}, pc : HandlerPlaces, echo : Nat]
  BY <1>1
<1> QED BY <1>1, <1>2, <1>3, <1>4, <1>5, Zenon DEF CpuInv, NoHandler

LEMMA HandlerSame ==
  ASSUME CpuInv, hd.hart # None, UNCHANGED cpuVars, pc' \in [Hart -> ThreadPlaces],
         \A g \in Hart : ThreadOffs(pc'[g]) = ThreadOffs(pc[g]),
         NEW at \in HandlerPlaces, NEW n \in Nat, at # "none",
         at \in {"putc", "thr"} => n # 0,
         hd' = [hart |-> hd.hart, pc |-> at, echo |-> n], HandlerOffs(hd.pc) = HandlerOffs(at)
  PROVE  CpuInv'
BY DEF CpuInv, cpuVars, NoHandler

\* The steps of a thread.
LEMMA CpuThread ==
  ASSUME CpuInv, NEW h \in Hart, Thread(h)
  PROVE  CpuInv'
<1>0. pc \in [Hart -> ThreadPlaces]
  BY DEF CpuInv
<1>1. ASSUME NEW at \in ThreadPlaces, Goto(h, at), hd.hart # h, ThreadOffs(at) = ThreadOffs(pc[h]),
             UNCHANGED <<cpuVars, hd>>
      PROVE  CpuInv'
  <2>1. pc' \in [Hart -> ThreadPlaces] /\ \A g \in Hart : ThreadOffs(pc'[g]) = ThreadOffs(pc[g])
    BY <1>0, <1>1 DEF Goto
  <2> QED BY <1>1, <2>1, ThreadSame, Zenon
<1>2. CASE consolewrite(h)
  BY <1>1, <1>2, Offs, Places DEF consolewrite, Runs
<1>3. CASE uartwrite_lock(h)
  <2>1. CASE Runs(h, "tx")
    BY <1>3, <2>1, ThreadPush, Offs, Places DEF uartwrite_lock, Runs
  <2>2. CASE Runs(h, "tx_spin")
    BY <1>1, <1>3, <2>2, Offs, Places DEF uartwrite_lock, Runs
  <2> QED BY <1>3, <2>1, <2>2, Zenon DEF uartwrite_lock
<1>4. CASE uartwrite_byte(h)
  <2>1. UNCHANGED <<cpuVars, hd, pc>>
    BY <1>4, Zenon DEF uartwrite_byte
  <2> QED BY <1>0, <2>1, ThreadSame, Zenon
<1>5. CASE uartwrite_sleep(h)
  BY <1>5, ThreadSleep, Offs, Places, Zenon DEF uartwrite_sleep, Runs, sleep
<1>6. CASE uartwrite_done(h)
  BY <1>6, ThreadPop, Offs, Places DEF uartwrite_done, Runs, release
<1>7. CASE printf(h)
  <2>1. CASE Runs(h, "idle")
    BY <1>7, <2>1, ThreadPush, Offs, Places DEF printf, uartputc_sync, Runs
  <2>2. CASE Runs(h, "putc")
    BY <1>1, <1>7, <2>2, Offs, Places DEF printf, uartputc_sync, Runs
  <2>3. CASE Runs(h, "thr")
    BY <1>7, <2>3, ThreadPop, Offs, Places DEF printf, uartputc_sync, Runs
  <2> QED BY <1>7, <2>1, <2>2, <2>3, Zenon DEF printf, uartputc_sync
<1>8. CASE consoleread(h)
  BY <1>1, <1>8, Offs, Places DEF consoleread, Runs
<1>9. CASE read_lock(h)
  <2>1. CASE Runs(h, "rd")
    BY <1>9, <2>1, ThreadPush, Offs, Places DEF read_lock, Runs
  <2>2. CASE Runs(h, "rd_spin")
    BY <1>1, <1>9, <2>2, Offs, Places DEF read_lock, Runs
  <2> QED BY <1>9, <2>1, <2>2, Zenon DEF read_lock
<1>10. CASE read_empty(h)
  <2>1. CASE Runs(h, "rd_loop")
    BY <1>10, <2>1, ThreadPush, Offs, Places DEF read_empty, Runs
  <2>2. CASE Runs(h, "killed")
    BY <1>10, <2>2, ThreadPop, Offs, Places DEF read_empty, Runs
  <2>3. CASE Runs(h, "rd_sleep")
    BY <1>10, <2>3, ThreadSleep, Offs, Places, Zenon DEF read_empty, Runs, sleep
  <2> QED BY <1>10, <2>1, <2>2, <2>3, Zenon DEF read_empty
<1>11. CASE read_char(h)
  BY <1>1, <1>11, Offs, Places DEF read_char, Runs
<1>12. CASE read_return(h)
  BY <1>12, ThreadPop, Offs, Places DEF read_return, Runs, release
<1> QED BY <1>2, <1>3, <1>4, <1>5, <1>6, <1>7, <1>8, <1>9, <1>10, <1>11, <1>12, Zenon
     DEF Thread

\* The steps of the handler.
LEMMA CpuHandler ==
  ASSUME CpuInv, InputInv, uartintr
  PROVE  CpuInv'
<1>0. /\ pc \in [Hart -> ThreadPlaces] /\ hd.echo \in Nat
      /\ hd = [hart |-> hd.hart, pc |-> hd.pc, echo |-> hd.echo]
      /\ hd.hart = None => hd.pc = "none"
      /\ hd.pc \in {"putc", "thr"} => hd.echo # 0
  BY DEF CpuInv, NoHandler
<1>1. /\ pc' = pc => pc' \in [Hart -> ThreadPlaces]
                     /\ \A g \in Hart : ThreadOffs(pc'[g]) = ThreadOffs(pc[g])
      /\ \/ pc' = wakeup("tx_asleep", "tx")
         \/ pc' = wakeup("rd_asleep", "rd")
         => /\ pc' \in [Hart -> ThreadPlaces]
            /\ \A g \in Hart : ThreadOffs(pc'[g]) = ThreadOffs(pc[g])
  BY <1>0, Offs, Places DEF wakeup
<1>2. ASSUME NEW at, Then(at) PROVE hd' = [hart |-> hd.hart, pc |-> at, echo |-> hd.echo]
  BY <1>0, <1>2 DEF Then
<1>3. CASE intr_ack
  BY <1>0, <1>1, <1>2, <1>3, HandlerSame, IntrOffs, IntrPlaces DEF intr_ack, Handles, threadVars
<1>4. CASE intr_lock
  <2>1. CASE Handles("tx")
    BY <1>0, <1>2, <1>4, <2>1, HandlerPush, IntrOffs, IntrPlaces DEF intr_lock, Handles, threadVars
  <2>2. CASE Handles("tx_spin")
    BY <1>0, <1>1, <1>2, <1>4, <2>2, HandlerSame, IntrOffs, IntrPlaces
       DEF intr_lock, Handles, threadVars
  <2> QED BY <1>4, <2>1, <2>2, Zenon DEF intr_lock
<1>5. CASE intr_idle
  BY <1>0, <1>1, <1>2, <1>5, HandlerPop, IntrOffs, IntrPlaces DEF intr_idle, Handles, release
<1>6. CASE intr_getc
  BY <1>0, <1>2, <1>6, HandlerPush, IntrOffs, IntrPlaces DEF intr_getc, Handles, threadVars
<1>7. CASE consputc
  <2>1. CASE Handles("echo") /\ hd.echo > 0
    BY <1>0, <1>2, <1>7, <2>1, HandlerPush, IntrOffs, IntrPlaces DEF consputc, Handles, threadVars
  <2>2. CASE Handles("putc")
    BY <1>0, <1>1, <1>2, <1>7, <2>2, HandlerSame, IntrOffs, IntrPlaces
       DEF consputc, Handles, threadVars
  <2>3. CASE Handles("thr")
    BY <1>0, <1>1, <1>7, <2>3, HandlerPop, IntrOffs, IntrPlaces
       DEF consputc, Handles, threadVars, ThenEcho
  <2>4. CASE Handles("echo") /\ hd.echo = 0
    BY <1>0, <1>1, <1>2, <1>7, <2>4, HandlerPop, IntrOffs, IntrPlaces
       DEF consputc, Handles, threadVars, release
  <2> QED BY <1>7, <2>1, <2>2, <2>3, <2>4, Zenon DEF consputc
<1>8. CASE intr_return
  <2>1. hd.hart \in Hart /\ noff[hd.hart] = 0 /\ hd' = NoHandler /\ NoHandler.hart = None
    BY <1>0, <1>8, IntrOffs DEF intr_return, Handles, CpuInv, NoHandler
  <2> QED BY <1>8, <2>1, IntrPlaces, ConsoleConstants DEF intr_return, CpuInv, NoHandler, threadVars
<1>9. CASE consoleintr
  <2>1. CASE Handles("cons")
    BY <1>0, <1>1, <1>2, <1>9, <2>1, HandlerSame, IntrOffs, IntrPlaces
       DEF consoleintr, Handles, threadVars
  <2>2. ASSUME Handles("edit"), NEW k \in Nat, erase(k), UNCHANGED cpuVars PROVE CpuInv'
    <3>1. 3 * k \in Nat
      OBVIOUS
    <3> QED BY <1>0, <1>1, <2>2, <3>1, HandlerSame, IntrOffs, IntrPlaces, Zenon
           DEF erase, ThenEcho, Handles
  <2>3. ASSUME Handles("edit"), NEW c, store(c), UNCHANGED cpuVars PROVE CpuInv'
    BY <1>0, <1>1, <2>3, HandlerSame, IntrOffs, IntrPlaces DEF store, ThenEcho, Handles
  <2>4. ASSUME Handles("edit"), drop, UNCHANGED cpuVars PROVE CpuInv'
    BY <1>0, <1>1, <1>2, <2>4, HandlerSame, IntrOffs, IntrPlaces DEF drop, Handles
  <2>5. KillLength \in Nat /\ (IF e # w THEN 1 ELSE 0) \in Nat
    BY Kills, InputFacts
  <2> QED BY <1>9, <2>1, <2>2, <2>3, <2>4, <2>5, Zenon DEF consoleintr
<1> QED BY <1>3, <1>4, <1>5, <1>6, <1>7, <1>8, <1>9, Zenon DEF uartintr

\* CpuInv is kept by every step.
LEMMA CpuStep ==
  ASSUME CpuInv, InputInv, [Next]_vars
  PROVE  CpuInv'
<1>1. ASSUME NEW h \in Hart, kkill(h) PROVE CpuInv'
  <2>1. pc \in [Hart -> ThreadPlaces]
    BY DEF CpuInv
  <2>2. pc' \in [Hart -> ThreadPlaces] /\ \A g \in Hart : ThreadOffs(pc'[g]) = ThreadOffs(pc[g])
    BY <1>1, <2>1, Offs, Places DEF kkill
  <2> QED BY <1>1, <2>2, ThreadSame, Zenon DEF kkill
<1>2. ASSUME NEW h \in Hart, interrupt(h) PROVE CpuInv'
  <2>1. /\ hd.hart = None /\ None \notin Hart /\ intr[h] /\ noff[h] = 0 /\ ThreadOffs(pc[h]) = 0
    BY <1>2, ConsoleConstants DEF interrupt, CpuInv, NoHandler
  <2>2. /\ hd' = [hart |-> h, pc |-> "isr", echo |-> 0]
        /\ intr' = [intr EXCEPT ![h] = FALSE] /\ UNCHANGED <<noff, intena, pc>>
    BY <1>2, Zenon DEF interrupt, threadVars
  <2> QED BY <2>1, <2>2, IntrOffs, IntrPlaces DEF CpuInv, NoHandler
<1>3. ASSUME UNCHANGED <<cpuVars, hd, pc>> PROVE CpuInv'
  BY <1>3, Zenon DEF CpuInv, cpuVars
<1>4. CASE uart_send \/ uart_receive \/ UNCHANGED vars
  BY <1>3, <1>4, Zenon DEF uart_send, uart_receive, vars, threadVars
<1> QED BY <1>1, <1>2, <1>4, CpuThread, CpuHandler, Zenon DEF Next

(***************************************************************************)
(* Locks.                                                                   *)
(***************************************************************************)

\* A lock stays with whoever has it, is taken, or is given back.
LEMMA LockKept ==
  ASSUME LockInv, UNCHANGED <<tx_lock, cons_lock>>,
         \A g \in Hart : (InTx(g)' <=> InTx(g)) /\ (InCons(g)' <=> InCons(g))
  PROVE  LockInv'
BY Zenon DEF LockInv

LEMMA LockTakeTx ==
  ASSUME LockInv, NEW h \in Hart, tx_lock = None, tx_lock' = h, UNCHANGED cons_lock, InTx(h)',
         \A g \in Hart : (g # h => (InTx(g)' <=> InTx(g))) /\ (InCons(g)' <=> InCons(g))
  PROVE  LockInv'
BY ConsoleConstants DEF LockInv

LEMMA LockGiveTx ==
  ASSUME LockInv, NEW h \in Hart, InTx(h), ~InTx(h)', tx_lock' = None, UNCHANGED cons_lock,
         \A g \in Hart : (g # h => (InTx(g)' <=> InTx(g))) /\ (InCons(g)' <=> InCons(g))
  PROVE  LockInv'
BY ConsoleConstants DEF LockInv

LEMMA LockTakeCons ==
  ASSUME LockInv, NEW h \in Hart, cons_lock = None, cons_lock' = h, UNCHANGED tx_lock, InCons(h)',
         \A g \in Hart : (g # h => (InCons(g)' <=> InCons(g))) /\ (InTx(g)' <=> InTx(g))
  PROVE  LockInv'
BY ConsoleConstants DEF LockInv

LEMMA LockGiveCons ==
  ASSUME LockInv, NEW h \in Hart, InCons(h), ~InCons(h)', cons_lock' = None, UNCHANGED tx_lock,
         \A g \in Hart : (g # h => (InCons(g)' <=> InCons(g))) /\ (InTx(g)' <=> InTx(g))
  PROVE  LockInv'
BY ConsoleConstants DEF LockInv

\* The steps of a thread.
LEMMA LockThread ==
  ASSUME CpuInv, LockInv, NEW h \in Hart, Thread(h)
  PROVE  LockInv'
<1> DEFINE Reading == {"rd_loop", "killed", "rd_sleep", "rd_return"}
<1>0. pc \in [Hart -> ThreadPlaces]
  BY DEF CpuInv
<1>1. ASSUME NEW at, Goto(h, at), UNCHANGED hd, hd.hart # h
      PROVE  /\ \A g \in Hart : g # h => (InTx(g)' <=> InTx(g)) /\ (InCons(g)' <=> InCons(g))
             /\ (InTx(h)' <=> at = "tx_loop") /\ (InCons(h)' <=> at \in Reading)
             /\ (InTx(h) <=> pc[h] = "tx_loop") /\ (InCons(h) <=> pc[h] \in Reading)
  BY <1>0, <1>1 DEF Goto, InTx, InCons
<1>2. ASSUME NEW from, NEW at, Runs(h, from), Goto(h, at), UNCHANGED <<hd, tx_lock, cons_lock>>,
             from \notin Reading \cup {"tx_loop"}, at \notin Reading \cup {"tx_loop"}
      PROVE  LockInv'
  BY <1>1, <1>2, LockKept, Zenon DEF Runs
<1>3. ASSUME NEW from \in Reading, NEW at \in Reading, Runs(h, from), Goto(h, at),
             UNCHANGED <<hd, tx_lock, cons_lock>>
      PROVE  LockInv'
  BY <1>1, <1>3, LockKept, Zenon DEF Runs
<1>4. ASSUME NEW at, Runs(h, "tx_loop"), Goto(h, at), UNCHANGED <<hd, cons_lock>>,
             tx_lock' = None, at \notin Reading \cup {"tx_loop"}
      PROVE  LockInv'
  BY <1>1, <1>4, LockGiveTx, Zenon DEF Runs
<1>5. ASSUME NEW from \in Reading, NEW at, Runs(h, from), Goto(h, at), UNCHANGED <<hd, tx_lock>>,
             cons_lock' = None, at \notin Reading \cup {"tx_loop"}
      PROVE  LockInv'
  BY <1>1, <1>5, LockGiveCons, Zenon DEF Runs
<1>6. CASE consolewrite(h) \/ consoleread(h) \/ printf(h)
  BY <1>2, <1>6, Zenon DEF consolewrite, consoleread, printf, uartputc_sync, lockVars
<1>7. CASE uartwrite_lock(h)
  <2>1. CASE Runs(h, "tx") /\ Goto(h, "tx_spin") /\ UNCHANGED <<lockVars, hd>>
    BY <1>2, <2>1, Zenon DEF lockVars
  <2>2. CASE Runs(h, "tx_spin") /\ acquire(h, tx_lock) /\ Goto(h, "tx_loop") /\ UNCHANGED <<cons_lock, hd>>
    BY <1>1, <2>2, LockTakeTx, Zenon DEF acquire, Runs
  <2> QED BY <1>7, <2>1, <2>2, Zenon DEF uartwrite_lock
<1>8. CASE uartwrite_byte(h)
  BY <1>8, LockKept, Zenon DEF uartwrite_byte, lockVars, InTx, InCons
<1>9. CASE uartwrite_sleep(h) \/ uartwrite_done(h)
  BY <1>4, <1>9, Zenon DEF uartwrite_sleep, uartwrite_done, sleep, release
<1>10. CASE read_lock(h)
  <2>1. CASE Runs(h, "rd") /\ Goto(h, "rd_spin") /\ UNCHANGED <<lockVars, hd>>
    BY <1>2, <2>1, Zenon DEF lockVars
  <2>2. CASE Runs(h, "rd_spin") /\ acquire(h, cons_lock) /\ Goto(h, "rd_loop") /\ UNCHANGED <<tx_lock, hd>>
    BY <1>1, <2>2, LockTakeCons, Zenon DEF acquire, Runs
  <2> QED BY <1>10, <2>1, <2>2, Zenon DEF read_lock
<1>11. CASE read_empty(h)
  <2>1. (IF killed[h] THEN "rd_return" ELSE "rd_sleep") \in Reading
    BY Zenon
  <2> QED BY <1>3, <1>5, <1>11, <2>1, Zenon DEF read_empty, sleep
<1>12. CASE read_char(h)
  <2>1. (IF left[h] = 1 THEN "rd_return" ELSE "rd_loop") \in Reading
    BY Zenon
  <2> QED BY <1>3, <1>12, <2>1, Zenon DEF read_char, lockVars
<1>13. CASE read_return(h)
  BY <1>5, <1>13, Zenon DEF read_return, release
<1> QED BY <1>6, <1>7, <1>8, <1>9, <1>10, <1>11, <1>12, <1>13, Zenon DEF Thread

\* The steps of the handler.
LEMMA LockHandler ==
  ASSUME CpuInv, LockInv, uartintr
  PROVE  LockInv'
<1>0. /\ pc \in [Hart -> ThreadPlaces] /\ None \notin Hart
      /\ hd = [hart |-> hd.hart, pc |-> hd.pc, echo |-> hd.echo]
      /\ hd.hart = None => hd.pc = "none"
      /\ hd.pc # "none" => hd.hart \in Hart
  BY ConsoleConstants DEF CpuInv, NoHandler
<1> DEFINE Editing == {"edit", "echo", "putc", "thr"}
<1> DEFINE Wakes == pc' = pc \/ pc' = wakeup("tx_asleep", "tx") \/ pc' = wakeup("rd_asleep", "rd")
<1>1. ASSUME hd.hart \in Hart, hd'.hart = hd.hart, Wakes
      PROVE  /\ \A g \in Hart : g # hd.hart => (InTx(g)' <=> InTx(g)) /\ (InCons(g)' <=> InCons(g))
             /\ (InTx(hd.hart)' <=> hd'.pc = "tx_idle") /\ (InCons(hd.hart)' <=> hd'.pc \in Editing)
             /\ (InTx(hd.hart) <=> hd.pc = "tx_idle") /\ (InCons(hd.hart) <=> hd.pc \in Editing)
  <2>1. ThreadOffs(pc[hd.hart]) = 0
    BY <1>1 DEF CpuInv
  <2>2. pc[hd.hart] \notin {"tx_loop", "rd_loop", "killed", "rd_sleep", "rd_return"}
    BY <2>1, Offs
  <2>3. \A g \in Hart : \/ pc'[g] = pc[g]
                        \/ pc[g] = "tx_asleep" /\ pc'[g] = "tx"
                        \/ pc[g] = "rd_asleep" /\ pc'[g] = "rd"
    BY <1>0, <1>1 DEF wakeup
  <2> QED BY <1>1, <2>2, <2>3 DEF InTx, InCons
<1>2. ASSUME NEW at, Then(at) PROVE hd'.hart = hd.hart /\ hd'.pc = at
  BY <1>0, <1>2 DEF Then
<1>3. ASSUME NEW n, ThenEcho(n) PROVE hd'.hart = hd.hart /\ hd'.pc = "echo"
  BY <1>3 DEF ThenEcho
<1>4. ASSUME hd.hart \in Hart, hd'.hart = hd.hart, Wakes, UNCHANGED <<tx_lock, cons_lock>>,
             hd.pc \notin Editing \cup {"tx_idle"}, hd'.pc \notin Editing \cup {"tx_idle"}
      PROVE  LockInv'
  BY <1>1, <1>4, LockKept, Zenon
<1>5. ASSUME hd.hart \in Hart, hd'.hart = hd.hart, Wakes, UNCHANGED <<tx_lock, cons_lock>>,
             hd.pc \in Editing, hd'.pc \in Editing
      PROVE  LockInv'
  BY <1>1, <1>5, LockKept, Zenon
<1>6. CASE intr_ack
  <2>1. /\ hd.hart \in Hart /\ hd'.hart = hd.hart /\ hd.pc = "isr" /\ hd'.pc = "tx"
        /\ UNCHANGED <<tx_lock, cons_lock, pc>>
    BY <1>0, <1>2, <1>6, Zenon DEF intr_ack, Handles, threadVars, lockVars
  <2> QED BY <1>4, <2>1, Zenon
<1>7. CASE intr_lock
  <2>1. CASE Handles("tx") /\ Then("tx_spin") /\ UNCHANGED <<lockVars, threadVars>>
    <3>1. /\ hd.hart \in Hart /\ hd'.hart = hd.hart /\ hd.pc = "tx" /\ hd'.pc = "tx_spin"
          /\ UNCHANGED <<tx_lock, cons_lock, pc>>
      BY <1>0, <1>2, <2>1, Zenon DEF Handles, threadVars, lockVars
    <3> QED BY <1>4, <3>1, Zenon
  <2>2. CASE /\ Handles("tx_spin") /\ acquire(hd.hart, tx_lock) /\ Then("tx_idle")
             /\ UNCHANGED <<cons_lock, threadVars>>
    <3>1. /\ hd.hart \in Hart /\ hd'.hart = hd.hart /\ hd.pc = "tx_spin" /\ hd'.pc = "tx_idle"
          /\ tx_lock = None /\ tx_lock' = hd.hart /\ UNCHANGED <<cons_lock, pc>>
      BY <1>0, <1>2, <2>2, Zenon DEF Handles, threadVars, acquire
    <3>2. InTx(hd.hart)' /\ ~InCons(hd.hart)' /\ ~InCons(hd.hart)
      BY <1>1, <3>1, Zenon
    <3> QED BY <1>1, <3>1, <3>2, LockTakeTx, Zenon
  <2> QED BY <1>7, <2>1, <2>2, Zenon DEF intr_lock
<1>8. CASE intr_idle
  <2>1. /\ hd.hart \in Hart /\ hd'.hart = hd.hart /\ hd.pc = "tx_idle" /\ hd'.pc = "getc"
        /\ tx_lock' = None /\ UNCHANGED cons_lock /\ Wakes
    BY <1>0, <1>2, <1>8, Zenon DEF intr_idle, Handles, release
  <2>2. InTx(hd.hart) /\ ~InTx(hd.hart)' /\ ~InCons(hd.hart)' /\ ~InCons(hd.hart)
    BY <1>1, <2>1, Zenon
  <2> QED BY <1>1, <2>1, <2>2, LockGiveTx, Zenon
<1>9. CASE intr_getc
  <2>1. /\ hd.hart \in Hart /\ hd'.hart = hd.hart /\ hd.pc = "getc" /\ hd'.pc = "cons"
        /\ UNCHANGED <<tx_lock, cons_lock, pc>>
    BY <1>0, <1>2, <1>9, Zenon DEF intr_getc, Handles, threadVars, lockVars
  <2> QED BY <1>4, <2>1, Zenon
<1>10. CASE consputc
  <2>1. /\ hd.hart \in Hart /\ hd'.hart = hd.hart /\ hd.pc \in Editing
        /\ UNCHANGED <<tx_lock, pc>>
    BY <1>0, <1>2, <1>3, <1>10, Zenon DEF consputc, Handles, threadVars
  <2>2. \/ hd'.pc \in Editing /\ UNCHANGED cons_lock
        \/ hd'.pc = "getc" /\ cons_lock' = None
    BY <1>2, <1>3, <1>10, Zenon DEF consputc, release
  <2>3. CASE hd'.pc \in Editing /\ UNCHANGED cons_lock
    BY <1>5, <2>1, <2>3, Zenon
  <2>4. CASE hd'.pc = "getc" /\ cons_lock' = None
    <3>1. InCons(hd.hart) /\ ~InCons(hd.hart)' /\ ~InTx(hd.hart)' /\ ~InTx(hd.hart)
      BY <1>1, <2>1, <2>4, Zenon
    <3> QED BY <1>1, <2>1, <2>4, <3>1, LockGiveCons, Zenon
  <2> QED BY <2>2, <2>3, <2>4, Zenon
<1>11. CASE consoleintr
  <2>1. CASE Handles("cons")
    <3>1. /\ hd.hart \in Hart /\ hd'.hart = hd.hart /\ hd.pc = "cons" /\ hd'.pc = "edit"
          /\ cons_lock = None /\ cons_lock' = hd.hart /\ UNCHANGED <<tx_lock, pc>>
      BY <1>0, <1>2, <1>11, <2>1, Zenon DEF consoleintr, Handles, threadVars, acquire
    <3>2. InCons(hd.hart)' /\ ~InTx(hd.hart)' /\ ~InTx(hd.hart)
      BY <1>1, <3>1, Zenon
    <3> QED BY <1>1, <3>1, <3>2, LockTakeCons, Zenon
  <2>2. CASE Handles("edit")
    <3>1. /\ UNCHANGED <<tx_lock, cons_lock>> /\ Wakes
          /\ \/ \E n : ThenEcho(n)
             \/ Then("echo")
      BY <1>11, <2>2, Zenon DEF consoleintr, Handles, lockVars, erase, store, drop
    <3>2. hd.hart \in Hart /\ hd'.hart = hd.hart /\ hd.pc = "edit" /\ hd'.pc = "echo"
      BY <1>0, <1>2, <1>3, <2>2, <3>1, Zenon DEF Handles
    <3> QED BY <1>5, <3>1, <3>2, Zenon
  <2> QED BY <1>11, <2>1, <2>2, Zenon DEF consoleintr
<1>12. CASE intr_return
  <2>1. hd'.hart = None /\ UNCHANGED <<tx_lock, cons_lock, pc>> /\ hd.pc = "getc"
    BY <1>12, Zenon DEF intr_return, NoHandler, threadVars, lockVars, Handles
  <2>2. \A g \in Hart : (InTx(g)' <=> InTx(g)) /\ (InCons(g)' <=> InCons(g))
    BY <1>0, <2>1 DEF InTx, InCons
  <2> QED BY <2>1, <2>2, LockKept, Zenon
<1> QED BY <1>6, <1>7, <1>8, <1>9, <1>10, <1>11, <1>12, Zenon DEF uartintr

\* LockInv is kept by every step.
LEMMA LockStep ==
  ASSUME CpuInv, LockInv, [Next]_vars
  PROVE  LockInv'
<1>1. ASSUME NEW h \in Hart, kkill(h) PROVE LockInv'
  <2>1. pc \in [Hart -> ThreadPlaces]
    BY DEF CpuInv
  <2>2. \A g \in Hart : (InTx(g)' <=> InTx(g)) /\ (InCons(g)' <=> InCons(g))
    BY <1>1, <2>1 DEF kkill, InTx, InCons
  <2> QED BY <1>1, <2>2, LockKept, Zenon DEF kkill, lockVars
<1>2. ASSUME NEW h \in Hart, interrupt(h) PROVE LockInv'
  <2>1. /\ hd.hart = None /\ None \notin Hart /\ hd'.pc = "isr"
        /\ UNCHANGED <<tx_lock, cons_lock, pc>>
    BY <1>2, ConsoleConstants DEF interrupt, NoHandler, threadVars, lockVars
  <2>2. \A g \in Hart : (InTx(g)' <=> InTx(g)) /\ (InCons(g)' <=> InCons(g))
    BY <2>1 DEF InTx, InCons
  <2> QED BY <2>1, <2>2, LockKept, Zenon
<1>3. ASSUME UNCHANGED <<lockVars, hd, pc>> PROVE LockInv'
  BY <1>3, Zenon DEF LockInv, lockVars, InTx, InCons
<1>4. CASE uart_send \/ uart_receive \/ UNCHANGED vars
  BY <1>3, <1>4, Zenon DEF uart_send, uart_receive, vars, threadVars
<1> QED BY <1>1, <1>2, <1>4, LockThread, LockHandler, Zenon DEF Next

(***************************************************************************)
(* Output.                                                                  *)
(***************************************************************************)

\* Sets of harts.
HartFacts ==
  /\ Cardinality({}) = 0 /\ Cardinality(Hart) \in Nat
  /\ \A S \in SUBSET Hart :
       /\ Cardinality(S) \in Nat /\ Cardinality(S) <= Cardinality(Hart)
       /\ \A h \in S : Cardinality(S \ {h}) = Cardinality(S) - 1

\* A step that leaves the UART alone.
LEMMA TxFrame ==
  ASSUME TxInv, UNCHANGED <<fifo, thre, tx_busy>>,
         \A g \in Hart : g \in Writing' <=> g \in Writing,
         \A g \in Hart : pc'[g] = "tx_asleep" => pc[g] = "tx_asleep" \/ tx_busy,
         hd.pc \in {"tx", "tx_spin", "tx_idle"} => hd'.pc \in {"tx", "tx_spin", "tx_idle"}
  PROVE  TxInv'
<1>1. Writing' = Writing
  BY DEF Writing
<1>2. TxSleepers' # {} => tx_busy
  BY DEF TxInv, TxSleepers
<1> QED BY <1>1, <1>2, Zenon DEF TxInv

\* A byte written to THR by a hart that has seen the FIFO empty.
LEMMA TxPut ==
  ASSUME HartFacts, TxInv, NEW h \in Hart, h \in Writing, Writing' = Writing \ {h}, WriteReg_THR,
         UNCHANGED tx_busy,
         \A g \in Hart : pc'[g] = "tx_asleep" => pc[g] = "tx_asleep"
  PROVE  TxInv'
<1>1. Writing \in SUBSET Hart
  BY DEF Writing
<1>2. PICK n \in Nat, m \in Nat : /\ n = Cardinality(Writing) /\ m = Cardinality(Hart)
                                  /\ Cardinality(Writing') = n - 1
  BY <1>1, Zenon DEF HartFacts
<1>3. fifo' = fifo + 1 /\ fifo \in Nat /\ tx_busy \in BOOLEAN
  BY DEF WriteReg_THR, TxInv
<1>4. fifo + n <= m + (IF tx_busy THEN 1 ELSE 0)
  BY <1>2, Zenon DEF TxInv
<1>5. (fifo + 1) + (n - 1) = fifo + n /\ fifo + 1 > 0 /\ fifo + 1 \in Nat
  BY <1>3
<1>6. fifo' + Cardinality(Writing') <= m + (IF tx_busy THEN 1 ELSE 0)
  BY <1>2, <1>3, <1>4, <1>5, Zenon
<1>7. TxSleepers' # {} => tx_busy
  BY DEF TxInv, TxSleepers
<1> QED BY <1>2, <1>3, <1>5, <1>6, <1>7, Zenon DEF TxInv

\* With the FIFO empty, any number of harts may be about to write.
LEMMA TxEmpty ==
  ASSUME HartFacts, TxInv, fifo = 0, fifo' = 0, tx_busy' \in BOOLEAN, TxSleepers' # {} => tx_busy',
         tx_busy' => thre' \/ hd'.pc \in {"tx", "tx_spin", "tx_idle"}
  PROVE  TxInv'
<1>1. Writing' \in SUBSET Hart
  BY DEF Writing
<1>2. PICK n \in Nat, m \in Nat : /\ n = Cardinality(Writing') /\ m = Cardinality(Hart)
                                  /\ n <= m
  BY <1>1, Zenon DEF HartFacts
<1>3. 0 + n <= m + (IF tx_busy' THEN 1 ELSE 0)
  BY <1>2
<1>4. fifo' \in Nat
  OBVIOUS
<1> QED BY <1>2, <1>3, <1>4, Zenon DEF TxInv

\* The steps of a thread.
LEMMA TxThread ==
  ASSUME HartFacts, CpuInv, TxInv, NEW h \in Hart, Thread(h)
  PROVE  TxInv'
<1>0. pc \in [Hart -> ThreadPlaces]
  BY DEF CpuInv
<1>1. ASSUME NEW at, Goto(h, at), UNCHANGED hd, hd.hart # h
      PROVE  /\ \A g \in Hart : g # h => (g \in Writing' <=> g \in Writing) /\ pc'[g] = pc[g]
             /\ pc'[h] = at /\ (h \in Writing' <=> at = "thr") /\ (h \in Writing <=> pc[h] = "thr")
  BY <1>0, <1>1 DEF Goto, Writing
<1>2. ASSUME NEW at, Goto(h, at), UNCHANGED <<hd, fifo, thre, tx_busy>>, hd.hart # h,
             at # "thr", pc[h] # "thr", at = "tx_asleep" => tx_busy
      PROVE  TxInv'
  BY <1>1, <1>2, TxFrame, Zenon
<1>3. CASE consolewrite(h)
  BY <1>2, <1>3, Zenon DEF consolewrite, Runs, uartVars
<1>4. CASE uartwrite_lock(h)
  BY <1>2, <1>4, Zenon DEF uartwrite_lock, Runs, uartVars
<1>5. CASE uartwrite_byte(h)
  <2>1. /\ fifo' = fifo + 1 /\ ~tx_busy /\ tx_busy' = TRUE /\ UNCHANGED <<pc, hd>>
    BY <1>5, Zenon DEF uartwrite_byte, WriteReg_THR
  <2>2. Writing' = Writing /\ Writing \in SUBSET Hart
    BY <2>1, Zenon DEF Writing
  <2>3. PICK n \in Nat, m \in Nat : n = Cardinality(Writing) /\ m = Cardinality(Hart)
    BY <2>2, Zenon DEF HartFacts
  <2>4. fifo \in Nat /\ fifo + n <= m + 0
    BY <2>1, <2>3, Zenon DEF TxInv
  <2>5. (fifo + 1) + n <= m + 1 /\ fifo + 1 > 0 /\ fifo + 1 \in Nat
    BY <2>4
  <2> QED BY <2>1, <2>2, <2>3, <2>5, Zenon DEF TxInv
<1>6. CASE uartwrite_sleep(h)
  BY <1>2, <1>6, Zenon DEF uartwrite_sleep, Runs, uartVars
<1>7. CASE uartwrite_done(h)
  BY <1>2, <1>7, Zenon DEF uartwrite_done, Runs, uartVars
<1>8. CASE printf(h)
  <2>1. UNCHANGED <<hd, tx_busy>>
    BY <1>8, Zenon DEF printf
  <2>2. CASE Runs(h, "idle")
    BY <1>2, <1>8, <2>1, <2>2, Zenon DEF printf, uartputc_sync, Runs, uartVars
  <2>3. CASE Runs(h, "putc")
    <3>1. /\ Goto(h, "thr") /\ fifo = 0 /\ UNCHANGED <<fifo, thre>> /\ hd.hart # h
      BY <1>8, <2>3, Zenon DEF printf, uartputc_sync, Runs, uartVars
    <3>2. TxSleepers' # {} => tx_busy
      BY <1>0, <3>1 DEF Goto, TxInv, TxSleepers
    <3>3. tx_busy => thre \/ hd.pc \in {"tx", "tx_spin", "tx_idle"}
      BY <3>1 DEF TxInv
    <3>4. tx_busy \in BOOLEAN
      BY DEF TxInv
    <3> QED BY <2>1, <3>1, <3>2, <3>3, <3>4, TxEmpty, Zenon
  <2>4. CASE Runs(h, "thr")
    <3>1. /\ Goto(h, "idle") /\ WriteReg_THR /\ hd.hart # h /\ pc[h] = "thr"
      BY <1>8, <2>4, Zenon DEF printf, uartputc_sync, Runs
    <3>2. h \in Writing /\ Writing' = Writing \ {h}
      BY <1>1, <2>1, <3>1 DEF Writing
    <3>3. \A g \in Hart : pc'[g] = "tx_asleep" => pc[g] = "tx_asleep"
      BY <1>1, <2>1, <3>1
    <3> QED BY <2>1, <3>1, <3>2, <3>3, TxPut, Zenon
  <2> QED BY <1>8, <2>2, <2>3, <2>4, Zenon DEF printf, uartputc_sync
<1>9. CASE consoleread(h)
  BY <1>2, <1>9, Zenon DEF consoleread, Runs, uartVars
<1>10. CASE read_lock(h)
  BY <1>2, <1>10, Zenon DEF read_lock, Runs, uartVars
<1>11. CASE read_empty(h)
  <2>1. (IF killed[h] THEN "rd_return" ELSE "rd_sleep") \notin {"thr", "tx_asleep"}
    BY Zenon
  <2> QED BY <1>2, <1>11, <2>1, Zenon DEF read_empty, Runs, uartVars
<1>12. CASE read_char(h)
  <2>1. (IF left[h] = 1 THEN "rd_return" ELSE "rd_loop") \notin {"thr", "tx_asleep"}
    BY Zenon
  <2> QED BY <1>2, <1>12, <2>1, Zenon DEF read_char, Runs, uartVars
<1>13. CASE read_return(h)
  BY <1>2, <1>13, Zenon DEF read_return, Runs, uartVars
<1> QED BY <1>3, <1>4, <1>5, <1>6, <1>7, <1>8, <1>9, <1>10, <1>11, <1>12, <1>13, Zenon
     DEF Thread

\* The steps of the handler.
LEMMA TxHandler ==
  ASSUME HartFacts, CpuInv, TxInv, uartintr
  PROVE  TxInv'
<1>0. /\ pc \in [Hart -> ThreadPlaces] /\ fifo \in Nat /\ tx_busy \in BOOLEAN
      /\ hd = [hart |-> hd.hart, pc |-> hd.pc, echo |-> hd.echo]
      /\ hd.pc # "none" => hd.hart \in Hart
      /\ hd.hart \in Hart => pc[hd.hart] # "thr"
  BY Offs DEF CpuInv, TxInv, NoHandler
<1>1. ASSUME NEW at, Then(at) PROVE hd'.hart = hd.hart /\ hd'.pc = at
  BY <1>0, <1>1 DEF Then
<1>2. ASSUME NEW n, ThenEcho(n) PROVE hd'.hart = hd.hart /\ hd'.pc = "echo"
  BY <1>2 DEF ThenEcho
<1>3. ASSUME hd'.hart = hd.hart, hd.pc # "thr", hd'.pc # "thr",
             \A g \in Hart : pc'[g] = pc[g] \/ (pc[g] = "rd_asleep" /\ pc'[g] = "rd"),
             UNCHANGED <<fifo, thre, tx_busy>>,
             hd.pc \in {"tx", "tx_spin", "tx_idle"} => hd'.pc \in {"tx", "tx_spin", "tx_idle"}
      PROVE  TxInv'
  <2>1. \A g \in Hart : g \in Writing' <=> g \in Writing
    BY <1>3 DEF Writing
  <2>2. \A g \in Hart : pc'[g] = "tx_asleep" => pc[g] = "tx_asleep" \/ tx_busy
    BY <1>3
  <2> QED BY <1>3, <2>1, <2>2, TxFrame, Zenon
<1> DEFINE Sends == {"tx", "tx_spin", "tx_idle"}
<1>4. ASSUME NEW from, NEW at, Handles(from), Then(at), from # "thr", at # "thr",
              UNCHANGED <<pc, fifo, thre, tx_busy>>, from \in Sends => at \in Sends
       PROVE  TxInv'
  <2>1. hd'.hart = hd.hart /\ hd'.pc = at /\ hd.pc = from
    BY <1>1, <1>4, Zenon DEF Handles
  <2> QED BY <1>3, <1>4, <2>1, Zenon
<1>5. CASE intr_ack
  <2>1. /\ hd'.hart = hd.hart /\ hd.pc = "isr" /\ hd'.pc = "tx"
        /\ UNCHANGED <<fifo, tx_busy, pc>>
    BY <1>1, <1>5, Zenon DEF intr_ack, Handles, threadVars
  <2>2. Writing' = Writing /\ TxSleepers' = TxSleepers
    BY <2>1 DEF Writing, TxSleepers
  <2> QED BY <2>1, <2>2 DEF TxInv
<1>6. CASE intr_lock
  BY <1>6, <1>4, Zenon DEF intr_lock, threadVars, uartVars
<1>7. CASE intr_idle
  <2>1. hd'.hart = hd.hart /\ hd.pc = "tx_idle" /\ hd'.pc = "getc" /\ UNCHANGED <<fifo, thre>>
    BY <1>1, <1>7, Zenon DEF intr_idle, Handles, uartVars
  <2>2. CASE fifo = 0
    <3>1. tx_busy' = FALSE /\ pc' = wakeup("tx_asleep", "tx")
      BY <1>7, <2>2, Zenon DEF intr_idle
    <3>2. TxSleepers' = {}
      BY <3>1 DEF wakeup, TxSleepers
    <3> QED BY <2>1, <2>2, <3>1, <3>2, TxEmpty, Zenon
  <2>3. CASE fifo # 0
    <3>1. UNCHANGED <<tx_busy, pc>>
      BY <1>7, <2>3, Zenon DEF intr_idle
    <3>2. Writing' = Writing /\ TxSleepers' = TxSleepers
      BY <2>1, <3>1 DEF Writing, TxSleepers
    <3>3. fifo > 0
      BY <1>0, <2>3
    <3> QED BY <2>1, <3>1, <3>2, <3>3, Zenon DEF TxInv
  <2> QED BY <2>2, <2>3, Zenon
<1>8. CASE intr_getc
  BY <1>8, <1>4, Zenon DEF intr_getc, threadVars, uartVars
<1>9. CASE consputc
  <2>1. UNCHANGED <<tx_busy, pc>>
    BY <1>9, Zenon DEF consputc, threadVars
  <2>2. CASE Handles("echo")
    BY <1>9, <1>4, <2>1, <2>2, Zenon DEF consputc, Handles, uartVars
  <2>3. CASE Handles("putc")
    <3>1. /\ fifo = 0 /\ UNCHANGED <<fifo, thre>> /\ hd'.pc = "thr" /\ hd.pc = "putc"
      BY <1>1, <1>9, <2>3, Zenon DEF consputc, Handles, uartVars
    <3>2. TxSleepers' # {} => tx_busy
      BY <2>1 DEF TxInv, TxSleepers
    <3>3. tx_busy => thre
      BY <3>1 DEF TxInv
    <3> QED BY <1>0, <2>1, <3>1, <3>2, <3>3, TxEmpty, Zenon
  <2>4. CASE Handles("thr")
    <3>1. hd.pc = "thr" /\ hd'.pc = "echo" /\ hd'.hart = hd.hart /\ hd.hart \in Hart /\ WriteReg_THR
      BY <1>0, <1>2, <1>9, <2>4, Zenon DEF consputc, Handles
    <3>2. hd.hart \in Writing /\ Writing' = Writing \ {hd.hart}
      BY <1>0, <2>1, <3>1 DEF Writing
    <3> QED BY <2>1, <3>1, <3>2, TxPut, Zenon
  <2> QED BY <1>9, <2>2, <2>3, <2>4, Zenon DEF consputc
<1>10. CASE consoleintr
  <2>1. CASE Handles("cons")
    BY <1>10, <1>4, <2>1, Zenon DEF consoleintr, Handles, threadVars, uartVars
  <2>2. CASE Handles("edit")
    <3>1. /\ UNCHANGED <<fifo, thre, tx_busy>> /\ hd'.hart = hd.hart /\ hd'.pc = "echo"
          /\ pc' = pc \/ pc' = wakeup("rd_asleep", "rd")
      BY <1>1, <1>2, <1>10, <2>2, Zenon DEF consoleintr, Handles, erase, store, drop
    <3>2. \A g \in Hart : pc'[g] = pc[g] \/ (pc[g] = "rd_asleep" /\ pc'[g] = "rd")
      BY <3>1 DEF wakeup
    <3> QED BY <1>3, <2>2, <3>1, <3>2, Zenon DEF Handles
  <2> QED BY <1>10, <2>1, <2>2, Zenon DEF consoleintr
<1>11. CASE intr_return
  <2>1. /\ hd.pc = "getc" /\ hd'.pc = "none" /\ UNCHANGED <<fifo, thre, tx_busy, pc>>
    BY <1>11, Zenon DEF intr_return, Handles, NoHandler, threadVars, uartVars
  <2>2. Writing' = Writing /\ TxSleepers' = TxSleepers
    BY <2>1 DEF Writing, TxSleepers
  <2> QED BY <2>1, <2>2 DEF TxInv
<1> QED BY <1>5, <1>6, <1>7, <1>8, <1>9, <1>10, <1>11, Zenon DEF uartintr

\* TxInv is kept by every step.
LEMMA TxStep ==
  ASSUME HartFacts, CpuInv, TxInv, [Next]_vars
  PROVE  TxInv'
<1>0. pc \in [Hart -> ThreadPlaces]
  BY DEF CpuInv
<1>1. ASSUME NEW h \in Hart, kkill(h) PROVE TxInv'
  <2>1. /\ \A g \in Hart : g \in Writing' <=> g \in Writing
        /\ \A g \in Hart : pc'[g] = "tx_asleep" => pc[g] = "tx_asleep"
    BY <1>0, <1>1 DEF kkill, Writing
  <2> QED BY <1>1, <2>1, TxFrame, Zenon DEF kkill, uartVars
<1>2. ASSUME NEW h \in Hart, interrupt(h) PROVE TxInv'
  <2>1. hd.pc = "none" /\ hd'.pc = "isr" /\ UNCHANGED <<fifo, thre, tx_busy, pc>>
    BY <1>2 DEF interrupt, NoHandler, threadVars, uartVars
  <2>2. \A g \in Hart : g \in Writing' <=> g \in Writing
    BY <2>1 DEF Writing
  <2> QED BY <2>1, <2>2, TxFrame
<1>3. ASSUME UNCHANGED <<fifo, thre, tx_busy, hd, pc>> PROVE TxInv'
  BY <1>3, Zenon DEF TxInv, TxSleepers, Writing
<1>4. CASE uart_send
  <2>1. /\ fifo \in Nat /\ fifo > 0 /\ fifo' = fifo - 1 /\ (fifo = 1 => thre')
        /\ UNCHANGED <<tx_busy, hd, pc>>
    <3>1. /\ fifo > 0 /\ fifo' = fifo - 1 /\ (fifo = 1 => thre') /\ UNCHANGED <<tx_busy, hd, pc>>
      BY <1>4, Zenon DEF uart_send, threadVars
    <3> QED BY <3>1, Zenon DEF TxInv
  <2>2. Writing' = Writing /\ TxSleepers' = TxSleepers /\ Writing \in SUBSET Hart
    BY <2>1 DEF Writing, TxSleepers
  <2>3. PICK n \in Nat, m \in Nat : n = Cardinality(Writing) /\ m = Cardinality(Hart)
    BY <2>2, Zenon DEF HartFacts
  <2>4. fifo + n <= m + (IF tx_busy THEN 1 ELSE 0)
    BY <2>3, Zenon DEF TxInv
  <2>5. fifo' + n <= m + (IF tx_busy THEN 1 ELSE 0) /\ fifo' \in Nat /\ (fifo' > 0 \/ thre')
    BY <2>1, <2>4
  <2> QED BY <2>1, <2>2, <2>3, <2>5, Zenon DEF TxInv
<1>5. CASE uart_receive \/ UNCHANGED vars
  BY <1>3, <1>5, Zenon DEF uart_receive, vars, threadVars, uartVars
<1> QED BY <1>1, <1>2, <1>4, <1>5, TxThread, TxHandler, Zenon DEF Next

(***************************************************************************)
(* The input ring is kept by every step.                                    *)
(***************************************************************************)

\* A step that leaves the ring alone.
LEMMA InputFrame ==
  ASSUME InputInv, UNCHANGED <<load, consVars, taken>>, rx' \in Seq(load.keys),
         hd'.pc \in {"cons", "edit"} => rx' # <<>>,
         \A g \in Hart : pc'[g] \in {"killed", "rd_sleep", "rd_asleep"} => taken = Len(ready)
  PROVE  InputInv'
BY Zenon DEF InputInv, consVars

\* The steps of a thread.
LEMMA InputThread ==
  ASSUME CpuInv, InputInv, NEW h \in Hart, Thread(h)
  PROVE  InputInv'
<1>0. /\ pc \in [Hart -> ThreadPlaces] /\ rx \in Seq(load.keys)
      /\ hd.pc \in {"cons", "edit"} => rx # <<>>
      /\ \A g \in Hart : pc[g] \in {"killed", "rd_sleep", "rd_asleep"} => taken = Len(ready)
  BY DEF CpuInv, InputInv
<1>1. ASSUME NEW at, Goto(h, at), UNCHANGED <<hd, load, rx, consVars, taken>>,
             at \in {"killed", "rd_sleep", "rd_asleep"} => taken = Len(ready)
      PROVE  InputInv'
  <2>1. \A g \in Hart : pc'[g] \in {"killed", "rd_sleep", "rd_asleep"} => taken = Len(ready)
    BY <1>0, <1>1 DEF Goto
  <2> QED BY <1>0, <1>1, <2>1, InputFrame, Zenon
<1>2. CASE consolewrite(h)
  BY <1>1, <1>2 DEF consolewrite, uartVars
<1>3. CASE uartwrite_lock(h)
  BY <1>1, <1>3 DEF uartwrite_lock, uartVars
<1>4. CASE uartwrite_byte(h)
  BY <1>0, <1>4, InputFrame, Zenon DEF uartwrite_byte, WriteReg_THR
<1>5. CASE uartwrite_sleep(h)
  BY <1>1, <1>5 DEF uartwrite_sleep, uartVars
<1>6. CASE uartwrite_done(h)
  BY <1>1, <1>6 DEF uartwrite_done, uartVars
<1>7. CASE printf(h)
  BY <1>1, <1>7 DEF printf, uartputc_sync, uartVars, WriteReg_THR
<1>8. CASE consoleread(h)
  BY <1>1, <1>8 DEF consoleread, uartVars
<1>9. CASE read_lock(h)
  BY <1>1, <1>9 DEF read_lock, uartVars
<1>10. CASE read_empty(h)
  <2>1. UNCHANGED <<hd, load, rx, consVars, taken>>
    BY <1>10, Zenon DEF read_empty, uartVars
  <2>2. CASE Runs(h, "rd_loop") /\ Unread = 0 /\ Goto(h, "killed")
    <3>1. taken = Len(ready)
      BY <2>2, InputFacts
    <3> QED BY <1>1, <2>1, <2>2, <3>1, Zenon
  <2>3. CASE Runs(h, "killed") \/ Runs(h, "rd_sleep")
    <3>1. taken = Len(ready)
      BY <1>0, <2>3 DEF Runs
    <3>2. \E at : Goto(h, at)
      BY <1>10, Zenon DEF read_empty
    <3> QED BY <1>1, <2>1, <3>1, <3>2, Zenon
  <2> QED BY <1>10, <2>2, <2>3, Zenon DEF read_empty
<1>11. CASE read_char(h)
  BY <1>11, InputRead, Zenon
<1>12. CASE read_return(h)
  BY <1>1, <1>12 DEF read_return, uartVars
<1> QED BY <1>2, <1>3, <1>4, <1>5, <1>6, <1>7, <1>8, <1>9, <1>10, <1>11, <1>12, Zenon
     DEF Thread

\* The steps of the handler.
LEMMA InputHandler ==
  ASSUME CpuInv, LockInv, InputInv, uartintr
  PROVE  InputInv'
<1>0. /\ rx \in Seq(load.keys)
      /\ hd.pc \in {"cons", "edit"} => rx # <<>>
      /\ \A g \in Hart : pc[g] \in {"killed", "rd_sleep", "rd_asleep"} => taken = Len(ready)
      /\ hd = [hart |-> hd.hart, pc |-> hd.pc, echo |-> hd.echo]
  BY DEF CpuInv, InputInv
<1>1. ASSUME NEW at, Then(at) PROVE hd'.pc = at
  BY <1>0, <1>1 DEF Then
<1>2. ASSUME NEW n, ThenEcho(n) PROVE hd'.pc = "echo"
  BY <1>2 DEF ThenEcho
<1>3. ASSUME UNCHANGED <<load, rx, consVars, taken>>, hd'.pc \in {"cons", "edit"} => rx # <<>>,
             pc' = pc \/ pc' = wakeup("tx_asleep", "tx")
      PROVE  InputInv'
  <2>1. \A g \in Hart : pc'[g] \in {"killed", "rd_sleep", "rd_asleep"} => taken = Len(ready)
    BY <1>0, <1>3 DEF wakeup
  <2> QED BY <1>0, <1>3, <2>1, InputFrame, Zenon
<1>4. CASE intr_ack
  BY <1>1, <1>3, <1>4 DEF intr_ack, threadVars
<1>5. CASE intr_lock
  BY <1>1, <1>3, <1>5 DEF intr_lock, threadVars, uartVars
<1>6. CASE intr_idle
  BY <1>1, <1>3, <1>6 DEF intr_idle, uartVars
<1>7. CASE intr_getc
  BY <1>1, <1>3, <1>7 DEF intr_getc, threadVars, uartVars
<1>8. CASE consputc
  <2>1. hd'.pc \notin {"cons", "edit"}
    BY <1>1, <1>2, <1>8 DEF consputc
  <2>2. UNCHANGED <<load, rx, consVars, taken, pc>>
    BY <1>8, Zenon DEF consputc, threadVars, uartVars, WriteReg_THR
  <2> QED BY <1>3, <2>1, <2>2, Zenon
<1>9. CASE consoleintr
  <2>1. CASE Handles("cons")
    BY <1>0, <1>1, <1>3, <1>9, <2>1 DEF consoleintr, Handles, threadVars, uartVars
  <2>2. CASE Handles("edit")
    <3>1. /\ hd.pc = "edit" /\ UNCHANGED <<load, r, taken>> /\ rx' = Tail(rx) /\ rx # <<>>
      BY <1>0, <1>9, <2>2 DEF consoleintr, Handles
    <3>2. rx' \in Seq(load.keys) /\ Head(rx) \in load.keys
      BY <1>0, <3>1
    <3>3. Stored(Head(rx)) \in load.keys \cup {"nl"}
      BY <3>2 DEF Stored
    <3>4. KillLength \in 0..Len(line)
      BY Kills, Zenon
    <3>5. (IF e # w THEN 1 ELSE 0) \in 0..Len(line)
      <4>1. Editable = Len(line) /\ Len(line) \in Nat
        BY InputFacts, Zenon
      <4>2. CASE Len(line) = 0
        <5>1. Len(ready) \in Nat
          BY InputFacts, Zenon
        <5>2. Len(ready) + 0 = Len(ready)
          BY <5>1
        <5>3. e = w
          BY <4>2, <5>2, Zenon DEF InputInv
        <5> QED BY <4>2, <5>3
      <4>3. CASE Len(line) # 0
        BY <4>1, <4>3
      <4> QED BY <4>2, <4>3, Zenon
    <3>6. CASE drop
      <4>1. hd'.pc = "echo" /\ UNCHANGED <<consVars, pc>>
        BY <1>1, <3>1, <3>6 DEF drop, consVars
      <4> QED BY <1>0, <3>1, <3>2, <4>1, InputFrame, Zenon
    <3>7. \/ erase(KillLength) \/ erase(IF e # w THEN 1 ELSE 0)
          \/ (HasRoom /\ store(Stored(Head(rx)))) \/ drop
      BY <1>9, <3>1, Zenon DEF consoleintr, Handles
    <3>8. CASE erase(KillLength) \/ erase(IF e # w THEN 1 ELSE 0)
      BY <3>1, <3>2, <3>4, <3>5, <3>8, InputErase, Zenon
    <3>9. CASE HasRoom /\ store(Stored(Head(rx)))
      BY <3>1, <3>2, <3>3, <3>9, InputStore, Zenon
    <3> QED BY <3>6, <3>7, <3>8, <3>9, Zenon
  <2> QED BY <1>9, <2>1, <2>2, Zenon DEF consoleintr
<1>10. CASE intr_return
  BY <1>3, <1>10 DEF intr_return, NoHandler, threadVars, uartVars
<1> QED BY <1>4, <1>5, <1>6, <1>7, <1>8, <1>9, <1>10, Zenon DEF uartintr

\* InputInv is kept by every step.
LEMMA InputStep ==
  ASSUME CpuInv, LockInv, InputInv, [Next]_vars
  PROVE  InputInv'
<1>0. /\ pc \in [Hart -> ThreadPlaces] /\ rx \in Seq(load.keys)
      /\ hd.pc \in {"cons", "edit"} => rx # <<>>
      /\ \A g \in Hart : pc[g] \in {"killed", "rd_sleep", "rd_asleep"} => taken = Len(ready)
  BY DEF CpuInv, InputInv
<1>1. ASSUME NEW h \in Hart, kkill(h) PROVE InputInv'
  <2>1. \A g \in Hart : pc'[g] \in {"killed", "rd_sleep", "rd_asleep"} => taken = Len(ready)
    BY <1>0, <1>1 DEF kkill
  <2> QED BY <1>0, <1>1, <2>1, InputFrame, Zenon DEF kkill, uartVars
<1>2. ASSUME NEW h \in Hart, interrupt(h) PROVE InputInv'
  <2>1. hd'.pc = "isr" /\ UNCHANGED <<load, rx, consVars, taken, pc>>
    BY <1>2 DEF interrupt, threadVars, uartVars
  <2> QED BY <1>0, <2>1, InputFrame
<1>3. CASE uart_send
  BY <1>0, <1>3, InputFrame, Zenon DEF uart_send, threadVars
<1>4. CASE uart_receive
  <2>1. PICK c \in load.keys : rx' = Append(rx, c)
    BY <1>4, Zenon DEF uart_receive
  <2>2. rx' \in Seq(load.keys) /\ rx' # <<>>
    BY <1>0, <2>1
  <2> QED BY <1>0, <1>4, <2>2, InputFrame, Zenon DEF uart_receive, threadVars
<1>5. CASE UNCHANGED vars
  BY <1>0, <1>5, InputFrame, Zenon DEF vars, threadVars, uartVars
<1> QED BY <1>1, <1>2, <1>3, <1>4, <1>5, InputThread, InputHandler, Zenon DEF Next

(***************************************************************************)
(* The initial state, and what the invariant says.                          *)
(***************************************************************************)

\* The initial state.
LEMMA ConsoleInit ==
  ASSUME HartFacts, Init
  PROVE  ConsoleInv
<1>1. CpuInv
  <2>1. /\ hd.hart = None /\ hd.pc = "none" /\ hd.echo = 0 /\ None \notin Hart
        /\ hd \in [hart : Hart \cup {None}, pc : HandlerPlaces, echo : Nat]
    BY IntrPlaces, ConsoleConstants DEF Init, NoHandler
  <2>2. /\ pc \in [Hart -> ThreadPlaces] /\ noff \in [Hart -> Nat]
        /\ \A h \in Hart : pc[h] = "idle" /\ noff[h] = 0
    BY Places DEF Init
  <2>3. /\ intr \in [Hart -> BOOLEAN] /\ intena \in [Hart -> BOOLEAN]
        /\ \A h \in Hart : intr[h]
    BY Zenon DEF Init
  <2> QED BY <2>1, <2>2, <2>3, Offs, Zenon DEF CpuInv, NoHandler
<1>2. LockInv
  BY ConsoleConstants DEF Init, LockInv, InTx, InCons, NoHandler
<1>3. TxInv
  <2>1. Writing = {} /\ TxSleepers = {}
    BY DEF Init, Writing, TxSleepers, NoHandler
  <2>2. Cardinality(Writing) = 0 /\ Cardinality(Hart) \in Nat
    BY <2>1, Zenon DEF HartFacts
  <2>3. fifo = 0 /\ tx_busy = FALSE
    BY DEF Init
  <2>4. fifo + Cardinality(Writing) <= Cardinality(Hart) + (IF tx_busy THEN 1 ELSE 0)
    BY <2>2, <2>3
  <2> QED BY <2>1, <2>3, <2>4, Zenon DEF TxInv
<1>4. InputInv
  <2>1. 0 % Wrap = 0 /\ INPUT_BUF_SIZE \in Nat \ {0}
    BY ConsoleConstants
  <2>2. /\ rx = <<>> /\ ready = <<>> /\ line = <<>> /\ taken = 0 /\ r = 0 /\ w = 0 /\ e = 0
        /\ hd.pc = "none" /\ DOMAIN buf = 0..INPUT_BUF_SIZE - 1
    BY DEF Init, NoHandler
  <2>3. \A h \in Hart : pc[h] = "idle"
    BY DEF Init
  <2>4. /\ ready \in Seq(load.keys \cup {"nl"}) /\ line \in Seq(load.keys \cup {"nl"})
        /\ rx \in Seq(load.keys) /\ Len(ready) = 0 /\ Len(line) = 0
    BY <2>2
  <2> QED BY <2>1, <2>2, <2>3, <2>4 DEF InputInv
<1> QED BY <1>1, <1>2, <1>3, <1>4, Zenon DEF ConsoleInv

\* What the invariant says of interrupts.
LEMMA SafeInterrupts ==
  ASSUME ConsoleInv
  PROVE  InterruptSafe
<1>1. CpuInv /\ LockInv
  BY Zenon DEF ConsoleInv
<1>2. ASSUME NEW h \in Hart, intr[h] PROVE ~Holds(h) /\ noff[h] = 0
  <2>1. hd.hart # h /\ noff[h] = 0 /\ ThreadOffs(pc[h]) = 0
    BY <1>1, <1>2, Zenon DEF CpuInv
  <2>2. pc[h] \notin {"tx_loop", "rd_loop", "killed", "rd_sleep", "rd_return"}
    BY <2>1, Offs
  <2>3. ~InTx(h) /\ ~InCons(h)
    BY <2>1, <2>2 DEF InTx, InCons
  <2> QED BY <1>1, <2>1, <2>3, Zenon DEF LockInv, Holds
<1>3. ASSUME NEW h \in Hart, pc[h] \in {"idle", "tx_asleep", "rd_asleep"}, hd.hart # h
      PROVE  intr[h]
  <2>1. ThreadOffs(pc[h]) = 0
    BY <1>3, Offs
  <2> QED BY <1>1, <1>3, <2>1, Zenon DEF CpuInv
<1> QED BY <1>2, <1>3, Zenon DEF InterruptSafe

\* What the invariant says of the transmit FIFO.
LEMMA Fits ==
  ASSUME HartFacts, ConsoleInv
  PROVE  TxFits
<1>1. Writing \in SUBSET Hart
  BY DEF Writing
<1>2. PICK n \in Nat, m \in Nat : n = Cardinality(Writing) /\ m = Cardinality(Hart)
  BY <1>1, Zenon DEF HartFacts
<1>3. fifo \in Nat /\ fifo + n <= m + (IF tx_busy THEN 1 ELSE 0)
  BY <1>2, Zenon DEF ConsoleInv, TxInv
<1>4. fifo <= m + 1
  BY <1>3
<1> QED BY <1>2, <1>4, Zenon DEF TxFits

\* What the invariant says of sleepers.
LEMMA NoneForgotten ==
  ASSUME ConsoleInv
  PROVE  NoSleeperForgotten
<1>1. InputInv /\ TxInv
  BY Zenon DEF ConsoleInv
<1>2. ASSUME RdSleepers # {} PROVE r = w /\ Pending < INPUT_BUF_SIZE
  <2>1. taken = Len(ready)
    BY <1>1, <1>2 DEF InputInv, RdSleepers
  <2>2. r = w
    BY <1>1, <2>1, Zenon DEF InputInv
  <2> QED BY <1>1, <2>1, <2>2, InputFacts
<1> QED BY <1>1, <1>2, Zenon DEF NoSleeperForgotten, TxInv

\* The characters from one counter on, in the ring and in a sequence.
LEMMA RingIs ==
  ASSUME NEW S, NEW s \in Seq(S), NEW x \in Nat, Len(s) < Wrap,
         \A k \in 0..Len(s) - 1 : buf[(x + k) % INPUT_BUF_SIZE] = s[k + 1]
  PROVE  Ring(x % Wrap, Len(s)) = s
<1>1. /\ INPUT_BUF_SIZE \in Nat \ {0} /\ Wrap \in Nat \ {0} /\ Wrap % INPUT_BUF_SIZE = 0
  BY ConsoleConstants
<1>2. PICK n \in Nat : n = Len(s)
  OBVIOUS
<1>3. ASSUME NEW k \in 1..n PROVE At(((x % Wrap) + k - 1) % Wrap) = s[k]
  <2>1. PICK i \in 0..n - 1 : i = k - 1
    BY <1>2
  <2>2. /\ x + i \in Nat /\ i \in 0..Wrap - 1 /\ (x % Wrap) + k - 1 = (x % Wrap) + i /\ i + 1 = k
    BY <1>1, <1>2, <2>1
  <2>3. ((x % Wrap) + i) % Wrap = (x + i) % Wrap
    BY <1>1, <2>2, Wrapped, Zenon
  <2>4. ((x + i) % Wrap) % INPUT_BUF_SIZE = (x + i) % INPUT_BUF_SIZE
    <3>1. PICK y \in Nat : y = x + i
      BY <2>2, Zenon
    <3>2. (y % Wrap) % INPUT_BUF_SIZE = y % INPUT_BUF_SIZE
      BY <1>1, WrapKeepsSlot, Zenon
    <3> QED BY <3>1, <3>2, Zenon
  <2>5. buf[(x + i) % INPUT_BUF_SIZE] = s[i + 1]
    BY <1>2, <2>1, Zenon
  <2> QED BY <2>2, <2>3, <2>4, <2>5, Zenon DEF At
<1>4. s = [k \in 1..n |-> s[k]]
  BY <1>2
<1>5. Ring(x % Wrap, n) = [k \in 1..n |-> s[k]]
  BY <1>3, Zenon DEF Ring
<1> QED BY <1>2, <1>4, <1>5, Zenon

\* What the invariant says of the input ring.
LEMMA ExactInput ==
  ASSUME InputInv
  PROVE  InputExact
<1>1. PICK R \in Nat, L \in Nat :
        /\ R = Len(ready) /\ L = Len(line) /\ taken \in Nat /\ taken <= R
        /\ R + L <= taken + INPUT_BUF_SIZE /\ Unread = R - taken /\ Editable = L
  BY InputFacts, Zenon
<1>2. /\ R - taken < Wrap /\ L < Wrap /\ (R - taken) + L <= INPUT_BUF_SIZE
      /\ taken + 1 \in 1..R + 1
  BY <1>1, ConsoleConstants
<1>3. /\ ready \in Seq(load.keys \cup {"nl"}) /\ line \in Seq(load.keys \cup {"nl"})
      /\ r = taken % Wrap /\ w = R % Wrap
      /\ \A k \in taken..R - 1 : buf[k % INPUT_BUF_SIZE] = ready[k + 1]
      /\ \A k \in 0..L - 1 : buf[(R + k) % INPUT_BUF_SIZE] = line[k + 1]
  BY <1>1, Zenon DEF InputInv
<1>4. Ring(w, Editable) = line
  BY <1>1, <1>2, <1>3, RingIs, Zenon
<1>5. PICK s : s = SubSeq(ready, taken + 1, R)
  BY Zenon
<1>6. /\ s \in Seq(load.keys \cup {"nl"}) /\ Len(s) = R - taken
      /\ \A k \in 1..R - taken : s[k] = ready[taken + k]
  BY <1>1, <1>2, <1>3, <1>5
<1>7. \A k \in 0..(R - taken) - 1 : buf[(taken + k) % INPUT_BUF_SIZE] = s[k + 1]
  <2>1. ASSUME NEW k \in 0..(R - taken) - 1
        PROVE  taken + k \in taken..R - 1 /\ k + 1 \in 1..R - taken /\ (taken + k) + 1 = taken + (k + 1)
    BY <1>1
  <2> QED BY <1>3, <1>6, <2>1, Zenon
<1>8. Ring(r, Unread) = s
  BY <1>1, <1>2, <1>3, <1>6, <1>7, RingIs, Zenon
<1> QED BY <1>1, <1>2, <1>4, <1>5, <1>8, Zenon DEF InputExact

(***************************************************************************)
(* The theorems.                                                            *)
(***************************************************************************)

FS == INSTANCE FiniteSetTheorems

\* The library's finite sets are the model's.
LEMMA SameFinite ==
  /\ \A S : FS!IsFiniteSet(S) <=> IsFiniteSet(S)
  /\ \A S : FS!Cardinality(S) = Cardinality(S)
BY DEF IsFiniteSet, FS!IsFiniteSet, Cardinality, FS!Cardinality

\* NCPU harts are finitely many.
LEMMA Harts == HartFacts
<1>1. IsFiniteSet(Hart)
  BY ConsoleConstants
<1>2. ASSUME NEW S \in SUBSET Hart
      PROVE  IsFiniteSet(S) /\ Cardinality(S) <= Cardinality(Hart)
  BY <1>1, SameFinite, FS!FS_Subset, Zenon
<1>3. /\ Cardinality({}) = 0 /\ Cardinality(Hart) \in Nat
      /\ \A S \in SUBSET Hart : Cardinality(S) \in Nat
  BY <1>1, <1>2, SameFinite, FS!FS_EmptySet, FS!FS_CardinalityType, Zenon
<1>4. ASSUME NEW S \in SUBSET Hart, NEW h \in S
      PROVE  Cardinality(S \ {h}) = Cardinality(S) - 1
  BY <1>2, SameFinite, FS!FS_RemoveElement, Zenon
<1> QED BY <1>2, <1>3, <1>4, Zenon DEF HartFacts

\* Every step of the threads, the handler and the UART keeps the invariant of
\* the console: interrupts and locks, the transmit FIFO, the input ring.
THEOREM ConsoleInvariant == Spec => []ConsoleInv
<1>1. Init => ConsoleInv
  BY ConsoleInit, Harts, Zenon
<1>2. ConsoleInv /\ [Next]_vars => ConsoleInv'
  BY CpuStep, LockStep, TxStep, InputStep, Harts, Zenon DEF ConsoleInv
<1> QED BY <1>1, <1>2, PTL DEF Spec

\* Interrupts and spin locks never deadlock a hart with itself, for any number
\* of harts: acquire() and release() turn interrupts off and on around every
\* lock that uartintr() may want, also with killed() inside cons.lock.
THEOREM InterruptsAreSafe == Spec => []InterruptSafe
<1>1. ConsoleInv => InterruptSafe
  BY SafeInterrupts, Zenon
<1> QED BY <1>1, ConsoleInvariant, PTL

\* The transmit FIFO never holds more than a byte of each hart and one of
\* uartwrite(), for any number of harts.
THEOREM TransmitFits == Spec => []TxFits
<1>1. ConsoleInv => TxFits
  BY Fits, Harts, Zenon
<1> QED BY <1>1, ConsoleInvariant, PTL

\* No thread sleeps for ever for want of a wakeup(): neither a reader with a
\* line in the ring, nor a writer that the UART will not interrupt for.
THEOREM NoForgottenThread == Spec => []NoSleeperForgotten
<1>1. ConsoleInv => NoSleeperForgotten
  BY NoneForgotten, Zenon
<1> QED BY <1>1, ConsoleInvariant, PTL

\* Readers get what was typed and edited, in order and each character once, for
\* any ring size that divides the width of cons.r, cons.w and cons.e.
THEOREM InputIsExact == Spec => []InputExact
<1>1. ConsoleInv => InputExact
  BY ExactInput, Zenon DEF ConsoleInv
<1> QED BY <1>1, ConsoleInvariant, PTL
=============================================================================
