----------------------------- MODULE Remainders -----------------------------
(***************************************************************************)
(* Counters that wrap.  A ring of n slots is driven by counters that are    *)
(* never reset: they count modulo w, a multiple of n (2^16 or 2^32 in the   *)
(* kernel), and the slot of a counter is its remainder modulo n.            *)
(***************************************************************************)
EXTENDS Integers, TLAPS

\* The quotient of a division.
LEMMA Quotient ==
  ASSUME NEW x \in Nat, NEW n \in Nat \ {0}
  PROVE  \E q \in Nat : x = n * q + (x % n)
<1>1. x \div n \in Nat /\ x = n * (x \div n) + (x % n)
  OBVIOUS
<1> QED BY <1>1, Zenon

\* A remainder is unique.
LEMMA Remainder ==
  ASSUME NEW n \in Nat \ {0}, NEW q \in Nat, NEW r \in 0..n - 1, NEW x \in Nat,
         x = n * q + r
  PROVE  x % n = r
<1>1. ASSUME NEW a \in Nat, NEW b \in Nat, a < b
      PROVE  n * a \in Nat /\ n * b \in Nat /\ n * a + n <= n * b
  BY <1>1
<1>2. PICK p \in Nat : x = n * p + (x % n)
  BY Quotient, Zenon
<1>3. x % n \in 0..n - 1
  OBVIOUS
<1>4. p = q
  BY <1>1, <1>2, <1>3
<1> QED BY <1>2, <1>4

\* What a step of a counter does to its remainder.
LEMMA Advance ==
  ASSUME NEW x \in Nat, NEW n \in Nat \ {0}, NEW i \in 0..n - 1
  PROVE  (x + i) % n = IF (x % n) + i < n THEN (x % n) + i ELSE (x % n) + i - n
<1> DEFINE r == x % n
           y == x + i
<1>1. r \in 0..n - 1 /\ y \in Nat
  OBVIOUS
<1>2. PICK q \in Nat : x = n * q + r
  BY Quotient, Zenon
<1> DEFINE p == q + 1
           s == r + i - n
           u == r + i
<1>3. n * p = n * q + n /\ p \in Nat
  BY <1>2
<1>4. y = n * q + u /\ y = n * p + s
  BY <1>1, <1>2, <1>3
<1>5. u < n => u \in 0..n - 1
  BY <1>1
<1>6. ~(u < n) => s \in 0..n - 1
  BY <1>1
<1> HIDE DEF p, r, s, u, y
<1>7. ASSUME u < n PROVE y % n = u
  <2>1. u \in 0..n - 1 /\ y \in Nat /\ y = n * q + u
    BY <1>1, <1>4, <1>5, <1>7
  <2> QED BY <2>1, Remainder
<1>8. ASSUME ~(u < n) PROVE y % n = s
  <2>1. s \in 0..n - 1 /\ y \in Nat /\ y = n * p + s /\ p \in Nat
    BY <1>1, <1>3, <1>4, <1>6, <1>8
  <2> QED BY <2>1, Remainder
<1> QED BY <1>7, <1>8 DEF r, s, u, y

\* A counter that wraps at a multiple of n keeps its remainder modulo n.
LEMMA WrapKeepsSlot ==
  ASSUME NEW x \in Nat, NEW n \in Nat \ {0}, NEW w \in Nat \ {0}, w % n = 0
  PROVE  (x % w) % n = x % n
<1> DEFINE r == x % w
           s == r % n
<1>1. r \in 0..w - 1 /\ r \in Nat /\ s \in 0..n - 1
  OBVIOUS
<1>2. PICK m \in Nat : w = n * m
  <2>1. PICK m \in Nat : w = n * m + (w % n)
    BY Quotient, Zenon
  <2> QED BY <2>1
<1>3. PICK q \in Nat : x = w * q + r
  BY Quotient, Zenon
<1>4. PICK p \in Nat : r = n * p + s
  BY <1>1, Quotient, Zenon
<1> HIDE DEF r, s
<1>5. x = n * (m * q + p) + s
  BY <1>1, <1>2, <1>3, <1>4
<1>6. m * q + p \in Nat
  OBVIOUS
<1>7. x % n = s
  BY <1>1, <1>5, <1>6, Remainder
<1> QED BY <1>7 DEF r, s

\* Counting on from a counter that has wrapped.
LEMMA Wrapped ==
  ASSUME NEW x \in Nat, NEW w \in Nat \ {0}, NEW i \in 0..w - 1
  PROVE  /\ x % w \in 0..w - 1
         /\ ((x % w) + i) % w = (x + i) % w
<1>1. x % w \in 0..w - 1
  OBVIOUS
<1> DEFINE y == x % w
<1>2. y % w = y /\ y \in Nat
  OBVIOUS
<1>3. (x + i) % w = IF y + i < w THEN y + i ELSE y + i - w
  BY Advance, Zenon
<1> HIDE DEF y
<1>4. (y + i) % w = IF (y % w) + i < w THEN (y % w) + i ELSE (y % w) + i - w
  BY <1>2, Advance, Zenon
<1> QED BY <1>1, <1>2, <1>3, <1>4 DEF y

\* The difference of two counters, when it is smaller than w, survives the
\* wrapping of both.
LEMMA WrappedDifference ==
  ASSUME NEW x \in Nat, NEW w \in Nat \ {0}, NEW d \in 0..w - 1
  PROVE  (((x + d) % w) - (x % w)) % w = d
<1> DEFINE r == x % w
           y == (x + d) % w
<1>1. r \in 0..w - 1
  OBVIOUS
<1>2. y = IF r + d < w THEN r + d ELSE r + d - w
  BY Advance, Zenon
<1> HIDE DEF r, y
<1>3. y - r = d \/ y - r = d - w
  BY <1>1, <1>2
<1>4. d % w = d
  OBVIOUS
<1>5. (d - w) % w = d
  OBVIOUS
<1> QED BY <1>3, <1>4, <1>5 DEF r, y

\* Counting back from a counter that has wrapped.
LEMMA WrappedBack ==
  ASSUME NEW x \in Nat, NEW w \in Nat \ {0}, NEW i \in 0..w - 1
  PROVE  (((x + i) % w) - i) % w = x % w
<1> DEFINE r == x % w
           y == (x + i) % w
<1>1. r \in 0..w - 1
  OBVIOUS
<1>2. y = IF r + i < w THEN r + i ELSE r + i - w
  BY Advance, Zenon
<1> HIDE DEF r, y
<1>3. y - i = r \/ y - i = r - w
  BY <1>1, <1>2
<1>4. r % w = r
  BY <1>1
<1>5. (r - w) % w = r
  BY <1>1
<1> QED BY <1>3, <1>4, <1>5 DEF r, y

\* Two counters less than n apart have different slots.
LEMMA SlotsDiffer ==
  ASSUME NEW n \in Nat \ {0}, NEW x \in Nat, NEW i \in 0..n - 1, NEW j \in 0..n - 1,
         (x + i) % n = (x + j) % n
  PROVE  i = j
<1> DEFINE r == x % n
<1>1. r \in 0..n - 1
  OBVIOUS
<1>2. /\ (x + i) % n = IF r + i < n THEN r + i ELSE r + i - n
      /\ (x + j) % n = IF r + j < n THEN r + j ELSE r + j - n
  BY Advance, Zenon
<1> HIDE DEF r
<1> QED BY <1>1, <1>2
=============================================================================
