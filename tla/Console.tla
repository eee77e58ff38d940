------------------------------ MODULE Console ------------------------------
(***************************************************************************)
(* kernel/console.c and kernel/uart.c, with the spin locks of               *)
(* kernel/spinlock.c and the interrupts they turn off.                      *)
(*                                                                         *)
(* Every hart runs one thread, which calls read(), write() and printf() on  *)
(* the console; while the thread sleeps the hart idles with interrupts on.  *)
(* The PLIC hands a UART interrupt to any hart that takes interrupts, one   *)
(* at a time, and uartintr() then runs on that hart in place of its thread. *)
(* The bytes that leave are counted; the bytes that arrive are line editing *)
(* characters.  The UART is external: a FIFO each way, an interrupt when    *)
(* the transmit FIFO runs empty (reading ISR or writing THR takes it back)  *)
(* and one as long as input waits.                                          *)
(***************************************************************************)
EXTENDS Integers, Sequences, FiniteSets

CONSTANTS Hart, None,
          INPUT_BUF_SIZE,
          Wrap,       \* cons.r, cons.w and cons.e count modulo Wrap: 2^32
          CHUNK,      \* bytes consolewrite() passes on at a time: 32
          Load        \* the loads: [calls |-> the calls of each hart,
                      \* keys |-> the characters typed, typed |-> how many]

ASSUME ConsoleConstants ==
  /\ INPUT_BUF_SIZE \in Nat \ {0} /\ CHUNK \in Nat \ {0}
  /\ Wrap \in Nat /\ Wrap > INPUT_BUF_SIZE /\ Wrap % INPUT_BUF_SIZE = 0
  /\ IsFiniteSet(Hart) /\ None \notin Hart

VARIABLES
  load,
  intr, noff, intena,    \* of each hart: interrupts on, cpu->noff, cpu->intena
  tx_lock, cons_lock,    \* the hart in lk->cpu while the lock is held
  pc, left, rest, killed,\* of each thread: place, bytes left of the inner and
                         \* of the whole call, p->killed
  tx_busy,
  fifo, thre, rx,        \* UART: bytes to send, THR-empty interrupt, input
  hd,                    \* uartintr(): [hart, pc, echo]
  buf, r, w, e,          \* cons
  line, ready, taken,    \* history: the line being edited, the characters
                         \* handed to readers, how many have been taken
  typed

cpuVars == <<intr, noff, intena>>
lockVars == <<tx_lock, cons_lock>>
threadVars == <<pc, left, rest, killed>>
uartVars == <<fifo, thre, rx>>
consVars == <<buf, r, w, e, line, ready>>
vars == <<load, cpuVars, lockVars, threadVars, tx_busy, uartVars, hd, consVars, taken, typed>>

\* Between plic_claim() and plic_complete() the PLIC holds the next one back.
NoHandler == [hart |-> None, pc |-> "none", echo |-> 0]

Init ==
  /\ load \in Load
  /\ intr = [h \in Hart |-> TRUE]
  /\ noff = [h \in Hart |-> 0]
  /\ intena = [h \in Hart |-> FALSE]
  /\ tx_lock = None /\ cons_lock = None
  /\ pc = [h \in Hart |-> "idle"]
  /\ left = [h \in Hart |-> 0] /\ rest = [h \in Hart |-> 0]
  /\ killed = [h \in Hart |-> FALSE]
  /\ tx_busy = FALSE
  /\ fifo = 0 /\ thre = FALSE /\ rx = <<>>
  /\ hd = NoHandler
  /\ buf = [k \in 0..INPUT_BUF_SIZE - 1 |-> None]
  /\ r = 0 /\ w = 0 /\ e = 0
  /\ line = <<>> /\ ready = <<>> /\ taken = 0 /\ typed = 0

(***************************************************************************)
(* Spin locks.                                                              *)
(***************************************************************************)

push_off_Always(h) ==
  /\ intr' = [intr EXCEPT ![h] = FALSE]
  /\ intena' = [intena EXCEPT ![h] = intr[h]]
  /\ noff' = [noff EXCEPT ![h] = @ + 1]
push_off(h) ==
  /\ intr' = [intr EXCEPT ![h] = FALSE]
  /\ intena' = IF noff[h] = 0 THEN [intena EXCEPT ![h] = intr[h]] ELSE intena
  /\ noff' = [noff EXCEPT ![h] = @ + 1]

pop_off(h) ==
  /\ noff' = [noff EXCEPT ![h] = @ - 1]
  /\ intr' = [intr EXCEPT ![h] = @ \/ (noff[h] = 1 /\ intena[h])]
  /\ UNCHANGED intena

\* acquire() after push_off(): the hart spins until this step is possible.
acquire(h, lk) == lk = None /\ lk' = h
release(h, lk) == lk = h /\ lk' = None /\ pop_off(h)

\* sleep(): the lock is released and the hart goes back to the scheduler,
\* which turns interrupts on.
sleep(h, lk) ==
  /\ lk' = None
  /\ noff' = [noff EXCEPT ![h] = 0]
  /\ intr' = [intr EXCEPT ![h] = TRUE]
  /\ UNCHANGED intena

\* The thread of h runs: no handler is on top of it.
Runs(h, at) == pc[h] = at /\ hd.hart # h
Goto(h, at) == pc' = [pc EXCEPT ![h] = at]

\* The sleepers on a channel take their lock again.
wakeup(asleep, again) == [h \in Hart |-> IF pc[h] = asleep THEN again ELSE pc[h]]

(***************************************************************************)
(* consolewrite() and uartwrite().                                          *)
(***************************************************************************)

WriteReg_THR == fifo' = fifo + 1 /\ thre' = FALSE /\ UNCHANGED rx

Chunk(n) == IF n > CHUNK THEN CHUNK ELSE n

consolewrite(h) ==
  /\ Runs(h, "idle") /\ "write" \in load.calls[h]
  /\ \E n \in 1..CHUNK + 1 : /\ left' = [left EXCEPT ![h] = Chunk(n)]
                             /\ rest' = [rest EXCEPT ![h] = n - Chunk(n)]
  /\ Goto(h, "tx")
  /\ UNCHANGED <<load, cpuVars, lockVars, killed, tx_busy, uartVars, hd, consVars,
                 taken, typed>>

uartwrite_lock(h) ==
  \/ /\ Runs(h, "tx")
     /\ push_off(h) /\ Goto(h, "tx_spin")
     /\ UNCHANGED <<load, lockVars, left, rest, killed, tx_busy, uartVars, hd, consVars,
                    taken, typed>>
  \/ /\ Runs(h, "tx_spin")
     /\ acquire(h, tx_lock) /\ Goto(h, "tx_loop")
     /\ UNCHANGED <<load, cpuVars, cons_lock, left, rest, killed, tx_busy, uartVars, hd,
                    consVars, taken, typed>>

uartwrite_byte_NoWait(h) ==
  /\ Runs(h, "tx_loop") /\ left[h] > 0
  /\ WriteReg_THR
  /\ left' = [left EXCEPT ![h] = @ - 1]
  /\ tx_busy' = TRUE
  /\ UNCHANGED <<load, cpuVars, lockVars, pc, rest, killed, hd, consVars, taken, typed>>
uartwrite_byte(h) ==
  /\ Runs(h, "tx_loop") /\ left[h] > 0 /\ ~tx_busy
  /\ WriteReg_THR
  /\ left' = [left EXCEPT ![h] = @ - 1]
  /\ tx_busy' = TRUE
  /\ UNCHANGED <<load, cpuVars, lockVars, pc, rest, killed, hd, consVars, taken, typed>>

uartwrite_sleep(h) ==
  /\ Runs(h, "tx_loop") /\ left[h] > 0 /\ tx_busy
  /\ sleep(h, tx_lock) /\ Goto(h, "tx_asleep")
  /\ UNCHANGED <<load, cons_lock, left, rest, killed, tx_busy, uartVars, hd, consVars,
                 taken, typed>>

\* The chunk is out; the next one, unless its copy from user memory fails.
uartwrite_done(h) ==
  /\ Runs(h, "tx_loop") /\ left[h] = 0
  /\ release(h, tx_lock)
  /\ rest' = [rest EXCEPT ![h] = 0]
  /\ \/ left' = [left EXCEPT ![h] = rest[h]] /\ rest[h] > 0 /\ Goto(h, "tx")
     \/ UNCHANGED left /\ Goto(h, "idle")
  /\ UNCHANGED <<load, cons_lock, killed, tx_busy, uartVars, hd, consVars, taken, typed>>

(***************************************************************************)
(* printf(): uartputc_sync() without the lock.                              *)
(***************************************************************************)

uartputc_sync(h) ==
  \/ /\ Runs(h, "idle") /\ "printf" \in load.calls[h]
     /\ push_off(h) /\ Goto(h, "putc")
     /\ UNCHANGED uartVars
  \/ /\ Runs(h, "putc") /\ fifo = 0
     /\ Goto(h, "thr")
     /\ UNCHANGED <<cpuVars, uartVars>>
  \/ /\ Runs(h, "thr")
     /\ WriteReg_THR
     /\ pop_off(h) /\ Goto(h, "idle")

printf(h) ==
  /\ uartputc_sync(h)
  /\ UNCHANGED <<load, lockVars, left, rest, killed, tx_busy, hd, consVars, taken, typed>>

(***************************************************************************)
(* consoleread().                                                           *)
(***************************************************************************)

Unread == (w - r) % Wrap
Pending == (e - r) % Wrap

consoleread(h) ==
  /\ Runs(h, "idle") /\ "read" \in load.calls[h]
  /\ \E n \in 1..INPUT_BUF_SIZE : /\ left' = [left EXCEPT ![h] = n]
                                  /\ rest' = [rest EXCEPT ![h] = n]
  /\ Goto(h, "rd")
  /\ UNCHANGED <<load, cpuVars, lockVars, killed, tx_busy, uartVars, hd, consVars,
                 taken, typed>>

read_lock(h) ==
  \/ /\ Runs(h, "rd")
     /\ push_off(h) /\ Goto(h, "rd_spin")
     /\ UNCHANGED <<load, lockVars, left, rest, killed, tx_busy, uartVars, hd, consVars,
                    taken, typed>>
  \/ /\ Runs(h, "rd_spin")
     /\ acquire(h, cons_lock) /\ Goto(h, "rd_loop")
     /\ UNCHANGED <<load, cpuVars, tx_lock, left, rest, killed, tx_busy, uartVars, hd,
                    consVars, taken, typed>>

\* Nothing to read: killed() takes and releases p->lock inside cons.lock.
read_empty(h) ==
  /\ \/ /\ Runs(h, "rd_loop") /\ Unread = 0
        /\ push_off(h) /\ Goto(h, "killed")
        /\ UNCHANGED <<cons_lock, left, rest>>
     \/ /\ Runs(h, "killed")
        /\ pop_off(h) /\ Goto(h, IF killed[h] THEN "rd_return" ELSE "rd_sleep")
        /\ UNCHANGED <<cons_lock, left, rest>>
     \/ /\ Runs(h, "rd_sleep")
        /\ sleep(h, cons_lock) /\ Goto(h, "rd_asleep")
        /\ UNCHANGED <<left, rest>>
  /\ UNCHANGED <<load, tx_lock, killed, tx_busy, uartVars, hd, consVars, taken, typed>>

\* One character; an end-of-file that is not the first one stays for the next
\* read().  A failing copyout() ends the call.
Char == buf[r % INPUT_BUF_SIZE]
EofStays(h) == Char = "D" /\ left[h] < rest[h]
read_char(h) ==
  /\ Runs(h, "rd_loop") /\ Unread # 0
  /\ IF EofStays(h) THEN UNCHANGED <<r, taken>>
     ELSE r' = (r + 1) % Wrap /\ taken' = taken + 1
  /\ \/ Char \in {"D", "nl"} /\ Goto(h, "rd_return") /\ UNCHANGED left
     \/ /\ Char # "D"
        /\ Goto(h, "rd_return") /\ UNCHANGED left
     \/ /\ Char \notin {"D", "nl"}
        /\ left' = [left EXCEPT ![h] = @ - 1]
        /\ Goto(h, IF left[h] = 1 THEN "rd_return" ELSE "rd_loop")
  /\ UNCHANGED <<load, cpuVars, lockVars, rest, killed, tx_busy, uartVars, hd, buf, w,
                 e, line, ready, typed>>

read_return(h) ==
  /\ Runs(h, "rd_return")
  /\ release(h, cons_lock) /\ Goto(h, "idle")
  /\ left' = [left EXCEPT ![h] = 0] /\ rest' = [rest EXCEPT ![h] = 0]
  /\ UNCHANGED <<load, tx_lock, killed, tx_busy, uartVars, hd, consVars, taken, typed>>

\* kill() wakes a sleeper; only consoleread() gives up.
kkill(h) ==
  /\ ~killed[h] /\ "kill" \in load.calls[h]
  /\ killed' = [killed EXCEPT ![h] = TRUE]
  /\ pc' = [pc EXCEPT ![h] = IF @ = "tx_asleep" THEN "tx"
                             ELSE IF @ = "rd_asleep" THEN "rd" ELSE @]
  /\ UNCHANGED <<load, cpuVars, lockVars, left, rest, tx_busy, uartVars, hd, consVars,
                 taken, typed>>

(***************************************************************************)
(* The UART and its interrupt.                                              *)
(***************************************************************************)

uart_send ==
  /\ fifo > 0
  /\ fifo' = fifo - 1
  /\ thre' = (fifo = 1)
  /\ UNCHANGED <<load, cpuVars, lockVars, threadVars, tx_busy, rx, hd, consVars, taken,
                 typed>>

uart_receive ==
  /\ typed < load.typed
  /\ typed' = typed + 1
  /\ \E c \in load.keys : rx' = Append(rx, c)
  /\ UNCHANGED <<load, cpuVars, lockVars, threadVars, tx_busy, fifo, thre, hd, consVars,
                 taken>>

\* The trap turns interrupts off on the hart that takes it.
interrupt(h) ==
  /\ hd = NoHandler /\ intr[h]
  /\ thre \/ rx # <<>>
  /\ intr' = [intr EXCEPT ![h] = FALSE]
  /\ hd' = [hart |-> h, pc |-> "isr", echo |-> 0]
  /\ UNCHANGED <<load, noff, intena, lockVars, threadVars, tx_busy, uartVars, consVars,
                 taken, typed>>

Handles(at) == hd.pc = at
Then(at) == hd' = [hd EXCEPT !.pc = at]
ThenEcho(n) == hd' = [hart |-> hd.hart, pc |-> "echo", echo |-> n]

\* Reading ISR acknowledges THR-empty, unless it reports input first.
intr_ack ==
  /\ Handles("isr") /\ Then("tx")
  /\ thre' = (thre /\ rx # <<>>)
  /\ UNCHANGED <<load, cpuVars, lockVars, threadVars, tx_busy, fifo, rx, consVars,
                 taken, typed>>

intr_lock ==
  \/ /\ Handles("tx") /\ push_off(hd.hart) /\ Then("tx_spin")
     /\ UNCHANGED <<load, lockVars, threadVars, tx_busy, uartVars, consVars, taken,
                    typed>>
  \/ /\ Handles("tx_spin") /\ acquire(hd.hart, tx_lock) /\ Then("tx_idle")
     /\ UNCHANGED <<load, cpuVars, cons_lock, threadVars, tx_busy, uartVars, consVars,
                    taken, typed>>

intr_idle ==
  /\ Handles("tx_idle") /\ Then("getc")
  /\ IF fifo = 0 THEN tx_busy' = FALSE /\ pc' = wakeup("tx_asleep", "tx")
     ELSE UNCHANGED <<tx_busy, pc>>
  /\ release(hd.hart, tx_lock)
  /\ UNCHANGED <<load, cons_lock, left, rest, killed, uartVars, consVars, taken, typed>>

intr_getc ==
  /\ Handles("getc") /\ rx # <<>> /\ push_off(hd.hart) /\ Then("cons")
  /\ UNCHANGED <<load, lockVars, threadVars, tx_busy, uartVars, consVars, taken, typed>>

\* No more input: back to the interrupted thread.
intr_return ==
  /\ Handles("getc") /\ rx = <<>>
  /\ intr' = [intr EXCEPT ![hd.hart] = TRUE]
  /\ hd' = NoHandler
  /\ UNCHANGED <<load, noff, intena, lockVars, threadVars, tx_busy, uartVars, consVars,
                 taken, typed>>

(***************************************************************************)
(* consoleintr(): line editing, under cons.lock.                            *)
(***************************************************************************)

At(k) == buf[k % INPUT_BUF_SIZE]
Editable == (e - w) % Wrap

\* How far control-U goes back: to the start of the line.
KillLength ==
  CHOOSE k \in 0..Editable :
    /\ \A j \in 1..k : At((e - j) % Wrap) # "nl"
    /\ k = Editable \/ At((e - k - 1) % Wrap) = "nl"

erase(k) ==
  /\ e' = (e - k) % Wrap
  /\ line' = SubSeq(line, 1, Len(line) - k)
  /\ ThenEcho(3 * k)
  /\ UNCHANGED <<buf, w, ready, pc>>

Stored(c) == IF c = "cr" THEN "nl" ELSE c
EndsLine_NoFull(c) == c \in {"nl", "D"}
EndsLine(c) == c \in {"nl", "D"} \/ Pending + 1 = INPUT_BUF_SIZE

\* The code echoes c before it stores it; under cons.lock nobody can tell.
store(c) ==
  /\ buf' = [buf EXCEPT ![e % INPUT_BUF_SIZE] = c]
  /\ e' = (e + 1) % Wrap
  /\ IF EndsLine(c)
     THEN /\ w' = e' /\ pc' = wakeup("rd_asleep", "rd")
          /\ ready' = ready \o Append(line, c) /\ line' = <<>>
     ELSE line' = Append(line, c) /\ UNCHANGED <<w, ready, pc>>
  /\ ThenEcho(1)

HasRoom_OneMore == Pending <= INPUT_BUF_SIZE
HasRoom == Pending < INPUT_BUF_SIZE

\* No room; or a character that is not stored: control-P only prints.
drop == Then("echo") /\ UNCHANGED <<buf, w, e, line, ready, pc>>

consoleintr ==
  \/ /\ Handles("cons") /\ acquire(hd.hart, cons_lock) /\ Then("edit")
     /\ UNCHANGED <<load, cpuVars, tx_lock, threadVars, tx_busy, uartVars, consVars,
                    taken, typed>>
  \/ /\ Handles("edit")
     /\ LET c == Head(rx)
        IN \/ c = "U" /\ erase(KillLength)
           \/ c = "H" /\ erase(IF e # w THEN 1 ELSE 0)
           \/ c \notin {"U", "H"} /\ HasRoom /\ store(Stored(c))
           \/ c \notin {"U", "H"} /\ ~HasRoom /\ drop
     /\ rx' = Tail(rx)
     /\ UNCHANGED <<load, cpuVars, lockVars, left, rest, killed, tx_busy, fifo, thre, r,
                    taken, typed>>

\* consputc(): uartputc_sync() for each byte of the echo.
consputc ==
  /\ \/ /\ Handles("echo") /\ hd.echo > 0
        /\ push_off(hd.hart) /\ Then("putc")
        /\ UNCHANGED <<uartVars, cons_lock>>
     \/ /\ Handles("putc") /\ fifo = 0
        /\ Then("thr")
        /\ UNCHANGED <<cpuVars, uartVars, cons_lock>>
     \/ /\ Handles("thr")
        /\ WriteReg_THR /\ pop_off(hd.hart)
        /\ ThenEcho(hd.echo - 1)
        /\ UNCHANGED cons_lock
     \/ /\ Handles("echo") /\ hd.echo = 0
        /\ release(hd.hart, cons_lock) /\ Then("getc")
        /\ UNCHANGED uartVars
  /\ UNCHANGED <<load, tx_lock, threadVars, tx_busy, consVars, taken, typed>>

uartintr ==
  \/ intr_ack \/ intr_lock \/ intr_idle \/ intr_getc \/ consoleintr \/ consputc \/ intr_return

Thread(h) ==
  \/ consolewrite(h) \/ uartwrite_lock(h) \/ uartwrite_byte(h) \/ uartwrite_sleep(h)
  \/ uartwrite_done(h) \/ printf(h)
  \/ consoleread(h) \/ read_lock(h) \/ read_empty(h) \/ read_char(h) \/ read_return(h)

Next ==
  \/ uart_send \/ uart_receive \/ uartintr
  \/ \E h \in Hart : Thread(h) \/ kkill(h) \/ interrupt(h)

Spec == Init /\ [][Next]_vars

(***************************************************************************)
(* Properties.                                                              *)
(***************************************************************************)

Ring(from, n) == [k \in 1..n |-> At((from + k - 1) % Wrap)]

\* Readers get what was typed, edited, in order and nothing twice: the part of
\* the ring between cons.r and cons.w is what has been entered and not yet
\* read, the part up to cons.e is the line being edited, also when the indices
\* wrap; and the ring never holds more than its size.
InputExact ==
  /\ Ring(r, Unread) = SubSeq(ready, taken + 1, Len(ready))
  /\ Ring(w, Editable) = line
  /\ Unread + Editable <= INPUT_BUF_SIZE

TxSleepers == {h \in Hart : pc[h] = "tx_asleep"}
RdSleepers == {h \in Hart : pc[h] = "rd_asleep"}

\* No thread is forgotten.  A reader asleep in consoleread() has nothing to
\* read, and the ring is not full of a line that nobody can end; a writer
\* asleep in uartwrite() waits for bytes in the UART, for its interrupt, or for
\* a handler that has yet to look at LSR, whatever echo and printf() put into
\* THR in between.
NoSleeperForgotten ==
  /\ RdSleepers # {} => r = w /\ Pending < INPUT_BUF_SIZE
  /\ TxSleepers # {} => tx_busy
  /\ tx_busy => fifo > 0 \/ thre \/ hd.pc \in {"tx", "tx_spin", "tx_idle"}

Holds(h) == tx_lock = h \/ cons_lock = h

\* Interrupts and spin locks never deadlock a hart with itself: a hart takes
\* interrupts only while it holds no lock and no push_off() is open, and it
\* takes them again once its call and its handler are over.
InterruptSafe ==
  \A h \in Hart :
    /\ intr[h] => ~Holds(h) /\ noff[h] = 0
    /\ pc[h] \in {"idle", "tx_asleep", "rd_asleep"} /\ hd.hart # h => intr[h]

\* The bytes in the transmit FIFO of the UART are at most one per hart, from
\* uartputc_sync(), and one from uartwrite(), which looks at tx_busy and not
\* at LSR: with 8 harts, fewer than the 16 it has room for.
TxFits == fifo <= Cardinality(Hart) + 1

(***************************************************************************)
(* The invariant behind them.                                               *)
(***************************************************************************)

\* How many push_off()s the place of a thread, or of the handler, has open.
ThreadOffs(at) ==
  IF at \in {"tx_spin", "tx_loop", "putc", "thr", "rd_spin", "rd_loop", "rd_sleep", "rd_return"}
  THEN 1 ELSE IF at = "killed" THEN 2 ELSE 0
HandlerOffs(at) ==
  IF at \in {"tx_spin", "tx_idle", "cons", "edit", "echo"} THEN 1
  ELSE IF at \in {"putc", "thr"} THEN 2 ELSE 0

ThreadPlaces ==
  {"idle", "tx", "tx_spin", "tx_loop", "tx_asleep", "putc", "thr",
   "rd", "rd_spin", "rd_loop", "killed", "rd_sleep", "rd_asleep", "rd_return"}
HandlerPlaces ==
  {"none", "isr", "tx", "tx_spin", "tx_idle", "getc", "cons", "edit", "echo", "putc", "thr"}

\* Where a hart holds tx_lock and cons.lock, in its thread or in the handler.
InTx(h) == pc[h] = "tx_loop" \/ (hd.hart = h /\ hd.pc = "tx_idle")
InCons(h) ==
  \/ pc[h] \in {"rd_loop", "killed", "rd_sleep", "rd_return"}
  \/ hd.hart = h /\ hd.pc \in {"edit", "echo", "putc", "thr"}

\* Interrupts are off exactly while a push_off() is open or the handler runs,
\* and what intena remembers of them is right; a handler has interrupted a
\* thread without locks; locks are held where the code says.
CpuInv ==
  /\ intr \in [Hart -> BOOLEAN] /\ noff \in [Hart -> Nat] /\ intena \in [Hart -> BOOLEAN]
  /\ pc \in [Hart -> ThreadPlaces]
  /\ hd \in [hart : Hart \cup {None}, pc : HandlerPlaces, echo : Nat]
  /\ hd.hart = None => hd = NoHandler
  /\ hd.pc = "none" => hd.hart = None
  /\ hd.pc \in {"putc", "thr"} => hd.echo # 0
  /\ \A h \in Hart :
       /\ hd.hart # h => /\ noff[h] = ThreadOffs(pc[h])
                         /\ intr[h] <=> noff[h] = 0
                         /\ noff[h] # 0 => intena[h]
       /\ hd.hart = h => /\ ThreadOffs(pc[h]) = 0
                         /\ noff[h] = HandlerOffs(hd.pc)
                         /\ ~intr[h] /\ (noff[h] # 0 => ~intena[h])
LockInv ==
  /\ tx_lock \in Hart \cup {None} /\ cons_lock \in Hart \cup {None}
  /\ \A h \in Hart : (tx_lock = h <=> InTx(h)) /\ (cons_lock = h <=> InCons(h))

\* Harts that have seen the transmit FIFO empty and are about to write THR.
Writing == {h \in Hart : pc[h] = "thr" \/ (hd.hart = h /\ hd.pc = "thr")}

\* A byte is in the UART, or about to be, for each hart in uartputc_sync(), and
\* one more only while tx_busy is set.
TxInv ==
  /\ fifo \in Nat /\ tx_busy \in BOOLEAN
  /\ fifo + Cardinality(Writing) <= Cardinality(Hart) + (IF tx_busy THEN 1 ELSE 0)
  /\ TxSleepers # {} => tx_busy
  /\ tx_busy => fifo > 0 \/ thre \/ hd.pc \in {"tx", "tx_spin", "tx_idle"}

\* The indices count the characters taken, entered and being edited; the slots
\* between them hold those characters.  A line being edited has no end, and
\* does not fill the ring.  A reader that is about to sleep, or asleep, has
\* nothing to read.
InputInv ==
  /\ rx \in Seq(load.keys)
  /\ hd.pc \in {"cons", "edit"} => rx # <<>>
  /\ ready \in Seq(load.keys \cup {"nl"}) /\ line \in Seq(load.keys \cup {"nl"})
  /\ taken \in 0..Len(ready)
  /\ Len(ready) + Len(line) <= taken + INPUT_BUF_SIZE /\ Len(line) < INPUT_BUF_SIZE
  /\ r = taken % Wrap /\ w = Len(ready) % Wrap /\ e = (Len(ready) + Len(line)) % Wrap
  /\ DOMAIN buf = 0..INPUT_BUF_SIZE - 1
  /\ \A k \in taken..Len(ready) - 1 : buf[k % INPUT_BUF_SIZE] = ready[k + 1]
  /\ \A k \in 0..Len(line) - 1 : buf[(Len(ready) + k) % INPUT_BUF_SIZE] = line[k + 1]
  /\ \A k \in 1..Len(line) : line[k] # "nl"
  /\ \A h \in Hart : pc[h] \in {"killed", "rd_sleep", "rd_asleep"} => taken = Len(ready)

ConsoleInv == CpuInv /\ LockInv /\ TxInv /\ InputInv
=============================================================================
