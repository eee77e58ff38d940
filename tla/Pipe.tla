-------------------------------- MODULE Pipe --------------------------------
(***************************************************************************)
(* kernel/pipe.c: one pipe, with several processes at each end.             *)
(*                                                                         *)
(* pi->lock is modelled as a lock: a call takes it, works byte by byte, and *)
(* gives it up when it returns or sleeps.  sleep() releases the lock and    *)
(* falls asleep in one step, as the module Proc shows; a wakeup() makes all *)
(* sleepers on its channel take the lock again.  killed(pr) is looked at    *)
(* under p->lock only, so kill() may come between that look and the sleep.  *)
(* Bytes are numbered in the order in which they enter the pipe.            *)
(***************************************************************************)
EXTENDS Integers, Sequences, FiniteSets

CONSTANTS Writer, Reader,  \* the processes that hold each end
          None,
          PIPESIZE,        \* bytes in the buffer
          Wrap,            \* nread and nwrite count modulo Wrap: 2^32
          MaxReq,          \* bytes one call asks for, at most
          MaxSent,         \* bound on the bytes written
          MaxFaults        \* bound on the copies that fail

ASSUME PipeConstants ==
  /\ Writer \cap Reader = {}
  /\ None \notin Writer \cup Reader
  /\ PIPESIZE \in Nat \ {0}
  /\ Wrap \in Nat /\ Wrap > PIPESIZE /\ Wrap % PIPESIZE = 0
  /\ MaxReq \in Nat /\ MaxSent \in Nat /\ MaxFaults \in Nat

Proc == Writer \cup Reader

VARIABLES
  nread, nwrite,        \* the counters
  data,                 \* pi->data[]
  readopen, writeopen,  \* the flags
  lock,                 \* who holds pi->lock
  pc,                   \* where each process is
  left,                 \* n - i: bytes its call still wants
  open,                 \* the processes that have not closed their descriptor
  killed,               \* p->killed
  freed,                \* the pipe has been given back with kmfree()
  sent,                 \* history: bytes written so far
  recv,                 \* history: the bytes read, in order
  lost,                 \* history: bytes taken whose copyout() failed
  faults                \* copies that have failed

pipeVars == <<nread, nwrite, data, readopen, writeopen>>
histVars == <<sent, recv, lost, faults>>
vars == <<nread, nwrite, data, readopen, writeopen, lock, pc, left, open,
          killed, freed, sent, recv, lost, faults>>

Full == nwrite = (nread + PIPESIZE) % Wrap
Empty == nread = nwrite

\* wakeup(&pi->nread) or wakeup(&pi->nwrite): the sleepers of that end.
Woken(S, p) == IF p \in S /\ pc[p] = "asleep" THEN "acquire" ELSE pc[p]
wakeup(S) == [p \in Proc |-> Woken(S, p)]

Call(p) == pc[p] = "out" /\ p \in open

(***************************************************************************)
(* What both calls do.                                                      *)
(***************************************************************************)

\* Bytes written, or promised to a write() in progress.
InFlight == sent + MaxReq * Cardinality({w \in Writer : pc[w] # "out"})

\* A killed process exits instead of making another call.
Start(p) ==
  /\ Call(p)
  /\ ~killed[p]
  /\ \E n \in 1..MaxReq :
       /\ left' = [left EXCEPT ![p] = n]
       /\ p \in Writer => InFlight + n <= MaxSent
  /\ pc' = [pc EXCEPT ![p] = "acquire"]
  /\ UNCHANGED <<pipeVars, lock, open, killed, freed, histVars>>

Acquire(p) ==
  /\ pc[p] = "acquire"
  /\ lock = None
  /\ lock' = p
  /\ pc' = [pc EXCEPT ![p] = "loop"]
  /\ UNCHANGED <<pipeVars, left, open, killed, freed, histVars>>

\* sleep(), after the look at killed(pr).
Sleep(p) ==
  /\ pc[p] = "sleep"
  /\ lock' = None
  /\ pc' = [pc EXCEPT ![p] = "asleep"]
  /\ UNCHANGED <<pipeVars, left, open, killed, freed, histVars>>

(***************************************************************************)
(* pipewrite().                                                             *)
(***************************************************************************)

InWrite(p) == p \in Writer /\ pc[p] = "loop"

\* The readers are gone, or the writer was killed: -1, and no wakeup.
write_fails_KeepLock(p) ==
  /\ InWrite(p)
  /\ left[p] > 0
  /\ ~readopen \/ killed[p]
  /\ pc' = [pc EXCEPT ![p] = "out"]
  /\ left' = [left EXCEPT ![p] = 0]
  /\ UNCHANGED <<pipeVars, lock, open, killed, freed, histVars>>
write_fails(p) ==
  /\ InWrite(p)
  /\ left[p] > 0
  /\ ~readopen \/ killed[p]
  /\ lock' = None
  /\ pc' = [pc EXCEPT ![p] = "out"]
  /\ left' = [left EXCEPT ![p] = 0]
  /\ UNCHANGED <<pipeVars, open, killed, freed, histVars>>

\* The pipe is full: wake the readers and sleep.
write_full(p) ==
  /\ InWrite(p)
  /\ left[p] > 0 /\ readopen /\ ~killed[p]
  /\ Full
  /\ pc' = [wakeup(Reader) EXCEPT ![p] = "sleep"]
  /\ UNCHANGED <<pipeVars, lock, left, open, killed, freed, histVars>>

HasSpace_Late == nwrite # (nread + PIPESIZE + 1) % Wrap
HasSpace == ~Full
write_byte(p) ==
  /\ InWrite(p)
  /\ left[p] > 0 /\ readopen /\ ~killed[p]
  /\ HasSpace
  /\ data' = [data EXCEPT ![nwrite % PIPESIZE] = sent + 1]
  /\ nwrite' = (nwrite + 1) % Wrap
  /\ sent' = sent + 1
  /\ left' = [left EXCEPT ![p] = @ - 1]
  /\ UNCHANGED <<nread, readopen, writeopen, lock, pc, open, killed, freed, recv, lost, faults>>

\* All bytes are in: wake the readers and return.
write_done(p) ==
  /\ InWrite(p)
  /\ left[p] = 0
  /\ pc' = [wakeup(Reader) EXCEPT ![p] = "out"]
  /\ lock' = None
  /\ left' = [left EXCEPT ![p] = 0]
  /\ UNCHANGED <<pipeVars, open, killed, freed, histVars>>

\* copyin() fails: return the bytes written so far.
write_fault(p) ==
  /\ InWrite(p)
  /\ left[p] > 0 /\ readopen /\ ~killed[p] /\ ~Full
  /\ faults < MaxFaults
  /\ faults' = faults + 1
  /\ pc' = [wakeup(Reader) EXCEPT ![p] = "out"]
  /\ lock' = None
  /\ left' = [left EXCEPT ![p] = 0]
  /\ UNCHANGED <<pipeVars, open, killed, freed, sent, recv, lost>>

(***************************************************************************)
(* piperead().                                                              *)
(***************************************************************************)

InRead(p) == p \in Reader /\ pc[p] = "loop"

\* Empty, but somebody may still write: -1 when killed, else sleep.
read_fails(p) ==
  /\ InRead(p)
  /\ Empty /\ writeopen
  /\ killed[p]
  /\ lock' = None
  /\ pc' = [pc EXCEPT ![p] = "out"]
  /\ left' = [left EXCEPT ![p] = 0]
  /\ UNCHANGED <<pipeVars, open, killed, freed, histVars>>

read_empty(p) ==
  /\ InRead(p)
  /\ Empty /\ writeopen
  /\ ~killed[p]
  /\ pc' = [pc EXCEPT ![p] = "sleep"]
  /\ UNCHANGED <<pipeVars, lock, left, open, killed, freed, histVars>>

\* The copy loop, once there is something or nobody can write any more.
read_starts(p) ==
  /\ InRead(p)
  /\ ~Empty \/ ~writeopen
  /\ pc' = [pc EXCEPT ![p] = "copy"]
  /\ UNCHANGED <<pipeVars, lock, left, open, killed, freed, histVars>>

\* for (i = 0; i < n; i++) if (pi->nread == pi->nwrite) break;
MayRead(p) == left[p] > 0 /\ ~Empty

read_byte(p) ==
  /\ p \in Reader /\ pc[p] = "copy"
  /\ MayRead(p)
  /\ nread' = (nread + 1) % Wrap
  /\ recv' = Append(recv, data[nread % PIPESIZE])
  /\ left' = [left EXCEPT ![p] = @ - 1]
  /\ UNCHANGED <<nwrite, data, readopen, writeopen, lock, pc, open, killed, freed, sent, lost,
                 faults>>

\* Nothing left, or nothing more wanted: wake the writers and return.
ReadWakes_IfFull == IF Full THEN Writer ELSE {}
ReadWakes == Writer
read_done(p) ==
  /\ p \in Reader /\ pc[p] = "copy"
  /\ left[p] = 0 \/ Empty
  /\ pc' = [wakeup(ReadWakes) EXCEPT ![p] = "out"]
  /\ lock' = None
  /\ left' = [left EXCEPT ![p] = 0]
  /\ UNCHANGED <<pipeVars, open, killed, freed, histVars>>

\* copyout() fails: nread has already moved past the byte.
read_fault(p) ==
  /\ p \in Reader /\ pc[p] = "copy"
  /\ left[p] > 0 /\ ~Empty
  /\ nread' = (nread + 1) % Wrap
  /\ faults < MaxFaults
  /\ faults' = faults + 1
  /\ lost' = lost + 1
  /\ pc' = [wakeup(ReadWakes) EXCEPT ![p] = "out"]
  /\ lock' = None
  /\ left' = [left EXCEPT ![p] = 0]
  /\ UNCHANGED <<nwrite, data, readopen, writeopen, open, killed, freed, sent, recv>>

(***************************************************************************)
(* pipeclose(), when the last process of an end closes it, and kill().      *)
(***************************************************************************)

\* The wakeups of pipeclose(): the readers when the write end closes, the
\* writers when the read end does.
CloseWakes(End) == Proc \ End

Unused(w, r) == ~w /\ ~r

pipeclose(End) ==
  /\ writeopen' = (writeopen /\ End # Writer)
  /\ readopen' = (readopen /\ End # Reader)
  /\ pc' = wakeup(CloseWakes(End))
  /\ freed' = Unused(writeopen', readopen')

Close(p) ==
  /\ Call(p)
  /\ open' = open \ {p}
  /\ \E End \in {Writer, Reader} :
       /\ p \in End
       /\ \/ /\ open' \cap End = {}
             /\ lock = None
             /\ pipeclose(End)
          \/ /\ open' \cap End # {}
             /\ UNCHANGED <<readopen, writeopen, pc, freed>>
  /\ UNCHANGED <<nread, nwrite, data, lock, left, killed, histVars>>

\* Killing a process that has left the pipe alone for good changes nothing here.
kkill(p) ==
  /\ p \in open
  /\ ~killed[p]
  /\ killed' = [killed EXCEPT ![p] = TRUE]
  /\ pc' = wakeup({p})
  /\ UNCHANGED <<pipeVars, lock, left, open, freed, histVars>>

Init ==
  /\ nread = 0 /\ nwrite = 0
  /\ data = [i \in 0..PIPESIZE - 1 |-> 0]
  /\ readopen = TRUE /\ writeopen = TRUE
  /\ lock = None
  /\ pc = [p \in Proc |-> "out"]
  /\ left = [p \in Proc |-> 0]
  /\ open = Proc
  /\ killed = [p \in Proc |-> FALSE]
  /\ freed = FALSE
  /\ sent = 0 /\ recv = <<>> /\ lost = 0 /\ faults = 0

\* What a process inside a call does next.
Step(p) ==
  \/ Acquire(p) \/ Sleep(p)
  \/ write_fails(p) \/ write_full(p) \/ write_byte(p) \/ write_done(p) \/ write_fault(p)
  \/ read_fails(p) \/ read_empty(p) \/ read_starts(p) \/ read_byte(p)
  \/ read_done(p) \/ read_fault(p)

Next == \E p \in Proc : Start(p) \/ Step(p) \/ Close(p) \/ kkill(p)

Spec == Init /\ [][Next]_vars

\* A process inside a call runs on and gets the lock in the end; readers keep
\* reading or close, and so do writers.
Fairness ==
  \A p \in Proc :
    /\ SF_vars(Acquire(p))
    /\ WF_vars(Step(p))
    /\ WF_vars(Start(p) \/ Close(p))

FairSpec == Spec /\ Fairness

(***************************************************************************)
(* Properties.                                                              *)
(***************************************************************************)

Count == (nwrite - nread) % Wrap

\* The bytes come out in the order in which they went in, none twice, also when
\* the counters wrap, and every byte is read, lost in a failed copyout(), or
\* still in the buffer, which holds at most PIPESIZE of them.
InOrder ==
  /\ \A i, j \in 1..Len(recv) : i < j => recv[i] < recv[j]
  /\ Len(recv) + lost + Count = sent
  /\ Count <= PIPESIZE

\* A reader sleeps in piperead() only while the pipe is empty and somebody may
\* still write (pipe.c:95, "DOC: pipe-empty").
ReaderWaitsRightly ==
  lock = None => \A p \in Reader : pc[p] = "asleep" => Empty /\ writeopen

\* A writer sleeps in pipewrite() only while there is no room and somebody may
\* still read (pipe.c:72, "DOC: pipewrite-full").
WriterWaitsRightly ==
  lock = None => \A p \in Writer : pc[p] = "asleep" => Full /\ readopen

\* Nobody sleeps through what it waits for.  Readers are safe as long as no
\* writer is killed: a writer killed in mid-call returns without the wakeup
\* for the bytes it has already put into the pipe.
SleepersWaitRightly ==
  /\ WriterWaitsRightly
  /\ (\A p \in Writer : ~killed[p]) => ReaderWaitsRightly

\* Why nobody does.  A process between acquire() and release() is the one that
\* holds pi->lock; a process in a call has the pipe open; and whoever has made
\* what a sleeper waits for true is still in its call, at a point from which it
\* wakes the sleepers before it lets the lock go.
SleepInv ==
  /\ pc \in [Proc -> {"out", "acquire", "loop", "copy", "sleep", "asleep"}]
  /\ killed \in [Proc -> BOOLEAN] /\ open \subseteq Proc
  /\ readopen \in BOOLEAN /\ writeopen \in BOOLEAN
  /\ \A p \in Proc :
       /\ pc[p] \in {"loop", "copy", "sleep"} <=> lock = p
       /\ pc[p] # "out" => p \in open
  /\ readopen \/ open \cap Reader = {}
  /\ \A p \in Reader :
       /\ pc[p] = "sleep" => Empty /\ writeopen
       /\ pc[p] = "asleep" =>
            writeopen /\ (Empty \/ \E w \in Writer : killed[w] \/ pc[w] = "loop")
  /\ \A p \in Writer :
       /\ pc[p] = "sleep" => Full /\ readopen
       /\ pc[p] = "asleep" => readopen /\ (Full \/ \E r \in Reader : pc[r] = "copy")

\* Why the order is kept.  Unwrapped, the counters are the bytes taken out and
\* the bytes put in; the slots between them hold these bytes in order, and the
\* bytes read are older than the ones that follow.
Taken == Len(recv) + lost
RingInv ==
  /\ sent \in Nat /\ lost \in Nat /\ recv \in Seq(Nat)
  /\ data \in [0..PIPESIZE - 1 -> Nat]
  /\ Taken <= sent /\ sent <= Taken + PIPESIZE
  /\ nread = Taken % Wrap /\ nwrite = sent % Wrap
  /\ \A k \in Taken..sent - 1 : data[k % PIPESIZE] = k + 1
  /\ \A i, j \in 1..Len(recv) : i < j => recv[i] < recv[j]
  /\ \A i \in 1..Len(recv) : recv[i] <= Taken

\* Every read() and every write() returns: with bytes or room, at the end of
\* the file or when the readers are gone, or by kill().
CallsReturn == \A p \in Proc : pc[p] # "out" ~> pc[p] = "out"
=============================================================================
